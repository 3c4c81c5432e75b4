---------------------------- MODULE VCInventory ----------------------------
(***************************************************************************)
(* listVCKubeconfigInventoryForProfile (internal/platform/vc_kubeconfig.   *)
(* go): one profile's VCs, read page by page while VCs are created and     *)
(* deleted and while the server may answer badly.  vc renew takes what it  *)
(* returns for all there is: a VC that is missing loses its local file.    *)
(*                                                                         *)
(* VCs are numbers, their UIDs; the server lists them in ascending order.  *)
(* A page starts after `skip` entries, or after its token, the UID the     *)
(* page before it ended with; 0 stands for an empty token.                 *)
(***************************************************************************)
EXTENDS Naturals, FiniteSets

CONSTANTS
  VCs,       \* possible UIDs: positive numbers
  PageLimit, \* defaultPageLimit
  Created,   \* bound on the VCs created while listing
  Deleted,   \* bound on the VCs deleted while listing
  Faulty     \* whether the server may send truncated or stale pages

ASSUME InventoryAssumption ==
  /\ VCs \subseteq Nat \ {0} /\ IsFiniteSet(VCs)
  /\ PageLimit \in Nat \ {0}
  /\ Created \in Nat /\ Deleted \in Nat /\ Faulty \in BOOLEAN

NoTotal == Cardinality(VCs) + 1

VARIABLES
  live,            \* the VCs of the profile
  created, deleted,
  steady,          \* observer: those that existed all the time
  cursor,          \* the server gives page tokens
  totals,          \* the server gives total_size
  faults,          \* observer: bad pages sent
  skip, token, total,
  pages,           \* seenPages
  tokens,          \* seenTokens
  clusters,        \* the VCs received, which are seenUIDs as well
  received,        \* len(clusters)
  result

server == <<live, created, deleted, steady, cursor, totals>>
inventoryVars == <<server, faults, skip, token, total, pages, tokens, clusters,
                   received, result>>

InventoryInit ==
  /\ live \in SUBSET VCs
  /\ created = 0 /\ deleted = 0
  /\ steady = live
  /\ cursor \in BOOLEAN /\ totals \in BOOLEAN
  /\ faults = 0
  /\ skip = 0 /\ token = 0 /\ total = NoTotal
  /\ pages = {} /\ tokens = {} /\ clusters = {}
  /\ received = 0
  /\ result = "listing"
-----------------------------------------------------------------------------
(***************************************************************************)
(* The server.                                                             *)
(***************************************************************************)
Rank(v) == Cardinality({w \in live : w < v})

\* The page of a request: the entries after the token, or after skip entries.
Page(s, t) ==
  LET rest == IF t # 0 THEN {v \in live : v > t} ELSE {v \in live : Rank(v) >= s}
  IN {v \in rest : Cardinality({w \in rest : w < v}) < PageLimit}

Greatest(S) == CHOOSE v \in S : \A w \in S : w <= v

\* The token that follows a page.
TokenAfter(items) ==
  IF cursor /\ items # {} /\ \E v \in live : v > Greatest(items)
    THEN Greatest(items) ELSE 0

Response(items, next) ==
  [items |-> items, next |-> next,
   total |-> IF totals THEN Cardinality(live) ELSE NoTotal]

Honest == Response(Page(skip, token), TokenAfter(Page(skip, token)))

\* A page cut short without a token, or the first page again.
BadResponses ==
  {Response({v \in Page(skip, token) : Rank(v) < n}, 0) :
     n \in 0 .. Cardinality(live)}
  \cup {Response(Page(0, 0), TokenAfter(Page(0, 0)))}

Create(v) ==
  /\ result = "listing" /\ created < Created /\ v \notin live
  /\ live' = live \cup {v}
  /\ created' = created + 1
  /\ UNCHANGED <<deleted, steady, cursor, totals, faults, skip, token, total,
                 pages, tokens, clusters, received, result>>

Delete(v) ==
  /\ result = "listing" /\ deleted < Deleted /\ v \in live
  /\ live' = live \ {v}
  /\ steady' = steady \ {v}
  /\ deleted' = deleted + 1
  /\ UNCHANGED <<created, cursor, totals, faults, skip, token, total, pages,
                 tokens, clusters, received, result>>
-----------------------------------------------------------------------------
(***************************************************************************)
(* One page: the checks in the order of the code.                          *)
(***************************************************************************)
Count(r) == skip + Cardinality(r.items)

TotalBefore(r) == IF r.total # NoTotal THEN r.total ELSE total

\* total_size changed between pages, or there are more entries than it says.
TotalIgnored(r) == FALSE          \* mutant: total_size only ends the listing
TotalWrong(r) ==
  \/ r.total # NoTotal /\ total # NoTotal /\ r.total # total
  \/ TotalBefore(r) # NoTotal /\ Count(r) > TotalBefore(r)

More(r) ==
  r.next # 0 \/ (TotalBefore(r) # NoTotal /\ Count(r) < TotalBefore(r))

RepeatsUnseen(r) == FALSE         \* mutant: pages and UIDs are not compared
Repeats(r) ==
  \/ r.items \in pages
  \/ r.items \cap clusters # {}

Stops(r) ==
  /\ ~More(r)
  /\ TotalBefore(r) # NoTotal \/ Cardinality(r.items) < PageLimit

TokenRepeats(r) == r.next # 0 /\ r.next \in tokens

Verdict(r) ==
  IF TotalWrong(r) THEN "incomplete"
  ELSE IF r.items = {} THEN (IF More(r) THEN "incomplete" ELSE "complete")
  ELSE IF Repeats(r) THEN "incomplete"
  ELSE IF Stops(r) THEN "complete"
  ELSE IF TokenRepeats(r) THEN "incomplete" ELSE "listing"

Receive(r) ==
  /\ result' = Verdict(r)
  /\ total' = TotalBefore(r)
  /\ clusters' = IF Verdict(r) = "incomplete" THEN {} ELSE clusters \cup r.items
  /\ received' = IF Verdict(r) = "incomplete" THEN 0
                 ELSE received + Cardinality(r.items)
  /\ IF Verdict(r) = "listing"
       THEN /\ pages' = pages \cup {r.items}
            /\ tokens' = IF r.next # 0 THEN tokens \cup {r.next} ELSE tokens
            /\ skip' = Count(r) /\ token' = r.next
       ELSE UNCHANGED <<pages, tokens, skip, token>>
  /\ UNCHANGED server

NextPage ==
  /\ result = "listing"
  /\ Receive(Honest)
  /\ UNCHANGED faults

BadPage ==
  /\ result = "listing" /\ Faulty
  /\ \E r \in BadResponses \ {Honest} : Receive(r)
  /\ faults' = 1

\* The request fails, or the answer holds no array.
Refused ==
  /\ result = "listing"
  /\ result' = "incomplete"
  /\ clusters' = {} /\ received' = 0
  /\ UNCHANGED <<server, faults, skip, token, total, pages, tokens>>

InventoryNext ==
  \/ NextPage \/ BadPage \/ Refused
  \/ \E v \in VCs : Create(v) \/ Delete(v)

InventorySpec == InventoryInit /\ [][InventoryNext]_inventoryVars
-----------------------------------------------------------------------------
\* Inventory completeness controls local cleanup: a VC that existed all the
\* time is missing from a complete inventory of a server that gives totals only
\* if VCs were both created and deleted meanwhile, so that the total stayed as
\* it was.  Neither truncated nor stale pages lead to that.
NothingMissing ==
  result = "complete" /\ totals /\ (created = 0 \/ deleted = 0) =>
    steady \subseteq clusters

\* No VC is counted twice, and there are as many as the server said.  Hence a
\* server that repeats itself cannot keep the listing going: every page but the
\* last has brought a VC that was not known.
CountedOnce ==
  /\ received = Cardinality(clusters)
  /\ result = "complete" /\ total # NoTotal => received = total

\* docs/vc-renew.md: "Any failed or incomplete inventory prevents all cleanup
\* in that run": what is taken for complete has every VC there was all along.
CompleteMeansComplete ==
  result = "complete" /\ faults = 0 /\ totals => steady \subseteq clusters
=============================================================================
