------------------------------ MODULE IAMPages ------------------------------
(***************************************************************************)
(* collectIAMPages (internal/platform/iam_pagination_client.go): users,    *)
(* groups, roles and binding policies, read by page number from a server   *)
(* like that of VCInventory while entries are created and deleted, and     *)
(* while entries with equal timestamps change places between two pages.  A *)
(* scan that looks unstable is repeated once, with another page size.      *)
(***************************************************************************)
EXTENDS VCInventory

CONSTANT RetryLimit   \* the page size of the second scan

ASSUME RetryAssumption == RetryLimit \in Nat \ {0}

VARIABLES
  hints,      \* what the server says of the next page: "next", "none" or "echo"
  numbered,   \* numberedFallback
  pass,       \* 1 or 2
  page,       \* token: the number of the page
  unstable, duplicates,
  changes     \* observer: entries created or deleted during this pass

scan == <<pass, page, unstable, duplicates>>
iamVars == <<inventoryVars, hints, numbered, scan, changes>>

ScanInit ==
  /\ hints \in {"next", "none", "echo"} /\ numbered \in BOOLEAN
  /\ pass = 1 /\ page = 1
  /\ unstable = FALSE /\ duplicates = FALSE
  /\ changes = 0

\* The page numbers are the tokens, so the server has no cursor.
IAMInit == InventoryInit /\ ~cursor /\ ScanInit

Size == IF pass = 2 /\ RetryLimit > PageLimit THEN RetryLimit ELSE PageLimit

\* The entries of a page, in the order of their creation.
Numbered(n) == {v \in live : Rank(v) \div Size = n - 1}

HintAfter(n) ==
  CASE hints = "next" -> IF Cardinality(live) > n * Size THEN n + 1 ELSE 0
    [] hints = "none" -> 0
    [] hints = "echo" -> n

\* Equal timestamps: as many entries, but any.
Overlapping(n) ==
  LET size == Cardinality(Numbered(n)) IN {S \in SUBSET live : Cardinality(S) = size}

\* A total of zero is no total.
Announced == IF totals /\ live # {} THEN Cardinality(live) ELSE NoTotal

\* What is known after a page.
Expected == IF Announced # NoTotal THEN Announced ELSE total
Drifts == Announced # NoTotal /\ total \notin {NoTotal, Announced}

\* Where the scan goes after the page: to another page, or 0 when it is over.
Follows(items, hint) ==
  IF \/ items = {} \/ items \subseteq clusters
     \/ Expected # NoTotal /\ Cardinality(clusters \cup items) >= Expected THEN 0
  ELSE IF hint \notin {0, page} THEN hint
  ELSE IF numbered /\ Cardinality(items) >= Size THEN page + 1 ELSE 0

\* The server repeats the token it was asked with, and there is no other way on.
Echoes(items, hint) ==
  /\ hint = page /\ Follows(items, hint) = 0
  /\ ~(items \subseteq clusters)
  /\ Expected = NoTotal \/ Cardinality(clusters \cup items) < Expected

\* A scan that is over is not trusted: the total changed, a page brought nothing
\* new, entries are missing, or some came twice and nothing else vouches for them.
Untrusted(items) ==
  LET repeats == items \cap clusters # {} IN
  \/ unstable \/ Drifts
  \/ items # {} /\ items \subseteq clusters
  \/ Expected # NoTotal /\ Cardinality(clusters \cup items) < Expected
  \/ Expected = NoTotal /\ (duplicates \/ repeats)

EndScan(outcome, items) ==
  /\ result' = outcome
  /\ clusters' = IF outcome = "complete" THEN clusters \cup items ELSE {}
  /\ received' = IF outcome = "complete" THEN Cardinality(clusters \cup items) ELSE 0
  /\ UNCHANGED <<scan, total, changes, steady>>

\* From page 1 again: what has been received is forgotten.
Rescan ==
  /\ pass' = 2 /\ page' = 1
  /\ unstable' = FALSE /\ duplicates' = FALSE
  /\ clusters' = {} /\ received' = 0 /\ total' = NoTotal
  /\ changes' = 0 /\ steady' = live
  /\ UNCHANGED result

FetchPage(items) ==
  LET hint == HintAfter(page)
      follows == Follows(items, hint)
  IN
  /\ result = "listing"
  /\ \/ /\ follows # 0
        /\ page' = follows
        /\ clusters' = clusters \cup items
        /\ received' = Cardinality(clusters')
        /\ total' = Expected
        /\ unstable' = (unstable \/ Drifts)
        /\ duplicates' = (duplicates \/ items \cap clusters # {})
        /\ UNCHANGED <<pass, result, changes, steady>>
     \/ /\ follows = 0
        /\ CASE Echoes(items, hint) -> EndScan("incomplete", items)
             [] ~Echoes(items, hint) /\ ~Untrusted(items) -> EndScan("complete", items)
             [] ~Echoes(items, hint) /\ Untrusted(items) ->
                  IF pass = 2 THEN EndScan("incomplete", items) ELSE Rescan
  /\ UNCHANGED <<live, created, deleted, cursor, totals, skip, token, pages, tokens,
                 hints, numbered>>

IAMPage == FetchPage(Numbered(page)) /\ UNCHANGED faults

TiedPage ==
  /\ Faulty
  /\ \E items \in Overlapping(page) \ {Numbered(page)} : FetchPage(items)
  /\ faults' = 1

IAMRefused == Refused /\ UNCHANGED <<hints, numbered, scan, changes>>

IAMChange ==
  /\ \E v \in VCs : Create(v) \/ Delete(v)
  /\ changes' = changes + 1
  /\ UNCHANGED <<hints, numbered, scan>>

IAMNext == IAMPage \/ TiedPage \/ IAMRefused \/ IAMChange

IAMSpec == IAMInit /\ [][IAMNext]_iamVars
-----------------------------------------------------------------------------
\* "persistent drift is an error": when the list is returned, every entry that
\* was there during the whole scan is in it.  With totals that survives a
\* creation or a deletion and any number of misplaced entries; without them it
\* needs an honest server, nothing that changes, and a way to the next page.
NoEntryIsMissing ==
  result = "complete" =>
    \/ steady \subseteq clusters
    \/ totals /\ changes > 1
    \/ ~totals /\ (changes > 0 \/ faults > 0 \/ (hints = "none" /\ ~numbered))
=============================================================================
