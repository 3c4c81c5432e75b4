----------------------------- MODULE NewestJobs -----------------------------
(***************************************************************************)
(* Lists of the newest jobs (internal/service: job_list.go, ssp_catalog_   *)
(* service.go, ssp_air_service.go; internal/platform: ssp_client.go,       *)
(* ssp_aid_client.go, ssp_air_client.go, vc_kube_proxy_client.go): every   *)
(* part of a tenant, a VC or a workspace, is read by pages of a position   *)
(* and a size until a limit or a point in time is reached, while jobs are  *)
(* created and deleted; then the parts are merged and cut.                 *)
(*                                                                         *)
(* Jobs are numbered by the time they are listed by: their creation, or,   *)
(* for failed ones, their end.  The server sorts failed jobs by their last *)
(* update, which may come later than the end.                              *)
(*                                                                         *)
(* An item is <<part, place, job>>: a job that was received twice is two   *)
(* items.  What a list is sorted for is what it keeps when it is cut.      *)
(***************************************************************************)
EXTENDS Naturals, FiniteSets

CONSTANTS
  NJobs, PageSize,
  Arrivals, Removals, \* bounds on the jobs created and deleted while listing
  Limits, Instants    \* the limits and the points in time that are asked for

ASSUME NewestAssumption ==
  /\ {NJobs, PageSize} \subseteq Nat \ {0}
  /\ Arrivals \in 0 .. NJobs /\ Removals \in Nat
  /\ Limits \subseteq Nat /\ Instants \subseteq Nat /\ 0 \in Limits \cap Instants

Jobs == 1 .. NJobs

VARIABLES
  lister, limit, since, \* what is asked; 0 is no limit, or no point in time
  counted,              \* the server announces how many there are
  owner,                \* the part that has a job
  late,                 \* failed jobs that are updated after all others: none, or
                        \* the oldest
  newest,               \* the newest job there has been
  alive,                \* the jobs there are
  steady0,              \* observer: those there have been all along
  removed,              \* observer: how many have been deleted
  offset, got, part,    \* of each part: skip, items, and how the reading ended
  shown                 \* the result

listVars == <<lister, limit, since, counted, owner, late, newest, alive, steady0, removed,
              offset, got, part, shown>>

Paged == {"ListVolcanoJobs", "ListAIT", "ListAID", "ListQueueWorkloads", "ListAIR"}
AtOnce == {"ListLocalVolcanoJobs", "ListClusterJobs", "ListUserJobs"}
Listers == Paged \cup AtOnce

\* These take neither a limit nor a point in time.
Unlimited == {"ListAIR", "ListClusterJobs", "ListUserJobs"}

\* Listing failed jobs; AIDs are sorted by their creation all the same.
ByUpdate == late # {}

\* A queue is one part, with the jobs of several workspaces.
Parts == IF lister = "ListQueueWorkloads" THEN {1} ELSE {1, 2}
InPart(p) == {j \in alive : lister = "ListQueueWorkloads" \/ owner[j] = p}
Wanted == {j \in Jobs : lister = "ListQueueWorkloads" => owner[j] = 1}

NewestInit ==
  /\ lister \in Listers
  /\ limit \in Limits /\ since \in Instants
  /\ lister \in Unlimited => limit = 0 /\ since = 0
  /\ counted \in BOOLEAN
  /\ lister \in AtOnce => counted
  /\ owner \in [Jobs -> {1, 2}] /\ owner[1] = 1
  /\ late \in {{}, {1}}
  /\ lister \in {"ListAID"} \cup Unlimited => late = {}
  /\ newest = NJobs - Arrivals /\ alive = 1 .. newest /\ steady0 = alive /\ removed = 0
  /\ offset = [p \in {1, 2} |-> 0]
  /\ got = [p \in {1, 2} |-> {}]
  /\ part = [p \in {1, 2} |-> "reading"]
  /\ shown = [state |-> "reading", items |-> {}, warned |-> FALSE]
-----------------------------------------------------------------------------
\* The order of the server, and the places of the jobs in it, from 0.
Rank0(j) == IF j \in late THEN NJobs + j ELSE j
Place(p, j) == Cardinality({k \in InPart(p) : Rank0(k) > Rank0(j)})
Item(p, j) == <<p, Place(p, j), j>>

\* The order of the result: the newest first.
Ahead(i, items) ==
  {k \in items :
     \/ k[3] > i[3]
     \/ k[3] = i[3] /\ (k[1] < i[1] \/ (k[1] = i[1] /\ k[2] < i[2]))}
CutTo(items) ==
  IF limit > 0 THEN {i \in items : Cardinality(Ahead(i, items)) < limit} ELSE items

Fresh(j) == j >= since

Recent(items) == {i \in items : Fresh(i[3])}

SizeOf(p) ==
  LET left == limit - Cardinality(got[p])
  IN IF limit > 0 /\ left < PageSize THEN left ELSE PageSize

PageOf(p) ==
  {Item(p, j) : j \in {k \in InPart(p) : /\ offset[p] <= Place(p, k)
                                         /\ Place(p, k) < offset[p] + SizeOf(p)}}

\* After a page of which so many were kept, there is no other.
LastPage(p, page, kept) ==
  \/ Cardinality(kept) < Cardinality(page)
  \/ Cardinality(page) < SizeOf(p)
  \/ counted /\ offset[p] + Cardinality(page) >= Cardinality(InPart(p))
  \/ limit > 0 /\ Cardinality(got[p]) + Cardinality(kept) >= limit

\* Without a total the list of AIR jobs is over after its first page.
LastAIRPage(p, page) ==
  \/ Cardinality(page) < PageSize
  \/ ~counted
  \/ Cardinality(got[p]) + Cardinality(page) >= Cardinality(InPart(p))

ReadPage(p) ==
  LET page == PageOf(p)
      kept == Recent(page)
  IN
  /\ lister \in Paged /\ part[p] = "reading"
  /\ got' = [got EXCEPT ![p] = @ \cup kept]
  /\ IF (IF lister = "ListAIR" THEN LastAIRPage(p, page) ELSE LastPage(p, page, kept))
       THEN part' = [part EXCEPT ![p] = "read"] /\ UNCHANGED offset
       ELSE offset' = [offset EXCEPT ![p] = @ + Cardinality(page)] /\ UNCHANGED part
  /\ UNCHANGED <<lister, limit, since, counted, owner, late, newest, alive, steady0, removed,
                 shown>>

\* listLocalVolcanoJobs, ListVolcanoJobsForProfile, ListVolcanoJobsByLabelSelector:
\* everything in one reply.
ReadAll(p) ==
  /\ lister \in AtOnce /\ part[p] = "reading"
  /\ lister = "ListClusterJobs" => \A q \in Parts : q < p => part[q] = "read"
  /\ got' = [got EXCEPT ![p] = CutTo(Recent({Item(p, j) : j \in InPart(p)}))]
  /\ part' = [part EXCEPT ![p] = "read"]
  /\ UNCHANGED <<lister, limit, since, counted, owner, late, newest, alive, steady0, removed,
                 offset, shown>>

\* A page that cannot be read takes its part with it.
FailPart(p) ==
  /\ part[p] = "reading" /\ shown.state = "reading"
  /\ part' = [part EXCEPT ![p] = "failed"]
  /\ got' = [got EXCEPT ![p] = {}]
  /\ UNCHANGED <<lister, limit, since, counted, owner, late, newest, alive, steady0, removed,
                 offset, shown>>
-----------------------------------------------------------------------------
FailedParts == {p \in Parts : part[p] = "failed"}
AllParts == \A p \in Parts : part[p] # "reading"
Merged == UNION {got[p] : p \in Parts}

Show(items, warned) ==
  shown' = [state |-> "listed", items |-> CutTo(items), warned |-> warned]
ShowError == shown' = [shown EXCEPT !.state = "error"]

\* A VC that cannot be read is a warning; all of them are an error.
MergeVCs ==
  IF FailedParts = Parts THEN ShowError ELSE Show(Merged, FailedParts # {})

\* A workspace that cannot be read is left out, unless there is nothing else.
MergeWorkspaces ==
  IF FailedParts # {} /\ Merged = {} THEN ShowError ELSE Show(Merged, FALSE)

\* The workspace is chosen after the queue's list has been cut.
MergeQueue ==
  IF FailedParts # {} THEN ShowError
  ELSE Show({i \in Merged : i[3] \in Wanted}, FALSE)

\* Repeated jobs are dropped first.
MergeAIR ==
  IF FailedParts = Parts THEN ShowError
  ELSE Show({i \in Merged : \A k \in Ahead(i, Merged) : k[3] # i[3]}, FailedParts # {})

\* The first failure is the answer.
MergeStrict == IF FailedParts # {} THEN ShowError ELSE Show(Merged, FALSE)

Merge ==
  /\ shown.state = "reading"
  /\ AllParts \/ (lister \in {"ListClusterJobs", "ListUserJobs"} /\ FailedParts # {})
  /\ CASE lister \in {"ListVolcanoJobs", "ListLocalVolcanoJobs"} -> MergeVCs
       [] lister \in {"ListAIT", "ListAID"} -> MergeWorkspaces
       [] lister = "ListQueueWorkloads" -> MergeQueue
       [] lister = "ListAIR" -> MergeAIR
       [] lister \in {"ListClusterJobs", "ListUserJobs"} -> MergeStrict
  /\ UNCHANGED <<lister, limit, since, counted, owner, late, newest, alive, steady0, removed,
                 offset, got, part>>

\* Other users, while the lists are read.
Changing ==
  /\ shown.state = "reading"
  /\ UNCHANGED <<lister, limit, since, counted, owner, late, offset, got, part, shown>>

JobCreated ==
  /\ newest < NJobs /\ newest' = newest + 1
  /\ alive' = alive \cup {newest'}
  /\ Changing /\ UNCHANGED <<steady0, removed>>

JobDeleted(j) ==
  /\ removed < Removals /\ j \in alive
  /\ alive' = alive \ {j} /\ steady0' = steady0 \ {j}
  /\ removed' = removed + 1
  /\ Changing /\ UNCHANGED newest

NewestNext ==
  \/ \E p \in Parts : ReadPage(p) \/ ReadAll(p) \/ FailPart(p)
  \/ Merge \/ JobCreated \/ \E j \in Jobs : JobDeleted(j)

NewestSpec == NewestInit /\ [][NewestNext]_listVars
-----------------------------------------------------------------------------
\* A job that was there all along and is recent enough, but is not shown.
Unlisted ==
  {j \in steady0 \cap Wanted : Fresh(j) /\ \A i \in shown.items : i[3] # j}

\* job_list.go, ssp_catalog_service.go: the list is that of the newest jobs.  A
\* job is missing only if as many newer ones are shown as were asked for, or as
\* many jobs were deleted meanwhile.  What else may hide one: its part failed (the
\* catalog does not say so), the server gives no total of AIR jobs, a failed job
\* was updated long after it ended, a queue's limit was spent on other workspaces.
NewestAreListed ==
  shown.state = "listed" /\ ~shown.warned =>
    \/ FailedParts # {} /\ lister \in {"ListAIT", "ListAID"}
    \/ lister = "ListAIR" /\ ~counted
    \/ lister = "ListQueueWorkloads" /\ limit > 0
    \/ ByUpdate /\ (limit > 0 \/ since > 0)
    \/ \E slipped \in SUBSET Unlisted :
         /\ Cardinality(slipped) <= removed
         /\ \A j \in Unlisted \ slipped :
              /\ limit > 0 /\ Cardinality(shown.items) = limit
              /\ \A i \in shown.items : i[3] > j
=============================================================================
