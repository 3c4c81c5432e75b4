------------------------------ MODULE Readings ------------------------------
(***************************************************************************)
(* The readings a command decides from, each made of many requests, and    *)
(* each to be told from a partial one: where a job is (JobLocate, on the   *)
(* worker pool of BoundedMap), the VCs of a profile (VCInventory), the     *)
(* lists of the IAM (IAMPages), what several profiles are asked for        *)
(* (ProfileQueries), the lists of the newest jobs (NewestJobs), the        *)
(* workspaces that are searched for a workload (WorkloadGet), the usage of *)
(* a queue's nodes (QueueUsage), the lists of nodes (NodeLists), the       *)
(* metrics of a workload (MetricsQueries), what is shown of queues         *)
(* (QueueViews) and of users (UserViews).  A command makes one of them at  *)
(* a time, so a behaviour is one of them, and the others stand still.      *)
(***************************************************************************)
EXTENDS JobLocate, IAMPages, ProfileQueries, NewestJobs, WorkloadGet,
        QueueUsage, NodeLists, MetricsQueries, QueueViews, UserViews

VARIABLE reading

listing == <<inventoryVars, hints, numbered, scan, changes>>
others ==
  <<queryVars, listVars, getVars, usageVars, nodeVars, metricsVars, viewVars, userVars>>
allVars == <<lookupVars, listing, others, reading>>

\* Of the readings that are made of other variables, r alone goes on.
OnlyOthers(r) ==
  /\ UNCHANGED <<lookupVars, listing>>
  /\ IF r = "profiles" THEN TRUE ELSE UNCHANGED queryVars
  /\ IF r = "newest" THEN TRUE ELSE UNCHANGED listVars
  /\ IF r = "get" THEN TRUE ELSE UNCHANGED getVars
  /\ IF r = "usage" THEN TRUE ELSE UNCHANGED usageVars
  /\ IF r = "nodes" THEN TRUE ELSE UNCHANGED nodeVars
  /\ IF r = "metrics" THEN TRUE ELSE UNCHANGED metricsVars
  /\ IF r = "views" THEN TRUE ELSE UNCHANGED viewVars
  /\ IF r = "users" THEN TRUE ELSE UNCHANGED userVars

\* What stands still has one initial state.
NoLookup ==
  world = [pt |-> FALSE, by |-> "name", vcs |-> {}, jobs |-> {},
           pods |-> 0, hostJobs |-> 0]

NoListing == live = {} /\ cursor = FALSE /\ totals = FALSE

NoScan == hints = "none" /\ numbered = FALSE

NoQuery ==
  query = "ListNetwork" /\ elsewhere = {} /\ place = [p \in Profiles |-> 0]

NoNewest ==
  /\ lister = "ListUserJobs" /\ counted = TRUE /\ late = {}
  /\ owner = [j \in Jobs |-> 1]

NoGet == get = "pod" /\ home = [i \in Workloads |-> IF i = 1 THEN {} ELSE {1}]

NoUsage ==
  /\ request = [elastic |-> FALSE, uid |-> TRUE] /\ names = OneQueue
  /\ node = Bare /\ twin = "none"

NoNodes ==
  /\ view = [command |-> "list", target |-> "any"] /\ label = "uid"
  /\ sources = {}

NoMetrics == asking = "forward"

NoViews ==
  /\ viewing = "ws get"
  /\ held = [uids |-> TRUE, fate |-> "same", likely |-> FALSE, there |-> {},
             inventory |-> {}, read |-> FALSE]

NoUsers == looking = "logs" /\ people = {}

ReadingsInit ==
  /\ reading \in {"job", "vcs", "iam", "profiles", "newest", "get", "usage",
                "nodes", "metrics", "views", "users"}
  /\ IF reading = "job" THEN TRUE ELSE NoLookup
  /\ IF reading = "profiles" THEN TRUE ELSE NoQuery
  /\ IF reading = "newest" THEN TRUE ELSE NoNewest
  /\ IF reading = "get" THEN TRUE ELSE NoGet
  /\ IF reading = "usage" THEN TRUE ELSE NoUsage
  /\ IF reading = "nodes" THEN TRUE ELSE NoNodes
  /\ IF reading = "metrics" THEN TRUE ELSE NoMetrics
  /\ IF reading = "views" THEN TRUE ELSE NoViews
  /\ IF reading = "users" THEN TRUE ELSE NoUsers
  /\ IF reading = "iam" THEN TRUE ELSE NoScan
  /\ CASE reading = "vcs" -> TRUE
       [] reading = "iam" -> cursor = FALSE
       [] OTHER -> NoListing
  /\ LookupInit /\ QueryInit /\ NewestInit /\ GetInit /\ UsageInit
  /\ NodeInit /\ MetricsInit /\ ViewInit /\ UserInit
  /\ InventoryInit /\ ScanInit

ReadJob == reading = "job" /\ LookupNext /\ UNCHANGED <<listing, others>>

ReadVCs ==
  /\ reading = "vcs" /\ InventoryNext
  /\ UNCHANGED <<lookupVars, hints, numbered, scan, changes, others>>

ReadIAM == reading = "iam" /\ IAMNext /\ UNCHANGED <<lookupVars, others>>

ReadProfiles == reading = "profiles" /\ QueryNext /\ OnlyOthers("profiles")

ReadNewest == reading = "newest" /\ NewestNext /\ OnlyOthers("newest")

ReadGet == reading = "get" /\ GetNext /\ OnlyOthers("get")

ReadUsageOfQueue == reading = "usage" /\ UsageNext /\ OnlyOthers("usage")

ReadNodes == reading = "nodes" /\ NodeNext /\ OnlyOthers("nodes")

ReadMetrics == reading = "metrics" /\ MetricsNext /\ OnlyOthers("metrics")

ReadViews == reading = "views" /\ ViewNext /\ OnlyOthers("views")

ReadUsers == reading = "users" /\ UserNext /\ OnlyOthers("users")

ReadingsNext ==
  /\ ReadJob \/ ReadVCs \/ ReadIAM \/ ReadProfiles \/ ReadNewest \/ ReadGet
     \/ ReadUsageOfQueue \/ ReadNodes \/ ReadMetrics \/ ReadViews \/ ReadUsers
  /\ UNCHANGED reading

\* What goes on by itself: requests end, if only by their timeouts, and
\* goroutines run.  Elsewhere it is the servers that decide for how long.
Progress ==
  \/ /\ reading = "job" /\ UNCHANGED <<listing, others>>
     /\ \/ LookupStep
        \/ \E s \in {"pods", "jobs"} : UIDAnswer(s)
        \/ Inventory /\ Listing
        \/ \E w \in Workers : InventoryWorker(w) /\ Listing
  \/ /\ reading = "get" /\ OnlyOthers("get")
     /\ \E i \in Queried : GetStep(i)

ReadingsSpec == ReadingsInit /\ [][ReadingsNext]_allVars

\* What the run leaves out, because it makes no difference: profiles that are asked
\* all at once in another order, and what there is in those that are not asked.
AtOnceQueries == Queries \ (InTurn \cup CurrentFirst \cup {"FindExactVC"})

Alike ==
  /\ \A p \in elsewhere : place[p] = IF reading = "profiles" THEN 1 ELSE 0
  /\ query \in AtOnceQueries =>
       \A p, q \in Profiles \ elsewhere : p <= q => place[p] <= place[q]

InitAlike == ReadingsInit /\ Alike

ReadingsAlike == InitAlike /\ [][ReadingsNext]_allVars
-----------------------------------------------------------------------------
\* ate get ends, whatever fails and whenever; and so does every lookup of an ait
\* get, also one that waits for the inventory that another one loads.  No step of
\* Progress can be taken twice, so a lookup that is never stuck ends.
NoLookupIsStuck ==
  \/ CASE reading = "job" -> stage = "end"
       [] reading = "get" -> GetsEnd
       [] OTHER -> TRUE
  \/ ENABLED Progress

\* No list is taken for whole that is not: "inventory completeness controls local
\* cleanup" (NothingMissing and CountedOnce of VCInventory), "persistent drift is
\* an error" (NoEntryIsMissing of IAMPages), and what ListIsWhole,
\* NewestAreListed and SamplesAreWhole say of the lists of several profiles, of
\* jobs, and of the samples of a metric.
ListsAreWhole ==
  CASE reading = "vcs" -> NothingMissing /\ CountedOnce
    [] reading = "iam" -> NoEntryIsMissing
    [] reading = "profiles" -> ListIsWhole
    [] reading = "newest" -> NewestAreListed
    [] reading = "metrics" -> SamplesAreWhole
    [] OTHER -> TRUE

\* What several profiles, or the workspaces of several regions, are asked for is
\* found, missing, guessed or refused only on the answers that allow it: see
\* QueryIsTrue of ProfileQueries and GetIsTrue of WorkloadGet.  Metrics are those
\* of the workload: see MetricsAreTrue.  What is shown of users and groups is
\* theirs, and whole: see UsersAreTrue of UserViews.
QueriesAreTrue ==
  CASE reading = "profiles" -> QueryIsTrue
    [] reading = "get" -> GetIsTrue
    [] reading = "metrics" -> MetricsAreTrue
    [] reading = "users" -> UsersAreTrue
    [] OTHER -> TRUE

\* A queue's nodes are those of nobody else, none of its own is hidden, and it is
\* reported missing only if every place has been read: see QueueUsage.  What a
\* node is used for, its queues and its pods are its own: see NodeLists.  A queue
\* that is shown is shown with its own workspace and VC: see QueueViews.
UsageIsTrue ==
  CASE reading = "usage" -> NobodyElses /\ NoneOfOursIsHidden /\ QueueIsMissing
    [] reading = "nodes" -> UsageIsItsOwn /\ QueuesAreItsOwn /\ PodsAreThere
    [] reading = "views" -> ViewsAreTrue
    [] OTHER -> TRUE
=============================================================================
