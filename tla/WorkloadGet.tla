----------------------------- MODULE WorkloadGet -----------------------------
(***************************************************************************)
(* ait get, aid get, air get and pod get (internal/service: ssp_job_       *)
(* service.go, ssp_aid_service.go, ssp_air_service.go, pod_locate_service. *)
(* go, hc_environment.go): a workload is looked for in every workspace of  *)
(* every region that the inventory lists, or in the one that was named.    *)
(* The workloads of an ait get share one inventory of a region, which the  *)
(* first of them loads, and each has a timeout of its own.                 *)
(*                                                                         *)
(* Workspaces 1 and 2 are in region 1, and 3 is in region 2.  Workspace 0  *)
(* of region 1 is not in the inventory.  A pod has no workspace: 1 and 3   *)
(* stand for it in one and the other environment.                          *)
(***************************************************************************)
EXTENDS Naturals, FiniteSets

CONSTANT NWorkloads

ASSUME NWorkloadsAssumption == NWorkloads \in Nat \ {0}

Regions == {1, 2}
Listed0 == 1 .. 3
RegionOf(w) == IF w = 3 THEN 2 ELSE 1

VARIABLES
  get,      \* the command
  named,    \* --workspace: none, 1 or 0
  home,     \* of each workload: where it is
  regions,  \* where it is looked for; {} until that is known
  load,     \* of each inventory: what was read, and by whom
  reply,    \* of each workload and region: what was found, and whether all was asked
  expired,  \* workloads whose time is over
  answer    \* of each workload

getVars == <<get, named, home, regions, load, reply, expired, answer>>

Gets0 == {"ait", "aid", "air", "gateway", "pod"}
Workloads == 1 .. NWorkloads

\* Only the workloads of an ait get have anything to do with each other.
Queried == IF get = "ait" THEN Workloads ELSE {1}

Unread == [state |-> "none", by |-> 0, seen |-> {}, whole |-> FALSE]
NoReply == [state |-> "open", got |-> {}, whole |-> FALSE]

GetInit ==
  /\ get \in Gets0
  /\ named \in {"none", "listed", "unlisted"}
  /\ get = "pod" => named = "none"
  /\ home \in [Workloads -> {S \in SUBSET (0 .. 3) : Cardinality(S) <= 2}]
  /\ \A i \in Workloads : i > 1 => home[i] = {1}
  /\ \A i \in Workloads :
       CASE named = "none" -> 0 \notin home[i]
         [] named = "listed" -> home[i] \subseteq {1}
         [] named = "unlisted" -> i = 1 => home[i] \subseteq {0}
  /\ get = "pod" => 2 \notin home[1]
  /\ regions = [i \in Workloads |-> {}]
  /\ load = [r \in Regions |-> Unread]
  /\ reply = [i \in Workloads |-> [r \in Regions |-> NoReply]]
  /\ expired = {}
  /\ answer = [i \in Workloads |-> "open"]
-----------------------------------------------------------------------------
(***************************************************************************)
(* Where to look: the region that -e says, the region of a pod that has    *)
(* the name, or every region.                                              *)
(***************************************************************************)
ResolveRegions(i) ==
  /\ answer[i] = "open" /\ regions[i] = {}
  /\ \E R \in {{1}, Regions} \cup
              (IF get = "ait" THEN {{RegionOf(w)} : w \in home[i]} ELSE {}) :
       /\ i > 1 => R = {1}    \* bound
       /\ regions' = [regions EXCEPT ![i] = R]
  /\ UNCHANGED <<get, named, home, load, reply, expired, answer>>

\* A pod of that name belongs to a workload of the other kind.
DetectOther(i) ==
  /\ get = "ait" /\ answer[i] = "open" /\ regions[i] = {}
  /\ answer' = [answer EXCEPT ![i] = "error"]
  /\ UNCHANGED <<get, named, home, regions, load, reply, expired>>

\* aid get and pod get ask one environment after the other.
InOrder(i, r) ==
  /\ answer[i] = "open" /\ r \in regions[i] /\ reply[i][r].state = "open"
  /\ get \in {"aid", "pod"} => \A q \in regions[i] : q < r => reply[i][q].state # "open"

\* listPlatformWorkspaces: the first one loads it.
BeginLoad(i, r) ==
  /\ get # "pod" /\ InOrder(i, r) /\ load[r].state = "none"
  /\ load' = [load EXCEPT ![r] = [state |-> "loading", by |-> i, seen |-> {}, whole |-> FALSE]]
  /\ UNCHANGED <<get, named, home, regions, reply, expired, answer>>

\* ListSSPWorkspacesWithStatus: profiles fail, pages fail, tokens are repeated.
EndLoad(r) ==
  LET there == {w \in Listed0 : RegionOf(w) = r} IN
  /\ load[r].state = "loading"
  /\ \E seen \in SUBSET there, whole \in BOOLEAN :
       /\ whole => seen = there /\ load[r].by \notin expired
       /\ load' = [load EXCEPT ![r] =
            [state |-> "done", by |-> load[r].by, seen |-> seen, whole |-> whole]]
  /\ UNCHANGED <<get, named, home, regions, reply, expired, answer>>

Reply(i, r, got, whole) ==
  /\ reply' = [reply EXCEPT ![i][r] =
       [state |-> "done", got |-> got, whole |-> whole /\ i \notin expired]]
  /\ UNCHANGED <<get, named, home, regions, load, expired, answer>>

\* platformWorkspaceCandidates: a named workspace is asked for, listed or not.
Candidates(r) ==
  CASE named = "none" -> load[r].seen
    [] named = "listed" -> {1}
    [] named = "unlisted" -> {0}

\* findPlatformJobs, findPlatformAIDs: each workspace answers or fails.
Ask(i, r) ==
  LET here == {w \in home[i] \cap Candidates(r) : RegionOf(w) = r} IN
  /\ get \in {"ait", "aid"} /\ InOrder(i, r) /\ load[r].state = "done"
  /\ \E failed \in SUBSET here, other \in BOOLEAN :
       Reply(i, r, here \ failed, load[r].whole /\ failed = {} /\ ~other)

\* Somebody else is loading it; or the pods, or the subscription, cannot be read.
GiveUp(i, r) ==
  /\ get \in {"ait", "aid"} /\ InOrder(i, r)
  /\ \/ load[r].state = "loading" /\ load[r].by # i /\ i \in expired
     \/ load[r].state = "done"
  /\ Reply(i, r, {}, FALSE)

\* resolveWorkspaces: all inventories are read first, and if any workspace was,
\* what could not be read is forgotten.
AirCandidates ==
  {w \in UNION {load[r].seen : r \in regions[1]} : named = "none" \/ w = 1}

AskAIR(r) ==
  LET here == {w \in home[1] \cap AirCandidates : RegionOf(w) = r} IN
  /\ get \in {"air", "gateway"} /\ InOrder(1, r)
  /\ \A q \in regions[1] : load[q].state = "done"
  /\ AirCandidates # {} /\ named # "unlisted"
  /\ \E failed \in SUBSET here, other \in BOOLEAN :
       Reply(1, r, here \ failed, failed = {} /\ ~other)

\* The pods of an environment, page by page.
AskPods(r) ==
  LET here == {w \in home[1] : RegionOf(w) = r} IN
  /\ get = "pod" /\ InOrder(1, r)
  /\ Reply(1, r, here, TRUE) \/ Reply(1, r, {}, FALSE)
-----------------------------------------------------------------------------
Got(i) == UNION {reply[i][r].got : r \in regions[i]}
WholeReply(i) == \A r \in regions[i] : reply[i][r].whole

Pick(got, whole) ==
  CASE got = {} /\ whole -> {"missing"}
    [] got = {} /\ ~whole -> {"incomplete"}
    [] Cardinality(got) > 1 -> {"ambiguous"}
    [] Cardinality(got) = 1 -> {IF whole THEN "found" ELSE "partial", "error"}

\* getJob: the details, too, may fail.
AITAnswers(i) == IF i \in expired THEN {"error"} ELSE Pick(Got(i), WholeReply(i))

\* GetAIDInRegion and PodLocateService.Get, in one environment.
InRegion(r) == Pick(reply[1][r].got, reply[1][r].whole)

\* QueryHCEnvironments: an error is not a missing one, nor is an ambiguity.
Merge0(said) ==
  LET matches == {r \in regions[1] : said[r] \in {"found", "partial"}}
      failures == {r \in regions[1] : said[r] \notin {"found", "missing"}}
  IN CASE Cardinality(matches) > 1 -> "ambiguous"
       [] Cardinality(matches) = 1 -> IF failures = {} THEN "found" ELSE "partial"
       [] matches = {} -> IF failures = {} THEN "missing" ELSE "incomplete"

EnvironmentAnswers ==
  IF expired # {} THEN {"error"}
  ELSE {Merge0(said) : said \in
          {f \in [regions[1] -> UNION {InRegion(r) : r \in regions[1]}] :
             \A r \in regions[1] : f[r] \in InRegion(r)}}

\* GetJobs, GetGateways: one match is enough.
AIRAnswers ==
  IF AirCandidates = {} \/ named = "unlisted" THEN {"error"}
  ELSE Pick(Got(1), Got(1) # {} \/ WholeReply(1))

Answered(i) ==
  /\ regions[i] # {}
  /\ \/ \A r \in regions[i] : reply[i][r].state = "done"
     \/ /\ get \in {"air", "gateway"}
        /\ \A r \in regions[i] : load[r].state = "done"
        /\ AirCandidates = {} \/ named = "unlisted"

AnswerGet(i) ==
  /\ answer[i] = "open" /\ Answered(i)
  /\ \E a \in (CASE get = "ait" -> AITAnswers(i)
                 [] get \in {"aid", "pod"} -> EnvironmentAnswers
                 [] get \in {"air", "gateway"} -> AIRAnswers) :
       answer' = [answer EXCEPT ![i] = a]
  /\ UNCHANGED <<get, named, home, regions, load, reply, expired>>

\* --timeout, of one workload; elsewhere the command's context.
Expire(i) ==
  /\ answer[i] = "open" /\ i \notin expired
  /\ expired' = expired \cup {i}
  /\ UNCHANGED <<get, named, home, regions, load, reply, answer>>

GetStep(i) ==
  \/ ResolveRegions(i) \/ DetectOther(i) \/ AnswerGet(i)
  \/ \E r \in Regions :
       \/ BeginLoad(i, r) \/ Ask(i, r) \/ GiveUp(i, r)
       \/ i = 1 /\ (AskAIR(r) \/ AskPods(r))
       \/ load[r].by = i /\ EndLoad(r)

GetNext == \E i \in Queried : GetStep(i) \/ Expire(i)

GetSpec == GetInit /\ [][GetNext]_getVars
-----------------------------------------------------------------------------
\* Where a workload is, of the places that were asked for.
InScope(i) ==
  {w \in home[i] :
     /\ RegionOf(w) \in regions[i]
     /\ w \in (CASE named = "none" -> Listed0
                [] named = "listed" -> {1}
                [] named = "unlisted" -> {0})}

\* air get forgets that an inventory was incomplete.
Forgotten ==
  get \in {"air", "gateway"} /\ \E r \in regions[1] : ~load[r].whole

\* ssp_aid_environment_test.go, pod_test.go: "a complete empty search is distinct
\* from an unreadable or cancelled scope".  Whoever loaded the inventory, and
\* whatever of it failed, a workload is reported missing only if every workspace
\* of every region in question has been asked and does not have it.
MissingIsTrue ==
  \A i \in Queried : answer[i] = "missing" => InScope(i) = {} \/ Forgotten

\* A workload that is shown without a warning is the only one of its name.
FoundIsUnique ==
  \A i \in Queried :
    answer[i] = "found" =>
      Cardinality(InScope(i)) = 1 \/ get \in {"air", "gateway"}

GetIsTrue == MissingIsTrue /\ FoundIsUnique

GetsEnd == \A i \in Queried : answer[i] # "open"
=============================================================================
