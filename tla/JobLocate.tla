------------------------------ MODULE JobLocate ------------------------------
(***************************************************************************)
(* ate get (internal/service: job_locate.go, job_get.go, job_availability. *)
(* go): where is the job of this name, and is it certain that there is     *)
(* none?  The VCs of the current profile are asked first, then those of    *)
(* the environment's other profiles, which concurrent.Map lists (Inputs    *)
(* are the profiles, 1 is the current one), then the pods and the jobs of  *)
(* the current cluster.  A UID is looked for in the cluster only.          *)
(*                                                                         *)
(* Nothing is created or deleted meanwhile; every request may fail, and    *)
(* the command's deadline may pass at any time.                            *)
(***************************************************************************)
EXTENDS BoundedMap

VARIABLES
  world,    \* the VCs there are (one per profile, or none), those with such a job,
            \* the pod groups and jobs of the cluster that match, and the question
  stage,
  skips,    \* the VCs of the current profile have been listed and asked
  failed,   \* something failed that is not a jobNotFoundError
  dead,     \* observer: the VCs that answered nothing but 404
  waiting,  \* goroutines of a UID lookup that have not answered
  located,  \* what locateJobForPlatform returned
  outcome   \* what getJob returned

pool == <<index, closed, holding, gone, results, returned, calls>>
search == <<skips, failed, dead, waiting>>
lookupVars == <<vars, world, stage, search, located, outcome>>

\* What one VC's probe sends: two references are tried until one is answered.
Answers == {a \in SUBSET {"ok", "404", "error"} : Cardinality(a) \in {1, 2}}

Worlds ==
  {w \in [pt : BOOLEAN, by : {"name", "pod", "uid"}, vcs : SUBSET Inputs,
          jobs : SUBSET Inputs, pods : 0 .. 2, hostJobs : 0 .. 2] :
     /\ w.jobs \subseteq w.vcs
     /\ w.pods + w.hostJobs <= (IF w.jobs = {} THEN 2 ELSE 1)   \* bound
     /\ w.by # "name" => w.vcs = {} /\ ~w.pt}   \* the VCs are not asked

LookupInit ==
  /\ Init
  /\ world \in Worlds
  /\ stage = (CASE world.by = "uid" -> "uid"
                [] world.by = "pod" -> "pods"
                [] world.by = "name" -> IF world.pt THEN "inventory" ELSE "current")
  /\ skips = FALSE /\ failed = FALSE
  /\ dead = {}
  /\ waiting = {"pods", "jobs"}
  /\ located = "none" /\ outcome = "none"

\* jobLookupFailure: it is missing if that is all that was said.
Failure(f) == IF f THEN "incomplete" ELSE "missing"

\* The result of locateJobForPlatform, and what getJob makes of it.
Locate(o) ==
  /\ located' = o
  /\ stage' = (CASE o = "found" -> "fetch" [] o = "error" -> "fallback"
                 [] OTHER -> "end")
  /\ outcome' = IF o \in {"found", "error"} THEN outcome ELSE o

-----------------------------------------------------------------------------
(***************************************************************************)
(* findPlatformJobIdentityInClusters: all VCs of S answer, or the scan's   *)
(* own deadline passes.                                                    *)
(***************************************************************************)
Probed(S, a, late) ==
  LET matches == {v \in S \cap world.jobs : "ok" \in a[v]}
      said == UNION {a[v] : v \in S}
  IN CASE Cardinality(matches) = 1 -> "found"
       [] Cardinality(matches) > 1 -> "ambiguous"
       [] matches = {} /\ said = {"404"} /\ ~late -> "unavailable"
       [] matches = {} /\ said # {"404"} /\ ~late -> Failure(said \ {"ok"} # {})
       [] matches = {} /\ late -> "incomplete"

\* The probes of S end; Then says what follows from their outcome.
Probe(S, Then(_)) ==
  \E a \in [S -> Answers], late \in IF cancelled THEN {TRUE} ELSE BOOLEAN :
    /\ dead' = dead \cup {v \in S : a[v] = {"404"}}
    /\ Then(Probed(S, a, late))

AfterCurrent(o) ==
  IF o \in {"found", "ambiguous"}
  THEN Locate(o) /\ UNCHANGED failed
  ELSE /\ stage' = "inventory"
       /\ failed' = (o # "missing")
       /\ UNCHANGED <<located, outcome>>

Current ==
  /\ stage = "current"
  /\ \/ Probe(world.vcs \cap {1}, AfterCurrent) /\ skips' = TRUE
     \/ \* it cannot be listed: the inventory lists it again
        /\ stage' = "inventory"
        /\ UNCHANGED <<skips, failed, dead, located, outcome>>
  /\ UNCHANGED <<vars, world, waiting>>

\* ListLookupVirtualClusters, and what its results say.
Inventory == stage = "inventory" /\ (Close \/ Return)
InventoryWorker(w) == stage = "inventory" /\ Worker(w)

ErrorsForgotten == FALSE    \* mutant: what could be listed is all there is
InventoryErr == \E p \in Inputs : results[p] = "error"

Listed == {p \in world.vcs : results[p] = "value" /\ ~(skips /\ p = 1)}

\* findPTPlatformJobIdentity: only a complete inventory vouches for the marker.
Unavailable(o) == world.pt /\ o = "unavailable" /\ ~InventoryErr /\ ~cancelled

AfterOthers(o) ==
  IF o \in {"found", "ambiguous"} \/ Unavailable(o)
  THEN Locate(o) /\ UNCHANGED failed
  ELSE /\ stage' = "pods"
       /\ failed' = (failed \/ InventoryErr \/ o # "missing")
       /\ UNCHANGED <<located, outcome>>

Others ==
  /\ stage = "inventory" /\ returned
  /\ Probe(Listed, AfterOthers)
  /\ UNCHANGED <<vars, world, skips, waiting>>

-----------------------------------------------------------------------------
(***************************************************************************)
(* The current cluster.  Metadata is read page by page; a page that fails  *)
(* or repeats its cursor is an error.  Several groups of pods may be told  *)
(* apart, or the first pod with the job's label be taken.                  *)
(***************************************************************************)
HostPods ==
  /\ stage = "pods"
  /\ \/ world.pods > 0 /\ Locate("found") /\ UNCHANGED failed
     \/ world.pods > 1 /\ Locate("ambiguous") /\ UNCHANGED failed
     \/ /\ stage' = "jobs"
        /\ failed' \in {TRUE} \cup (IF world.pods = 0 THEN {failed} ELSE {})
        /\ UNCHANGED <<located, outcome>>
  /\ UNCHANGED <<vars, world, skips, dead, waiting>>

\* A job whose VC is not known is an error, and not a failed lookup.
HostJobs ==
  /\ stage = "jobs"
  /\ \/ Locate("incomplete")
     \/ world.hostJobs = 0 /\ Locate(Failure(failed))
     \/ world.hostJobs = 1 /\ \E o \in {"found", "error"} : Locate(o)
     \/ world.hostJobs > 1 /\ Locate("ambiguous")
  /\ UNCHANGED <<vars, world, search>>

\* locateJobByUID: two goroutines, and the first that finds it wins.
UIDAnswer(s) ==
  LET there == IF s = "pods" THEN world.pods > 0 ELSE world.hostJobs > 0 IN
  /\ stage = "uid" /\ s \in waiting
  /\ waiting' = waiting \ {s}
  /\ \/ there /\ (\E o \in {"found", "error"} : Locate(o)) /\ UNCHANGED failed
     \/ /\ failed' \in {TRUE} \cup (IF there THEN {} ELSE {failed})
        /\ IF waiting' = {} THEN Locate(Failure(failed'))
           ELSE UNCHANGED <<stage, located, outcome>>
  /\ UNCHANGED <<vars, world, skips, dead>>

-----------------------------------------------------------------------------
(***************************************************************************)
(* getJob: the job that was located is read, with its pods.  If that fails *)
(* in a way that is not a lookup's, the current cluster is searched.       *)
(***************************************************************************)
Fetch ==
  /\ stage = "fetch"
  /\ \/ stage' = "end" /\ outcome' = "got"
     \/ stage' = "fallback" /\ UNCHANGED outcome
  /\ UNCHANGED <<vars, world, search, located>>

\* resolveJobFromPods, after findJob has failed with this error or found nothing.
FromPods(f) ==
  {"incomplete"}
  \cup (CASE world.pods = 0 -> {Failure(f \/ cancelled)}
          [] world.pods = 1 -> {"got", "error"}
          [] world.pods > 1 -> {"ambiguous"})

Fallback ==
  /\ stage = "fallback" /\ stage' = "end"
  /\ \/ world.hostJobs = 1 /\ outcome' \in {"got", "error"}
     \/ world.hostJobs > 1 /\ outcome' = "ambiguous"
     \/ \E f \in BOOLEAN :
          /\ ~f => world.hostJobs = 0
          /\ outcome' \in FromPods(f)
  /\ UNCHANGED <<vars, world, search, located>>

\* The command's deadline, or Ctrl-C.
EndContext ==
  /\ stage # "end" /\ ~cancelled
  /\ cancelled' = TRUE
  /\ UNCHANGED <<pool, world, stage, search, located, outcome>>

LookupStep == Current \/ Others \/ HostPods \/ HostJobs \/ Fetch \/ Fallback

\* The pool's steps change nothing else.
Listing == UNCHANGED <<world, stage, search, located, outcome>>

LookupNext ==
  \/ LookupStep \/ EndContext
  \/ \E s \in {"pods", "jobs"} : UIDAnswer(s)
  \/ Inventory /\ Listing
  \/ \E w \in Workers : InventoryWorker(w) /\ Listing

LookupSpec == LookupInit /\ [][LookupNext]_lookupVars
-----------------------------------------------------------------------------
\* There is no such job anywhere this question is asked.
Nowhere ==
  /\ world.pods = 0 /\ world.hostJobs = 0
  /\ world.by = "name" => world.jobs = {}

\* job_lookup_test.go: lookup errors cannot become not-found.  Whatever fails,
\* in whatever place, locateJobForPlatform says that a job does not exist only
\* if every place has been searched and none has it.
\* And the marker of an unavailable service "is set only when every probed VC Job
\* endpoint returned 404": nor is there a VC that was not asked because its profile
\* could not be listed.
LookupIsTrue ==
  /\ located = "missing" => Nowhere
  /\ located = "unavailable" =>
       world.pt /\ world.vcs # {} /\ world.vcs \subseteq dead

\* The same of getJob: "only a complete query that is empty" is reported as a job
\* that does not exist.
GetNotFoundIsTrue == outcome = "missing" => Nowhere
=============================================================================
