---------------------------- MODULE Readings_proofs ----------------------------
(***************************************************************************)
(* Theorems about the readings of module Readings, for any profiles, VCs,  *)
(* pages and failures.  Each reading is shown to be its own specification  *)
(* first, and then proved about alone.                                     *)
(***************************************************************************)
EXTENDS Readings, Lists_proofs

-----------------------------------------------------------------------------
(***************************************************************************)
(* ate get: what is known at each stage, as long as nothing has failed.    *)
(***************************************************************************)
LookupTypes ==
  /\ world \in Worlds
  /\ skips \in BOOLEAN /\ failed \in BOOLEAN
  /\ waiting \subseteq {"pods", "jobs"}

AskedFirst ==
  /\ stage = "current" => world.by = "name" /\ ~world.pt /\ ~skips
  /\ world.pt => ~skips
  /\ stage = "uid" => world.by = "uid"

NothingSoFar ==
  /\ stage = "inventory" /\ skips => 1 \notin world.jobs
  /\ stage \in {"pods", "jobs"} => world.jobs = {}
  /\ stage = "jobs" => world.pods = 0
  /\ stage = "uid" /\ "pods" \notin waiting => world.pods = 0
  /\ stage = "uid" /\ "jobs" \notin waiting => world.hostJobs = 0

LookupInv ==
  /\ MapInv
  /\ LookupTypes /\ AskedFirst
  /\ ~failed => NothingSoFar
  /\ LookupIsTrue

\* What the answers of the VCs say: nothing is found nor vouched for that they deny.
LEMMA ProbedIs ==
  ASSUME NEW S \in SUBSET Inputs, NEW a \in [S -> Answers], NEW timedOut \in BOOLEAN
  PROVE  /\ Probed(S, a, timedOut) = "missing" => S \cap world.jobs = {}
         /\ Probed(S, a, timedOut) = "unavailable" =>
              S # {} /\ ~timedOut /\ \A v \in S : a[v] = {"404"}
<1> DEFINE matches == {v \in S \cap world.jobs : "ok" \in a[v]}
           replies == UNION {a[v] : v \in S}
<1>1. IsFiniteSet(matches)
  <2>1. IsFiniteSet(Inputs)
    BY LengthAssumption, FS_Interval DEF Inputs
  <2>2. matches \subseteq Inputs
    OBVIOUS
  <2>3. QED
    BY <2>1, <2>2, FS_Subset
<1>2. Cardinality(matches) \in Nat /\ (Cardinality(matches) = 0 <=> matches = {})
  BY <1>1, FS_CardinalityType, FS_EmptySet
<1>3. ASSUME NEW v \in S
      PROVE  a[v] # {} /\ a[v] \subseteq replies
  <2>1. a[v] \in Answers
    OBVIOUS
  <2>2. Cardinality(a[v]) \in {1, 2}
    BY <2>1 DEF Answers
  <2>3. QED
    BY <2>2, FS_EmptySet
<1>4. Probed(S, a, timedOut) =
        CASE Cardinality(matches) = 1 -> "found"
          [] Cardinality(matches) > 1 -> "ambiguous"
          [] matches = {} /\ replies = {"404"} /\ ~timedOut -> "unavailable"
          [] matches = {} /\ replies # {"404"} /\ ~timedOut -> Failure(replies \ {"ok"} # {})
          [] matches = {} /\ timedOut -> "incomplete"
  BY DEF Probed
<1>5. matches = {} => \A v \in S \cap world.jobs : "ok" \notin a[v]
  OBVIOUS
<1> HIDE DEF matches, replies
<1>6. CASE matches # {}
  <2>1. Cardinality(matches) = 1 \/ Cardinality(matches) > 1
    BY <1>2, <1>6
  <2>2. CASE Cardinality(matches) = 1
    BY <1>4, <1>6, <2>2
  <2>3. CASE Cardinality(matches) > 1
    <3>1. Cardinality(matches) # 1
      BY <1>2, <2>3
    <3>2. QED
      BY <1>4, <1>6, <2>3, <3>1
  <2>4. QED
    BY <2>1, <2>2, <2>3
<1>7. CASE matches = {}
  <2>1. Cardinality(matches) # 1 /\ ~(Cardinality(matches) > 1)
    BY <1>2, <1>7
  <2>2. CASE replies = {"404"} /\ ~timedOut
    <3>1. Probed(S, a, timedOut) = "unavailable"
      BY <1>4, <1>7, <2>1, <2>2
    <3>2. \A v \in S : a[v] = {"404"}
      BY <1>3, <2>2
    <3>3. S # {}
      BY <2>2 DEF replies
    <3>4. QED
      BY <2>2, <3>1, <3>2, <3>3
  <2>3. CASE replies # {"404"} /\ ~timedOut
    <3>1. Probed(S, a, timedOut) = Failure(replies \ {"ok"} # {})
      BY <1>4, <1>7, <2>1, <2>3
    <3>2. Probed(S, a, timedOut) # "unavailable"
      BY <3>1 DEF Failure
    <3>3. ASSUME replies \ {"ok"} = {}
          PROVE  S \cap world.jobs = {}
      BY <1>3, <1>5, <1>7, <3>3
    <3>4. QED
      BY <3>1, <3>2, <3>3 DEF Failure
  <2>4. CASE timedOut
    BY <1>4, <1>7, <2>1, <2>4
  <2>5. QED
    BY <2>2, <2>3, <2>4
<1>8. QED
  BY <1>6, <1>7

LEMMA LocateEffect ==
  ASSUME NEW o, Locate(o)
  PROVE  located' = o /\ stage' \in {"fetch", "fallback", "end"}
BY DEF Locate

\* Nothing but the answer is left to be shown once the job has been located.
LEMMA OnceLocated ==
  ASSUME LookupInv, MapInv', LookupTypes', UNCHANGED world, world.pt => ~skips',
         stage' \in {"fetch", "fallback", "end"}, LookupIsTrue'
  PROVE  LookupInv'
BY DEF LookupInv, AskedFirst, NothingSoFar

LEMMA WorldIs ==
  ASSUME world \in Worlds
  PROVE  /\ world.pt \in BOOLEAN /\ world.by \in {"name", "pod", "uid"}
         /\ world.vcs \subseteq Inputs /\ world.jobs \subseteq world.vcs
         /\ world.pods \in 0 .. 2 /\ world.hostJobs \in 0 .. 2
         /\ world.by # "name" => world.jobs = {} /\ ~world.pt
BY DEF Worlds

LEMMA InitLookup == LookupInit => LookupInv
<1> SUFFICES ASSUME LookupInit PROVE LookupInv
  OBVIOUS
<1>1. MapInv
  BY InitMap DEF LookupInit
<1>2. /\ world \in Worlds /\ skips = FALSE /\ failed = FALSE /\ waiting = {"pods", "jobs"}
      /\ located = "none"
  BY DEF LookupInit
<1>3. /\ world.by = "uid" => stage = "uid"
      /\ world.by = "pod" => stage = "pods"
      /\ world.by = "name" => stage = IF world.pt THEN "inventory" ELSE "current"
  BY DEF LookupInit
<1>4. AskedFirst /\ NothingSoFar
  BY <1>2, <1>3, WorldIs DEF AskedFirst, NothingSoFar
<1>5. LookupTypes /\ LookupIsTrue
  BY <1>2 DEF LookupTypes, LookupIsTrue
<1>6. QED
  BY <1>1, <1>4, <1>5 DEF LookupInv

LEMMA CurrentNext == LookupInv /\ Current => LookupInv'
<1> SUFFICES ASSUME LookupInv, Current PROVE LookupInv'
  OBVIOUS
<1>1. MapInv'
  BY NextMap DEF LookupInv, Current
<1>2. /\ stage = "current" /\ world.by = "name" /\ ~world.pt /\ ~skips
      /\ world \in Worlds /\ LookupTypes /\ LookupIsTrue
      /\ UNCHANGED <<world, waiting>>
  BY DEF Current, LookupInv, AskedFirst, LookupTypes
<1>3. CASE stage' = "inventory" /\ UNCHANGED <<skips, failed, dead, located, outcome>>
  <2>1. LookupTypes' /\ AskedFirst' /\ NothingSoFar'
    BY <1>2, <1>3 DEF LookupTypes, AskedFirst, NothingSoFar
  <2>2. LookupIsTrue'
    BY <1>2, <1>3 DEF LookupIsTrue, Nowhere
  <2>3. QED
    BY <1>1, <2>1, <2>2 DEF LookupInv
<1>4. ASSUME NEW a \in [world.vcs \cap {1} -> Answers], NEW timedOut \in BOOLEAN,
             dead' = dead \cup {v \in world.vcs \cap {1} : a[v] = {"404"}},
             AfterCurrent(Probed(world.vcs \cap {1}, a, timedOut)), skips' = TRUE
      PROVE  LookupInv'
  <2> DEFINE o == Probed(world.vcs \cap {1}, a, timedOut)
  <2>1. world.vcs \cap {1} \in SUBSET Inputs
    BY <1>2, WorldIs
  <2>2. o = "missing" => 1 \notin world.jobs
    BY <1>2, <2>1, ProbedIs, WorldIs
  <2> HIDE DEF o
  <2>3. CASE o \in {"found", "ambiguous"}
    <3>1. Locate(o) /\ UNCHANGED failed
      BY <1>4, <2>3 DEF AfterCurrent, o
    <3>2. LookupTypes' /\ LookupIsTrue'
      BY <1>2, <1>4, <2>3, <3>1, LocateEffect DEF LookupTypes, LookupIsTrue
    <3>3. QED
      BY <1>1, <1>2, <3>1, <3>2, LocateEffect, OnceLocated
  <2>4. CASE o \notin {"found", "ambiguous"}
    <3>1. stage' = "inventory" /\ failed' = (o # "missing") /\ UNCHANGED located
      BY <1>4, <2>4 DEF AfterCurrent, o
    <3>2. LookupTypes' /\ AskedFirst' /\ (~failed' => NothingSoFar')
      BY <1>2, <1>4, <2>2, <3>1 DEF LookupTypes, AskedFirst, NothingSoFar
    <3>3. LookupIsTrue'
      BY <1>2, <1>4, <3>1 DEF LookupIsTrue, Nowhere
    <3>4. QED
      BY <1>1, <3>2, <3>3 DEF LookupInv
  <2>5. QED
    BY <2>3, <2>4
<1>5. QED
  BY <1>3, <1>4 DEF Current, Probe

LEMMA OthersNext == LookupInv /\ Others => LookupInv'
<1> SUFFICES ASSUME LookupInv, Others PROVE LookupInv'
  OBVIOUS
<1>1. MapInv'
  BY NextMap DEF LookupInv, Others
<1>2. /\ stage = "inventory" /\ returned /\ world \in Worlds /\ LookupTypes /\ LookupIsTrue
      /\ world.pt => ~skips
      /\ ~failed /\ skips => 1 \notin world.jobs
      /\ UNCHANGED <<world, skips, waiting>>
  BY DEF Others, LookupInv, AskedFirst, LookupTypes, NothingSoFar
<1>3. Listed \in SUBSET Inputs
  BY <1>2, WorldIs DEF Listed
<1>4. ASSUME ~InventoryErr, NEW v \in world.vcs
      PROVE  v \in Listed \/ (skips /\ v = 1)
  <2>1. v \in Inputs
    BY <1>2, WorldIs
  <2>2. results[v] # "unset"
    BY <1>2, <2>1, MapReturns DEF LookupInv, EveryPositionHasItsResult
  <2>3. results[v] \in Outcomes \cup {"unset"}
    BY <2>1 DEF LookupInv, MapInv, TypeOK
  <2>4. results[v] = "value"
    BY <1>4, <2>1, <2>2, <2>3 DEF InventoryErr, Outcomes
  <2>5. QED
    BY <2>4 DEF Listed
<1>5. PICK a \in [Listed -> Answers], timedOut \in IF cancelled THEN {TRUE} ELSE BOOLEAN :
        /\ dead' = dead \cup {v \in Listed : a[v] = {"404"}}
        /\ AfterOthers(Probed(Listed, a, timedOut))
  BY DEF Others, Probe
<1>6. timedOut \in BOOLEAN
  OBVIOUS
<1> DEFINE o == Probed(Listed, a, timedOut)
<1>7. /\ o = "missing" => Listed \cap world.jobs = {}
      /\ o = "unavailable" => Listed # {} /\ \A v \in Listed : a[v] = {"404"}
  BY <1>3, <1>6, ProbedIs
<1> HIDE DEF o
<1>8. CASE o \in {"found", "ambiguous"} \/ Unavailable(o)
  <2>1. Locate(o) /\ UNCHANGED failed
    BY <1>5, <1>8 DEF AfterOthers, o
  <2>2. located' = o /\ stage' \in {"fetch", "fallback", "end"}
    BY <2>1, LocateEffect
  <2>3. ASSUME o = "unavailable"
        PROVE  world.pt /\ world.vcs # {} /\ world.vcs \subseteq dead'
    <3>1. world.pt /\ ~skips /\ ~InventoryErr
      BY <1>2, <1>8, <2>3 DEF Unavailable
    <3>2. world.vcs \subseteq Listed
      BY <1>4, <3>1
    <3>3. Listed \subseteq world.vcs
      BY DEF Listed
    <3>4. QED
      BY <1>5, <1>7, <2>3, <3>1, <3>2, <3>3
  <2>4. o # "missing"
    BY <1>8 DEF Unavailable
  <2>5. LookupTypes' /\ LookupIsTrue'
    BY <1>2, <2>1, <2>2, <2>3, <2>4 DEF LookupTypes, LookupIsTrue
  <2>6. QED
    BY <1>1, <1>2, <2>2, <2>5, OnceLocated
<1>9. CASE ~(o \in {"found", "ambiguous"} \/ Unavailable(o))
  <2>1. stage' = "pods" /\ failed' = (failed \/ InventoryErr \/ o # "missing") /\ UNCHANGED located
    BY <1>5, <1>9 DEF AfterOthers, o
  <2>2. ASSUME ~failed'
        PROVE  world.jobs = {}
    <3>1. ~failed /\ ~InventoryErr /\ o = "missing"
      BY <2>1, <2>2
    <3>2. QED
      BY <1>2, <1>4, <1>7, <3>1, WorldIs
  <2>3. AskedFirst' /\ (~failed' => NothingSoFar')
    BY <1>2, <2>1, <2>2 DEF AskedFirst, NothingSoFar
  <2>4. LookupTypes' /\ LookupIsTrue'
    <3>1. failed' \in BOOLEAN
      BY <2>1
    <3>2. QED
      BY <1>2, <1>5, <2>1, <3>1 DEF LookupTypes, LookupIsTrue, Nowhere
  <2>5. QED
    BY <1>1, <2>3, <2>4 DEF LookupInv
<1>10. QED
  BY <1>8, <1>9

LEMMA HostPodsNext == LookupInv /\ HostPods => LookupInv'
<1> SUFFICES ASSUME LookupInv, HostPods PROVE LookupInv'
  OBVIOUS
<1>1. MapInv'
  BY NextMap DEF LookupInv, HostPods
<1>2. /\ stage = "pods" /\ world \in Worlds /\ LookupTypes /\ LookupIsTrue
      /\ world.pt => ~skips
      /\ ~failed => world.jobs = {}
      /\ UNCHANGED <<world, skips, dead, waiting>>
  BY DEF HostPods, LookupInv, AskedFirst, LookupTypes, NothingSoFar
<1>3. ASSUME NEW o \in {"found", "ambiguous"}, Locate(o), UNCHANGED failed
      PROVE  LookupInv'
  <2>1. located' = o /\ stage' \in {"fetch", "fallback", "end"}
    BY <1>3, LocateEffect
  <2>2. LookupTypes' /\ LookupIsTrue'
    BY <1>2, <1>3, <2>1 DEF LookupTypes, LookupIsTrue
  <2>3. QED
    BY <1>1, <1>2, <2>1, <2>2, OnceLocated
<1>4. CASE /\ stage' = "jobs"
           /\ failed' \in {TRUE} \cup (IF world.pods = 0 THEN {failed} ELSE {})
           /\ UNCHANGED <<located, outcome>>
  <2>1. failed' \in BOOLEAN /\ (~failed' => ~failed /\ world.pods = 0)
    BY <1>2, <1>4 DEF LookupTypes
  <2>2. LookupTypes' /\ AskedFirst' /\ (~failed' => NothingSoFar')
    BY <1>2, <1>4, <2>1 DEF LookupTypes, AskedFirst, NothingSoFar
  <2>3. LookupIsTrue'
    BY <1>2, <1>4 DEF LookupIsTrue, Nowhere
  <2>4. QED
    BY <1>1, <2>2, <2>3 DEF LookupInv
<1>5. QED
  BY <1>3, <1>4 DEF HostPods

LEMMA HostJobsNext == LookupInv /\ HostJobs => LookupInv'
<1> SUFFICES ASSUME LookupInv, HostJobs PROVE LookupInv'
  OBVIOUS
<1>1. MapInv'
  BY NextMap DEF LookupInv, HostJobs
<1>2. /\ stage = "jobs" /\ world \in Worlds /\ LookupTypes
      /\ world.pt => ~skips
      /\ ~failed => world.jobs = {} /\ world.pods = 0
      /\ UNCHANGED <<world, skips, failed, dead, waiting>>
  BY DEF HostJobs, LookupInv, AskedFirst, LookupTypes, NothingSoFar, search
<1>3. ASSUME NEW o, Locate(o), o # "unavailable", o = "missing" => Nowhere
      PROVE  LookupInv'
  <2>1. located' = o /\ stage' \in {"fetch", "fallback", "end"}
    BY <1>3, LocateEffect
  <2>2. LookupTypes' /\ LookupIsTrue'
    BY <1>2, <1>3, <2>1 DEF LookupTypes, LookupIsTrue, Nowhere
  <2>3. QED
    BY <1>1, <1>2, <2>1, <2>2, OnceLocated
<1>4. world.hostJobs = 0 /\ Failure(failed) = "missing" => Nowhere
  BY <1>2 DEF Failure, Nowhere
<1>5. Failure(failed) # "unavailable"
  BY DEF Failure
<1>6. QED
  BY <1>3, <1>4, <1>5 DEF HostJobs

LEMMA UIDAnswerNext == ASSUME NEW s \in {"pods", "jobs"}  PROVE LookupInv /\ UIDAnswer(s) => LookupInv'
<1> SUFFICES ASSUME LookupInv, UIDAnswer(s) PROVE LookupInv'
  OBVIOUS
<1> DEFINE there == IF s = "pods" THEN world.pods > 0 ELSE world.hostJobs > 0
<1>1. MapInv'
  BY NextMap DEF LookupInv, UIDAnswer
<1>2. /\ stage = "uid" /\ world.by = "uid" /\ world \in Worlds /\ LookupTypes /\ LookupIsTrue
      /\ world.pt => ~skips
      /\ ~failed /\ "pods" \notin waiting => world.pods = 0
      /\ ~failed /\ "jobs" \notin waiting => world.hostJobs = 0
      /\ waiting' = waiting \ {s} /\ waiting \subseteq {"pods", "jobs"}
      /\ UNCHANGED <<world, skips, dead>>
  BY DEF UIDAnswer, LookupInv, AskedFirst, LookupTypes, NothingSoFar
<1>3. world.jobs = {} /\ ~world.pt /\ world.pods \in Nat /\ world.hostJobs \in Nat
  BY <1>2, WorldIs
<1>4. ASSUME NEW o, Locate(o), failed' \in BOOLEAN, o # "unavailable", o = "missing" => Nowhere
      PROVE  LookupInv'
  <2>1. located' = o /\ stage' \in {"fetch", "fallback", "end"}
    BY <1>4, LocateEffect
  <2>2. LookupTypes' /\ LookupIsTrue'
    BY <1>2, <1>4, <2>1 DEF LookupTypes, LookupIsTrue, Nowhere
  <2>3. QED
    BY <1>1, <1>2, <2>1, <2>2, OnceLocated
<1>5. CASE (\E o \in {"found", "error"} : Locate(o)) /\ UNCHANGED failed
  BY <1>2, <1>4, <1>5 DEF LookupTypes
<1>6. CASE /\ failed' \in {TRUE} \cup (IF there THEN {} ELSE {failed})
           /\ IF waiting' = {} THEN Locate(Failure(failed'))
              ELSE UNCHANGED <<stage, located, outcome>>
  <2>1. failed' \in BOOLEAN /\ (~failed' => ~failed /\ ~there)
    BY <1>2, <1>6 DEF LookupTypes
  <2>2. /\ ~failed' /\ "pods" \notin waiting' => world.pods = 0
        /\ ~failed' /\ "jobs" \notin waiting' => world.hostJobs = 0
    BY <1>2, <1>3, <2>1
  <2>3. CASE waiting' = {}
    <3>1. /\ Failure(failed') = "missing" => ~failed'
          /\ Failure(failed') # "unavailable"
      BY DEF Failure
    <3>2. Failure(failed') = "missing" => Nowhere
      BY <1>3, <2>2, <2>3, <3>1 DEF Nowhere
    <3>3. QED
      BY <1>4, <1>6, <2>1, <2>3, <3>1, <3>2
  <2>4. CASE UNCHANGED <<stage, located, outcome>>
    <3>1. LookupTypes' /\ AskedFirst' /\ (~failed' => NothingSoFar')
      BY <1>2, <1>3, <2>1, <2>2, <2>4 DEF LookupTypes, AskedFirst, NothingSoFar
    <3>2. LookupIsTrue'
      BY <1>2, <2>4 DEF LookupIsTrue, Nowhere
    <3>3. QED
      BY <1>1, <3>1, <3>2 DEF LookupInv
  <2>5. QED
    BY <1>6, <2>3, <2>4
<1>7. QED
  BY <1>5, <1>6 DEF UIDAnswer

LEMMA LookupPreserved == LookupInv /\ [LookupNext]_lookupVars => LookupInv'
<1> SUFFICES ASSUME LookupInv, [LookupNext]_lookupVars PROVE LookupInv'
  OBVIOUS
<1>s. ASSUME MapInv', UNCHANGED <<world, stage, skips, failed, dead, waiting, located>>
      PROVE  LookupInv'
  BY <1>s DEF LookupInv, LookupTypes, AskedFirst, NothingSoFar, LookupIsTrue, Nowhere
<1>1. CASE LookupStep
  <2>1. CASE Fetch \/ Fallback
    <3>1. /\ MapInv' /\ stage' \in {"end", "fallback"}
          /\ UNCHANGED <<world, skips, failed, dead, waiting, located>>
      BY <2>1, NextMap DEF LookupInv, Fetch, Fallback, search
    <3>2. LookupTypes' /\ LookupIsTrue'
      BY <3>1 DEF LookupInv, LookupTypes, LookupIsTrue, Nowhere
    <3>3. QED
      BY <3>1, <3>2, OnceLocated DEF LookupInv, AskedFirst
  <2>2. QED
    BY <1>1, <2>1, CurrentNext, OthersNext, HostPodsNext, HostJobsNext DEF LookupStep
<1>2. CASE EndContext
  <2>1. MapInv'
    BY <1>2 DEF EndContext, pool, LookupInv, MapInv, TypeOK, OneWorkerPerInput, IndexInv, WorkerInv, Called
  <2>2. QED
    BY <1>2, <1>s, <2>1 DEF EndContext, search
<1>3. CASE \E s \in {"pods", "jobs"} : UIDAnswer(s)
  BY <1>3, UIDAnswerNext
<1>4. CASE Inventory /\ Listing
  <2>1. MapInv'
    BY <1>4, NextMap DEF LookupInv, Inventory, Next
  <2>2. QED
    BY <1>4, <1>s, <2>1 DEF Listing, search
<1>5. CASE \E w \in Workers : InventoryWorker(w) /\ Listing
  <2>1. MapInv'
    BY <1>5, NextMap DEF LookupInv, InventoryWorker, Next
  <2>2. QED
    BY <1>5, <1>s, <2>1 DEF Listing, search
<1>6. CASE UNCHANGED lookupVars
  <2>1. MapInv'
    BY <1>6, NextMap DEF LookupInv, lookupVars
  <2>2. QED
    BY <1>6, <1>s, <2>1 DEF lookupVars, search
<1>7. QED
  BY <1>1, <1>2, <1>3, <1>4, <1>5, <1>6 DEF LookupNext

\* ate get is one of the readings, and the others leave its variables alone.
LEMMA ReadingsLookUp == ReadingsSpec => LookupSpec
<1>1. ReadingsInit => LookupInit
  BY DEF ReadingsInit
<1>2. [ReadingsNext]_allVars => [LookupNext]_lookupVars
  BY DEF ReadingsNext, allVars, others, listing, OnlyOthers, ReadJob, ReadVCs, ReadIAM, ReadProfiles,
         ReadNewest, ReadGet, ReadUsageOfQueue, ReadNodes, ReadMetrics, ReadViews, ReadUsers
<1>3. QED
  BY <1>1, <1>2, PTL DEF ReadingsSpec, LookupSpec

\* job_lookup_test.go: whatever fails and in whatever place, a job is said not to
\* exist only if every place was searched and none has it, and a service is said
\* to be unavailable only if every VC's endpoint has answered 404.
THEOREM LookupsAreTrue == ReadingsSpec => []LookupIsTrue
<1>1. LookupInv => LookupIsTrue
  BY DEF LookupInv
<1>2. LookupSpec => []LookupInv
  BY InitLookup, LookupPreserved, PTL DEF LookupSpec
<1>3. QED
  BY <1>1, <1>2, ReadingsLookUp, PTL
-----------------------------------------------------------------------------
(***************************************************************************)
(* queue node usage: what has been read of labels and pods still agrees    *)
(* with all that has lasted since.                                         *)
(***************************************************************************)
UsageTypes ==
  /\ request \in [elastic : BOOLEAN, uid : BOOLEAN]
  /\ names \in [exact : 0 .. 2, akin : 0 .. 2, likely : BOOLEAN]
  /\ node \in [label : Labels, pods : [1 .. 2 -> Pods]]
  /\ finding \in [Searches -> {"open", "ended", "missing", "error"}]
  /\ heard \in [quota : {"open", "ok", "failed"},
                usage : {"open", "zero", "some", "full", "unknown", "failed"},
                label : Labels \cup {"open", "failed"},
                pods : [1 .. 2 -> Pods \cup {"open", "failed"}], rest : Pods]

ReadInOrder ==
  /\ phase = "find" => heard = Unread0
  /\ phase = "read" => heard.label = "open" /\ heard.pods[1] = "open"
  /\ heard.pods[1] = "open" => heard.pods[2] = "open"
  /\ heard.pods[2] \in {"open", "failed", heard.rest}

\* What the label told, and what the pods did when the first page was read.
LabelAgrees ==
  heard.label \notin {"open", "failed"} =>
    /\ "their label" \in lasting => heard.label \in Theirs
    /\ "our label" \in lasting => heard.label = "ours"
    /\ "nobody else" \in lasting => heard.label \notin Theirs \cup Unclear

PodsAgree ==
  heard.pods[1] \notin {"open", "failed"} =>
    LET told2 == {heard.pods[1], heard.rest} IN
    /\ "their pods" \in lasting => told2 \cap Theirs # {}
    /\ "strangers" \in lasting => "plain" \in told2
    /\ "our pods" \in lasting => "ours" \in told2
    /\ "nobody else" \in lasting => told2 \cap (Theirs \cup Unclear) = {}

UsageInv ==
  /\ UsageTypes /\ ReadInOrder
  /\ lasting \subseteq Facts(node) /\ LabelAgrees /\ PodsAgree
  /\ QueueIsMissing

LEMMA UsageInitInv == UsageInit => UsageInv
<1> SUFFICES ASSUME UsageInit PROVE UsageInv
  OBVIOUS
<1>1. heard = Unread0 /\ lasting = {} /\ finding = [s \in Searches |-> "open"]
  BY DEF UsageInit
<1>2. node \in [label : Labels, pods : [1 .. 2 -> Pods]]
  <2>1. node.pods \in Pods \X {"none", "ours", "other"} /\ node.label \in Labels
        /\ node = [label |-> node.label, pods |-> node.pods]
    BY DEF UsageInit
  <2>2. node.pods \in [1 .. 2 -> Pods]
    BY <2>1 DEF Pods
  <2>3. QED
    BY <2>1, <2>2
<1>3. heard.label = "open" /\ heard.pods = <<"open", "open">> /\ heard.rest = "none"
      /\ heard.quota = "open" /\ heard.usage = "open"
  BY <1>1 DEF Unread0
<1>4. heard.pods[1] = "open" /\ heard.pods[2] = "open"
      /\ heard.pods \in [1 .. 2 -> Pods \cup {"open", "failed"}]
  BY <1>3
<1>5. UsageTypes
  <2>1. heard \in [quota : {"open", "ok", "failed"},
                usage : {"open", "zero", "some", "full", "unknown", "failed"},
                label : Labels \cup {"open", "failed"},
                pods : [1 .. 2 -> Pods \cup {"open", "failed"}], rest : Pods]
    BY <1>1, <1>3, <1>4 DEF Unread0, Pods
  <2>2. QED
    BY <1>1, <1>2, <2>1 DEF UsageTypes, UsageInit
<1>6. ReadInOrder /\ LabelAgrees /\ PodsAgree
  BY <1>1, <1>3, <1>4 DEF ReadInOrder, LabelAgrees, PodsAgree
<1>7. QueueIsMissing
  BY <1>1 DEF QueueIsMissing
<1>8. QED
  BY <1>1, <1>5, <1>6, <1>7 DEF UsageInv

\* The facts, without their names.
LEMMA FactsAre ==
  /\ "their label" \in Facts(node) => node.label \in Theirs
  /\ "our label" \in Facts(node) => node.label = "ours"
  /\ "their pods" \in Facts(node) => node.pods[1] \in Theirs \/ node.pods[2] \in Theirs
  /\ "strangers" \in Facts(node) => node.pods[1] = "plain" \/ node.pods[2] = "plain"
  /\ "our pods" \in Facts(node) => node.pods[1] = "ours" \/ node.pods[2] = "ours"
  /\ "nobody else" \in Facts(node) =>
       {node.label, node.pods[1], node.pods[2]} \cap (Theirs \cup Unclear) = {}
<1>1. \A i \in 1 .. 2 : i = 1 \/ i = 2
  OBVIOUS
<1>2. QED
  BY <1>1 DEF Facts

\* A search ends with what it may say.
LEMMA FoundKeeps ==
  ASSUME NEW s \in Searches, NEW what \in {"exact", "akin", "missing", "error"},
         UsageInv, phase = "find", Found(s, what),
         what = "missing" => names.exact = 0 /\ names.akin = 0
  PROVE  UsageInv'
<1>1. UNCHANGED <<request, names, node, twin, heard, lasting>>
  BY DEF Found
<1>2. \/ finding' = [t \in Searches |-> "ended"]
      \/ finding' = [finding EXCEPT ![s] = what] /\ what \in {"missing", "error"}
  BY DEF Found
<1>3. finding' \in [Searches -> {"open", "ended", "missing", "error"}]
  BY <1>2 DEF UsageInv, UsageTypes
<1>4. \A t \in Searches : finding'[t] = "missing" => names.exact = 0 /\ names.akin = 0
  BY <1>2 DEF UsageInv, UsageTypes, QueueIsMissing
<1>5. heard = Unread0
  BY DEF UsageInv, ReadInOrder
<1>6. UsageTypes' /\ QueueIsMissing'
  BY <1>1, <1>3, <1>4 DEF UsageInv, UsageTypes, QueueIsMissing
<1>7. heard.label = "open" /\ heard.pods[1] = "open" /\ heard.pods[2] = "open"
  BY <1>5 DEF Unread0
<1>8. ReadInOrder'
  BY <1>1, <1>5, <1>7 DEF UsageInv, ReadInOrder
<1>9. (lasting \subseteq Facts(node))' /\ LabelAgrees' /\ PodsAgree'
  <2>1. heard' = heard /\ lasting' = lasting /\ node' = node
    BY <1>1
  <2>2. LabelAgrees' /\ PodsAgree'
    BY <1>5, <1>7, <2>1 DEF LabelAgrees, PodsAgree
  <2>3. Facts(node)' = Facts(node)
    BY <2>1 DEF Facts
  <2>4. QED
    BY <2>1, <2>2, <2>3 DEF UsageInv
<1>10. QED
  BY <1>6, <1>8, <1>9 DEF UsageInv

LEMMA MatchQueueIs ==
  ASSUME NEW S
  PROVE  /\ MatchQueue(S) \in {"exact", "akin", "missing"}
         /\ MatchQueue(S) = "missing" => names.exact \notin S /\ names.akin \notin S
BY DEF MatchQueue

LEMMA FindResourceNext == UsageInv /\ FindResource => UsageInv'
<1> SUFFICES ASSUME UsageInv, FindResource PROVE UsageInv'
  OBVIOUS
<1>1. PICK lost \in SUBSET {1, 2} :
        LET first == MatchQueue({1} \ lost)
            then == MatchQueue({2} \ lost)
        IN Found("resource",
             IF first # "missing" THEN first
             ELSE IF then = "missing" /\ lost # {} THEN "error" ELSE then)
  BY DEF FindResource
<1> DEFINE first == MatchQueue({1} \ lost)
           second == MatchQueue({2} \ lost)
           what == IF first # "missing" THEN first
                   ELSE IF second = "missing" /\ lost # {} THEN "error" ELSE second
<1>2. /\ first \in {"exact", "akin", "missing"} /\ second \in {"exact", "akin", "missing"}
      /\ first = "missing" /\ lost = {} => names.exact # 1 /\ names.akin # 1
      /\ second = "missing" /\ lost = {} => names.exact # 2 /\ names.akin # 2
  <2>1. /\ first \in {"exact", "akin", "missing"} /\ second \in {"exact", "akin", "missing"}
        /\ first = "missing" => names.exact \notin {1} \ lost /\ names.akin \notin {1} \ lost
        /\ second = "missing" => names.exact \notin {2} \ lost /\ names.akin \notin {2} \ lost
    BY MatchQueueIs
  <2> HIDE DEF first, second
  <2>2. QED
    BY <2>1
<1>3. names.exact \in 0 .. 2 /\ names.akin \in 0 .. 2
  BY DEF UsageInv, UsageTypes
<1>4. Found("resource", what) /\ phase = "find"
  BY <1>1 DEF FindResource
<1> HIDE DEF first, second
<1>5. /\ what \in {"exact", "akin", "missing", "error"}
      /\ what = "missing" => names.exact = 0 /\ names.akin = 0
  BY <1>2, <1>3
<1> HIDE DEF what
<1>6. QED
  BY <1>4, <1>5, FoundKeeps DEF Searches

LEMMA FindInWorkspacesNext == UsageInv /\ FindInWorkspaces => UsageInv'
<1> SUFFICES ASSUME UsageInv, FindInWorkspaces PROVE UsageInv'
  OBVIOUS
<1>1. PICK lost \in SUBSET {1, 2} :
        LET likely == IF names.likely THEN MatchQueue({1} \ lost) ELSE "missing"
        IN Found("workspaces",
             IF likely # "missing" THEN likely
             ELSE IF lost = {1, 2} THEN "error"
             ELSE IF lost # {} /\ MatchQueue({1, 2} \ lost) = "missing" THEN "error"
             ELSE MatchQueue({1, 2} \ lost))
  BY DEF FindInWorkspaces
<1> DEFINE first == IF names.likely THEN MatchQueue({1} \ lost) ELSE "missing"
           all == MatchQueue({1, 2} \ lost)
           what == IF first # "missing" THEN first
                   ELSE IF lost = {1, 2} THEN "error"
                   ELSE IF lost # {} /\ all = "missing" THEN "error"
                   ELSE all
<1>2. /\ first \in {"exact", "akin", "missing"} /\ all \in {"exact", "akin", "missing"}
      /\ all = "missing" /\ lost = {} => names.exact \notin {1, 2} /\ names.akin \notin {1, 2}
  <2>1. /\ first \in {"exact", "akin", "missing"} /\ all \in {"exact", "akin", "missing"}
        /\ all = "missing" => names.exact \notin {1, 2} \ lost /\ names.akin \notin {1, 2} \ lost
    BY MatchQueueIs
  <2> HIDE DEF first, all
  <2>2. QED
    BY <2>1
<1>3. names.exact \in 0 .. 2 /\ names.akin \in 0 .. 2
  BY DEF UsageInv, UsageTypes
<1>4. Found("workspaces", what) /\ phase = "find"
  BY <1>1 DEF FindInWorkspaces
<1> HIDE DEF first, all
<1>5. /\ what \in {"exact", "akin", "missing", "error"}
      /\ what = "missing" => names.exact = 0 /\ names.akin = 0
  BY <1>2, <1>3
<1> HIDE DEF what
<1>6. QED
  BY <1>4, <1>5, FoundKeeps DEF Searches

\* Reading the usage is the moment from which on everything is observed.
LEMMA ReadUsageNext == UsageInv /\ ReadUsage => UsageInv'
<1> SUFFICES ASSUME UsageInv, ReadUsage PROVE UsageInv'
  OBVIOUS
<1>1. PICK a \in Figures \cup {"unknown", "failed"} : heard' = [heard EXCEPT !.usage = a]
  BY DEF ReadUsage
<1>2. a \in {"zero", "some", "full", "unknown", "failed"}
  BY DEF Figures
<1>3. /\ phase = "read" /\ lasting' = Facts(node)
      /\ UNCHANGED <<request, names, node, twin, finding, phase>>
  BY DEF ReadUsage
<1>4. UsageTypes' /\ heard'.label = heard.label /\ heard'.pods = heard.pods /\ heard'.rest = heard.rest
  BY <1>1, <1>2, <1>3 DEF UsageInv, UsageTypes
<1>5. heard.label = "open" /\ heard.pods[1] = "open" /\ ReadInOrder
  BY <1>3 DEF UsageInv, ReadInOrder
<1>6. ReadInOrder' /\ LabelAgrees' /\ PodsAgree'
  BY <1>3, <1>4, <1>5 DEF ReadInOrder, LabelAgrees, PodsAgree
<1>7. Facts(node)' = Facts(node)
  BY <1>3 DEF Facts
<1>8. QueueIsMissing'
  BY <1>3 DEF UsageInv, QueueIsMissing
<1>9. QED
  BY <1>3, <1>4, <1>6, <1>7, <1>8 DEF UsageInv

\* What only moves the command on changes nothing of what is known.
LEMMA MovesOn ==
  ASSUME UsageInv, UNCHANGED <<request, names, node, finding, lasting>>,
         heard'.label = heard.label, heard'.pods = heard.pods, heard'.rest = heard.rest,
         UsageTypes', phase' \notin {"find", "read"}
  PROVE  UsageInv'
<1>1. ReadInOrder' /\ LabelAgrees' /\ PodsAgree'
  BY DEF UsageInv, ReadInOrder, LabelAgrees, PodsAgree
<1>2. Facts(node)' = Facts(node)
  BY DEF Facts
<1>3. QueueIsMissing'
  BY DEF UsageInv, QueueIsMissing
<1>4. QED
  BY <1>1, <1>2, <1>3 DEF UsageInv

LEMMA MovesOnNext == UsageInv /\ (ReadQuota \/ EndOwnership \/ Stop) => UsageInv'
<1> SUFFICES ASSUME UsageInv, ReadQuota \/ EndOwnership \/ Stop PROVE UsageInv'
  OBVIOUS
<1>1. /\ UNCHANGED <<request, names, node, finding, lasting>>
      /\ phase' \notin {"find", "read"}
      /\ heard' = heard \/ \E a \in {"ok", "failed"} : heard' = [heard EXCEPT !.quota = a]
  BY DEF ReadQuota, EndOwnership, Stop
<1>2. UsageTypes' /\ heard'.label = heard.label /\ heard'.pods = heard.pods /\ heard'.rest = heard.rest
  BY <1>1 DEF UsageInv, UsageTypes
<1>3. QED
  BY <1>1, <1>2, MovesOn

LEMMA ReadNodeNext == UsageInv /\ ReadNode => UsageInv'
<1> SUFFICES ASSUME UsageInv, ReadNode PROVE UsageInv'
  OBVIOUS
<1>1. PICK a \in {node.label, "failed"} : heard' = [heard EXCEPT !.label = a]
  BY DEF ReadNode
<1>2. /\ phase = "own" /\ UNCHANGED <<request, names, node, twin, finding, phase, lasting>>
  BY DEF ReadNode
<1>3. /\ UsageTypes' /\ heard'.label = a /\ heard'.pods = heard.pods /\ heard'.rest = heard.rest
  BY <1>1, <1>2 DEF UsageInv, UsageTypes
<1>4. ReadInOrder' /\ PodsAgree' /\ QueueIsMissing'
  BY <1>2, <1>3 DEF UsageInv, ReadInOrder, PodsAgree, QueueIsMissing
<1>5. Facts(node)' = Facts(node)
  BY <1>2 DEF Facts
<1>6. /\ "their label" \in Facts(node) => node.label \in Theirs
      /\ "our label" \in Facts(node) => node.label = "ours"
      /\ "nobody else" \in Facts(node) => node.label \notin Theirs \cup Unclear
  BY FactsAre
<1>7. LabelAgrees'
  BY <1>2, <1>3, <1>6 DEF UsageInv, LabelAgrees
<1>8. QED
  BY <1>2, <1>3, <1>4, <1>5, <1>7 DEF UsageInv

LEMMA ReadFirstPageNext == UsageInv /\ ReadFirstPage => UsageInv'
<1> SUFFICES ASSUME UsageInv, ReadFirstPage PROVE UsageInv'
  OBVIOUS
<1>1. /\ phase = "own" /\ UNCHANGED <<request, names, node, twin, finding, phase, lasting>>
      /\ heard.pods[1] = "open" /\ heard.pods[2] = "open"
  BY DEF ReadFirstPage, UsageInv, ReadInOrder
<1>2. Facts(node)' = Facts(node) /\ QueueIsMissing'
  <2>1. Facts(node)' = Facts(node)
    BY <1>1 DEF Facts
  <2>2. QED
    BY <1>1, <2>1 DEF UsageInv, QueueIsMissing
<1>3. heard.pods \in [1 .. 2 -> Pods \cup {"open", "failed"}] /\ node.pods \in [1 .. 2 -> Pods]
  BY DEF UsageInv, UsageTypes
<1>4. CASE heard' = [heard EXCEPT !.pods = <<"failed", "failed">>]
  <2>1. heard'.pods = <<"failed", "failed">> /\ heard'.label = heard.label /\ heard'.rest = heard.rest
        /\ heard'.quota = heard.quota /\ heard'.usage = heard.usage
    BY <1>4 DEF UsageInv, UsageTypes
  <2>2. heard'.pods[1] = "failed" /\ heard'.pods[2] = "failed"
        /\ heard'.pods \in [1 .. 2 -> Pods \cup {"open", "failed"}]
    BY <2>1
  <2>3. UsageTypes'
    BY <1>1, <1>4, <2>1, <2>2 DEF UsageInv, UsageTypes
  <2>4. ReadInOrder' /\ LabelAgrees' /\ PodsAgree'
    BY <1>1, <2>1, <2>2 DEF UsageInv, ReadInOrder, LabelAgrees, PodsAgree
  <2>5. QED
    BY <1>1, <1>2, <2>3, <2>4 DEF UsageInv
<1>5. CASE heard' = [heard EXCEPT !.pods[1] = node.pods[1], !.rest = node.pods[2]]
  <2>1. /\ heard'.pods = [heard.pods EXCEPT ![1] = node.pods[1]]
        /\ heard'.label = heard.label /\ heard'.rest = node.pods[2]
        /\ heard'.quota = heard.quota /\ heard'.usage = heard.usage
    BY <1>5 DEF UsageInv, UsageTypes
  <2>2. heard'.pods[1] = node.pods[1] /\ heard'.pods[2] = "open"
        /\ heard'.pods \in [1 .. 2 -> Pods \cup {"open", "failed"}]
    BY <1>1, <1>3, <2>1
  <2>3. UsageTypes'
    <3>1. heard' = [heard EXCEPT !.pods = heard'.pods, !.rest = node.pods[2]]
      BY <1>5, <2>1
    <3>2. node.pods[2] \in Pods
      BY <1>3
    <3>3. QED
      BY <1>1, <2>2, <3>1, <3>2 DEF UsageInv, UsageTypes
  <2>4. LabelAgrees'
    BY <1>1, <2>1 DEF UsageInv, LabelAgrees
  <2>5. ReadInOrder'
    BY <1>1, <1>3, <2>1, <2>2 DEF UsageInv, ReadInOrder, Pods
  <2>6. /\ "their pods" \in Facts(node) => node.pods[1] \in Theirs \/ node.pods[2] \in Theirs
        /\ "strangers" \in Facts(node) => node.pods[1] = "plain" \/ node.pods[2] = "plain"
        /\ "our pods" \in Facts(node) => node.pods[1] = "ours" \/ node.pods[2] = "ours"
        /\ "nobody else" \in Facts(node) => {node.pods[1], node.pods[2]} \cap (Theirs \cup Unclear) = {}
    BY FactsAre
  <2>7. PodsAgree'
    BY <1>1, <2>1, <2>2, <2>6 DEF UsageInv, PodsAgree
  <2>8. QED
    BY <1>1, <1>2, <2>3, <2>4, <2>5, <2>7 DEF UsageInv
<1>6. QED
  BY <1>4, <1>5 DEF ReadFirstPage

LEMMA ReadSecondPageNext == UsageInv /\ ReadSecondPage => UsageInv'
<1> SUFFICES ASSUME UsageInv, ReadSecondPage PROVE UsageInv'
  OBVIOUS
<1>1. /\ phase = "own" /\ UNCHANGED <<request, names, node, twin, finding, phase, lasting>>
      /\ heard.pods[1] # "open"
  BY DEF ReadSecondPage
<1>2. PICK a \in {heard.rest, "failed"} : heard' = [heard EXCEPT !.pods[2] = a]
  BY DEF ReadSecondPage, PodsPage
<1>3. heard.pods \in [1 .. 2 -> Pods \cup {"open", "failed"}] /\ a \in Pods \cup {"failed"}
  BY DEF UsageInv, UsageTypes
<1>4. /\ heard'.pods = [heard.pods EXCEPT ![2] = a]
      /\ heard'.label = heard.label /\ heard'.rest = heard.rest
      /\ heard'.quota = heard.quota /\ heard'.usage = heard.usage
  BY <1>2 DEF UsageInv, UsageTypes
<1>5. heard'.pods[1] = heard.pods[1] /\ heard'.pods[2] = a
      /\ heard'.pods \in [1 .. 2 -> Pods \cup {"open", "failed"}]
  BY <1>3, <1>4
<1>6. UsageTypes'
  BY <1>1, <1>2, <1>4, <1>5 DEF UsageInv, UsageTypes
<1>7. ReadInOrder' /\ LabelAgrees' /\ PodsAgree' /\ QueueIsMissing'
  BY <1>1, <1>4, <1>5 DEF UsageInv, ReadInOrder, LabelAgrees, PodsAgree, QueueIsMissing
<1>8. Facts(node)' = Facts(node)
  BY <1>1 DEF Facts
<1>9. QED
  BY <1>1, <1>6, <1>7, <1>8 DEF UsageInv

\* What has lasted so far and still holds goes on to last: the rest is forgotten.
LEMMA ChangeNext == UsageInv /\ Change => UsageInv'
<1> SUFFICES ASSUME UsageInv, Change PROVE UsageInv'
  OBVIOUS
<1>1. /\ phase # "find" /\ lasting' = lasting \cap Facts(node')
      /\ UNCHANGED <<request, names, twin, finding, phase, heard>>
  BY DEF Change
<1>2. node' \in [label : Labels, pods : [1 .. 2 -> Pods]]
  BY DEF Change, UsageInv, UsageTypes
<1>3. UsageTypes'
  BY <1>1, <1>2 DEF UsageInv, UsageTypes
<1>4. ReadInOrder' /\ LabelAgrees' /\ PodsAgree' /\ QueueIsMissing'
  BY <1>1 DEF UsageInv, ReadInOrder, LabelAgrees, PodsAgree, QueueIsMissing
<1>5. (lasting \subseteq Facts(node))'
  BY <1>1
<1>6. QED
  BY <1>3, <1>4, <1>5 DEF UsageInv

LEMMA UsagePreserved == UsageInv /\ [UsageNext]_usageVars => UsageInv'
<1> SUFFICES ASSUME UsageInv, [UsageNext]_usageVars PROVE UsageInv'
  OBVIOUS
<1>1. CASE UNCHANGED usageVars
  <2>1. UNCHANGED <<request, names, node, twin, finding, phase, heard, lasting>>
    BY <1>1 DEF usageVars
  <2>2. Facts(node)' = Facts(node)
    BY <2>1 DEF Facts
  <2>3. UsageTypes' /\ ReadInOrder'
    BY <2>1 DEF UsageInv, UsageTypes, ReadInOrder
  <2>4. LabelAgrees' /\ PodsAgree' /\ QueueIsMissing'
    BY <2>1 DEF UsageInv, LabelAgrees, PodsAgree, QueueIsMissing
  <2>5. QED
    BY <2>1, <2>2, <2>3, <2>4 DEF UsageInv
<1>2. CASE UsageStep
  BY <1>2, FindResourceNext, FindInWorkspacesNext, ReadUsageNext, MovesOnNext, ReadNodeNext,
     ReadFirstPageNext, ReadSecondPageNext DEF UsageStep
<1>3. QED
  BY <1>1, <1>2, ChangeNext DEF UsageNext

\* Whose a node is, by what was read of it.
LEMMA ClassIs ==
  ASSUME OwnershipKnown, UsageInv
  PROVE  /\ Class \in {"owned", "unassigned"} =>
              /\ twin = "none"
              /\ {heard.label, heard.pods[1], heard.pods[2]} \cap (Theirs \cup Unclear) = {}
         /\ Class \notin {"unknown", "owned"} /\ "other" # Class =>
              "ours" \notin {heard.label, heard.pods[1], heard.pods[2]}
         /\ Class = "other" =>
              {heard.label, heard.pods[1], heard.pods[2]} \cap Theirs # {}
         /\ heard.pods[2] = heard.rest
         /\ {heard.label, heard.pods[1], heard.pods[2]} \cap {"open", "failed"} = {}
         /\ Class \in {"owned", "unassigned", "other", "unknown"}
<1> DEFINE signs == {heard.label, heard.pods[1], heard.pods[2]}
           owners == {OwnerOf(sign) : sign \in signs}
<1>1. signs \cap {"open", "failed"} = {} /\ heard.pods[2] = heard.rest
  BY DEF OwnershipKnown, OwnershipRead, UsageInv, ReadInOrder
<1>2. signs \subseteq Labels \cup Pods
  <2>1. /\ heard.label \in Labels \cup {"open", "failed"}
        /\ heard.pods[1] \in Pods \cup {"open", "failed"}
        /\ heard.pods[2] \in Pods \cup {"open", "failed"}
    BY DEF UsageInv, UsageTypes
  <2>2. QED
    BY <1>1, <2>1
<1>3. \A sign \in Labels \cup Pods :
        /\ sign \in Theirs => OwnerOf(sign) = "other"
        /\ sign \in Unclear => OwnerOf(sign) = "unknown"
        /\ sign = "ours" => OwnerOf(sign) = "owned"
        /\ sign \notin Theirs => OwnerOf(sign) # "other"
  BY DEF OwnerOf, Labels, Pods, Theirs, Unclear
<1>4. Class = IF twin # "none" THEN "unknown" ELSE Ranked(owners)
  BY DEF Class
<1> HIDE DEF signs
<1>5. /\ signs \cap Theirs # {} => "other" \in owners
      /\ signs \cap Unclear # {} => "unknown" \in owners
      /\ "ours" \in signs => "owned" \in owners
      /\ "other" \in owners => signs \cap Theirs # {}
  BY <1>2, <1>3
<1> HIDE DEF owners
<1>6. QED
  BY <1>1, <1>4, <1>5 DEF Ranked, signs

LEMMA UsageHolds == UsageInv => NobodyElses /\ NoneOfOursIsHidden /\ QueueIsMissing
<1> SUFFICES ASSUME UsageInv PROVE NobodyElses /\ NoneOfOursIsHidden /\ QueueIsMissing
  OBVIOUS
<1>1. NobodyElses
  <2>1. SUFFICES ASSUME request.elastic, NEW free \in BOOLEAN, Listed1(free)
                 PROVE  lasting \cap {"their label", "their pods", "strangers"} = {}
    BY DEF NobodyElses
  <2>2. OwnershipKnown /\ Class \in {"owned", "unassigned"}
    BY <2>1 DEF Listed1, Eligible
  <2>3. QED
    BY <2>2, ClassIs DEF UsageInv, LabelAgrees, PodsAgree, Unclear
<1>2. NoneOfOursIsHidden
  <2>1. SUFFICES ASSUME request.elastic, IsQueryComplete, "nobody else" \in lasting,
                        lasting \cap {"our label", "our pods"} # {}
                 PROVE  Listed1(FALSE)
    BY DEF NoneOfOursIsHidden
  <2>2. OwnershipKnown /\ Class # "unknown" /\ phase = "shown" /\ heard.usage # "failed"
    BY <2>1 DEF IsQueryComplete
  <2>3. /\ {heard.label, heard.pods[1], heard.pods[2]} \cap Theirs = {}
        /\ "ours" \in {heard.label, heard.pods[1], heard.pods[2]}
    BY <2>1, <2>2, ClassIs DEF UsageInv, LabelAgrees, PodsAgree
  <2>4. Class = "owned"
    BY <2>2, <2>3, ClassIs
  <2>5. QED
    BY <2>1, <2>2, <2>4 DEF Listed1, Eligible
<1>3. QED
  BY <1>1, <1>2 DEF UsageInv
-----------------------------------------------------------------------------
(***************************************************************************)
(* What is said of the nodes: an answer that was given agrees with where   *)
(* the node, or the pod, has been since the command began.                 *)
(***************************************************************************)
NodeTypes ==
  /\ view \in [command : Views, target : Targets]
  /\ label \in {"uid", "name", "none"} /\ sources \subseteq Clusters
  /\ standing \in [at : 0 .. Elsewhere, cached : 0 .. Elsewhere,
                   crowd : SUBSET Queues, elastic : BOOLEAN]
  /\ told \in [Queues -> {"open", "here", "not here", "failed"}]

\* node list
ListedByItsUsage == view.command = "list" /\ state \in {"SSP", "ECP"} => state = UsageOfNode

\* node list -w and -q, and node usage
QueuesSeen ==
  Scoped =>
    /\ {standing.at, standing.cached} \subseteq visited
    /\ \A q \in Queues :
         /\ told[q] = "here" => q \in visited \/ (standing.elastic /\ q = 2)
         /\ told[q] = "not here" => \E v \in visited : v # q
    /\ state = "whole" => \A q \in Queues : told[q] \in {"here", "not here"}
    /\ state = "warned" /\ view.command = "scope" => ~NothingLeft

\* node get
PodsSeen ==
  OneNode =>
    /\ pods.always \subseteq pods.now /\ pods.now \subseteq pods.ever
    /\ pods.always \subseteq Namespaces0
    /\ label # "none" =>
         \A n \in Namespaces0 :
           /\ told[n] = "here" => n \in pods.ever
           /\ told[n] = "not here" => n \notin pods.always
           /\ state = "whole" => told[n] \in {"here", "not here"}

NodeInv == NodeTypes /\ ListedByItsUsage /\ QueuesSeen /\ PodsSeen

LEMMA NodeInitInv == NodeInit => NodeInv
<1> SUFFICES ASSUME NodeInit PROVE NodeInv
  OBVIOUS
<1>1. told = [q \in Queues |-> "open"] /\ state = "begin"
      /\ visited = {standing.at, standing.cached}
  BY DEF NodeInit
<1>2. PICK run \in SUBSET Namespaces0 : pods = [now |-> run, ever |-> run, always |-> run]
  BY DEF NodeInit
<1>3. NodeTypes
  BY <1>1 DEF NodeInit, NodeTypes
<1>4. ListedByItsUsage
  BY <1>1 DEF ListedByItsUsage
<1>5. QueuesSeen
  BY <1>1 DEF QueuesSeen
<1>6. PodsSeen
  BY <1>1, <1>2 DEF PodsSeen, Queues, Namespaces0
<1>7. QED
  BY <1>3, <1>4, <1>5, <1>6 DEF NodeInv

\* Steps of one kind of command are none of the others'.
LEMMA CommandsDiffer ==
  /\ view.command = "list" => ~Scoped /\ ~OneNode
  /\ Scoped => ~OneNode
BY DEF Scoped, OneNode

LEMMA UsageStays ==
  ASSUME UNCHANGED <<label, sources>>
  PROVE  UsageOfNode' = UsageOfNode
BY DEF UsageOfNode, Active, Matches, Ambiguous, Identity

LEMMA ListNodesNext == NodeInv /\ ListNodes => NodeInv'
<1> SUFFICES ASSUME NodeInv, ListNodes PROVE NodeInv'
  OBVIOUS
<1>1. /\ view.command = "list" /\ UNCHANGED <<view, label, sources, standing, visited, pods, told>>
      /\ UsageOfNode' = UsageOfNode /\ view'.command = "list"
  BY UsageStays DEF ListNodes, Same
<1>2. state' \in {UsageOfNode, "failed", "guessed"}
  BY DEF ListNodes
<1>3. NodeTypes'
  BY <1>1 DEF NodeInv, NodeTypes
<1>4. ListedByItsUsage'
  BY <1>1, <1>2 DEF ListedByItsUsage
<1>5. ~Scoped' /\ ~OneNode'
  BY <1>1 DEF Scoped, OneNode
<1>6. QED
  BY <1>3, <1>4, <1>5 DEF NodeInv, QueuesSeen, PodsSeen

\* The end of a command without a result, and what only goes on.
LEMMA NodeGoesOn ==
  ASSUME NodeInv, UNCHANGED <<view, label, sources, standing, visited, pods, told>>,
         state' \in {"failed", "parts", "parts, not located"}
  PROVE  NodeInv'
<1>1. NodeTypes'
  BY DEF NodeInv, NodeTypes
<1>2. ListedByItsUsage'
  BY DEF ListedByItsUsage
<1>3. QueuesSeen'
  BY DEF NodeInv, QueuesSeen, Scoped
<1>4. PodsSeen'
  BY DEF NodeInv, PodsSeen, OneNode
<1>5. QED
  BY <1>1, <1>2, <1>3, <1>4 DEF NodeInv

LEMMA ReadQueueNext == ASSUME NEW q \in Queues PROVE NodeInv /\ ReadQueue(q) => NodeInv'
<1> SUFFICES ASSUME NodeInv, ReadQueue(q) PROVE NodeInv'
  OBVIOUS
<1>1. /\ Scoped /\ state \in {"parts", "parts, not located"}
      /\ UNCHANGED <<view, label, sources, standing, visited, pods, state>>
  BY DEF ReadQueue, Same
<1>2. PICK a \in QueueAnswers(q) : told' = [told EXCEPT ![q] = a]
  BY DEF ReadQueue
<1>3. {standing.at, standing.cached} \subseteq visited
  BY <1>1 DEF NodeInv, QueuesSeen
<1>4. /\ a \in {"here", "not here", "failed"}
      /\ a = "here" => q \in visited \/ (standing.elastic /\ q = 2)
      /\ a = "not here" => \E v \in visited : v # q
  <2>1. CASE a \in {"here", "failed"} /\ Shares(q)
    BY <2>1 DEF Shares
  <2>2. CASE a \in FromCache(q)
    <3>1. CASE standing.cached = q
      BY <1>3, <2>2, <3>1 DEF FromCache
    <3>2. CASE standing.cached # q
      BY <1>3, <2>2, <3>2 DEF FromCache
    <3>3. QED
      BY <3>1, <3>2
  <2>3. CASE a \in FromPlatform(q)
    BY <1>3, <2>3 DEF FromPlatform
  <2>4. QED
    BY <2>1, <2>2, <2>3 DEF QueueAnswers
<1>5. NodeTypes'
  BY <1>1, <1>2, <1>4 DEF NodeInv, NodeTypes
<1>6. ListedByItsUsage' /\ PodsSeen'
  BY <1>1 DEF ListedByItsUsage, PodsSeen, OneNode, Scoped
<1>7. \A r \in Queues : told'[r] = IF r = q THEN a ELSE told[r]
  BY <1>2 DEF NodeInv, NodeTypes
<1>8. QueuesSeen'
  BY <1>1, <1>3, <1>4, <1>7 DEF NodeInv, QueuesSeen, Scoped
<1>9. QED
  BY <1>5, <1>6, <1>8 DEF NodeInv

LEMMA CollectNext == NodeInv /\ CollectQueueNodes => NodeInv'
<1> SUFFICES ASSUME NodeInv, CollectQueueNodes PROVE NodeInv'
  OBVIOUS
<1>1. /\ Scoped /\ AllTold /\ state' = Collected
      /\ UNCHANGED <<view, label, sources, standing, visited, pods, told>>
  BY DEF CollectQueueNodes, Same
<1>2. \A q \in Queues : told[q] \in {"here", "not here", "failed"}
  BY <1>1 DEF NodeInv, NodeTypes, AllTold
<1>3. /\ state' = "whole" => \A q \in Queues : told[q] # "failed"
      /\ state' = "warned" /\ view.command = "scope" => ~NothingLeft
      /\ state' \in {"whole", "warned", "failed"}
  <2>1. CASE \A q \in Queues : told[q] # "failed"
    <3>1. \E q \in Queues : told[q] # "failed"
      BY <2>1 DEF Queues
    <3>2. QED
      BY <1>1, <2>1, <3>1 DEF Collected
  <2>2. CASE \A q \in Queues : told[q] = "failed"
    <3>1. \E q \in Queues : told[q] = "failed"
      BY <2>2 DEF Queues
    <3>2. QED
      BY <1>1, <2>2, <3>1 DEF Collected
  <2>3. CASE /\ ~(\A q \in Queues : told[q] # "failed")
             /\ ~(\A q \in Queues : told[q] = "failed")
    <3>1. state' = IF view.command = "scope" /\ NothingLeft THEN "failed" ELSE "warned"
      BY <1>1, <2>3 DEF Collected
    <3>2. QED
      BY <2>3, <3>1
  <2>4. QED
    BY <2>1, <2>2, <2>3
<1>4. NodeTypes'
  BY <1>1 DEF NodeInv, NodeTypes
<1>5. ListedByItsUsage' /\ PodsSeen'
  BY <1>1 DEF ListedByItsUsage, PodsSeen, OneNode, Scoped
<1>6. NothingLeft' = NothingLeft
  BY <1>1 DEF NothingLeft
<1>7. QueuesSeen'
  BY <1>1, <1>2, <1>3, <1>6 DEF NodeInv, QueuesSeen, Scoped
<1>8. QED
  BY <1>4, <1>5, <1>7 DEF NodeInv

LEMMA NodeMovesNext == NodeInv /\ NodeMoves => NodeInv'
<1> SUFFICES ASSUME NodeInv, NodeMoves PROVE NodeInv'
  OBVIOUS
<1>1. /\ Scoped /\ state \in {"begin", "parts", "parts, not located"}
      /\ visited' = visited \cup {standing'.at}
      /\ UNCHANGED <<view, label, sources, pods, state, told>>
  BY DEF NodeMoves
<1>2. /\ standing' \in [at : 0 .. Elsewhere, cached : 0 .. Elsewhere,
                        crowd : SUBSET Queues, elastic : BOOLEAN]
      /\ standing'.cached \in {standing.cached, standing.at}
      /\ standing'.elastic = standing.elastic
  <2>1. standing \in [at : 0 .. Elsewhere, cached : 0 .. Elsewhere,
                      crowd : SUBSET Queues, elastic : BOOLEAN]
    BY DEF NodeInv, NodeTypes
  <2>2. CASE \E q \in 0 .. Elsewhere : standing' = [standing EXCEPT !.at = q]
    BY <2>1, <2>2
  <2>3. CASE standing' = [standing EXCEPT !.cached = standing.at]
    BY <2>1, <2>3
  <2>4. QED
    BY <2>2, <2>3 DEF NodeMoves
<1>3. NodeTypes'
  BY <1>1, <1>2 DEF NodeInv, NodeTypes
<1>4. ListedByItsUsage' /\ PodsSeen'
  BY <1>1 DEF ListedByItsUsage, PodsSeen, OneNode, Scoped
<1>5. {standing.at, standing.cached} \subseteq visited
  BY <1>1 DEF NodeInv, QueuesSeen
<1>6. \A q \in Queues :
        /\ told[q] = "here" => q \in visited \/ (standing.elastic /\ q = 2)
        /\ told[q] = "not here" => \E v \in visited : v # q
  BY <1>1 DEF NodeInv, QueuesSeen
<1>7. {standing'.at, standing'.cached} \subseteq visited' /\ visited \subseteq visited'
  BY <1>1, <1>2, <1>5
<1>8. QueuesSeen'
  BY <1>1, <1>2, <1>6, <1>7 DEF QueuesSeen
<1>9. QED
  BY <1>3, <1>4, <1>8 DEF NodeInv

\* Whose namespaces are not known has no users' pods, or all it has are visible.
LEMMA NamespacesNext == NodeInv /\ NamespacesOfNode => NodeInv'
<1> SUFFICES ASSUME NodeInv, NamespacesOfNode PROVE NodeInv'
  OBVIOUS
<1>1. /\ OneNode /\ UNCHANGED <<view, label, sources, standing, visited, pods>>
      /\ state' \in {"namespaces", "visible", "whole"}
      /\ state' = "whole" => label = "none"
  BY DEF NamespacesOfNode, Same, HasUserWorkloadScope
<1>2. /\ told' \in [Queues -> {"open", "not here"}]
      /\ label # "none" => \A n \in Namespaces0 : told'[n] = "open"
  <2>1. told' = [n \in Namespaces0 |-> IF state' = "whole" THEN "not here" ELSE "open"]
    BY DEF NamespacesOfNode
  <2>2. QED
    BY <1>1, <2>1 DEF Queues, Namespaces0
<1>3. NodeTypes'
  BY <1>1, <1>2 DEF NodeInv, NodeTypes
<1>4. ListedByItsUsage' /\ QueuesSeen'
  BY <1>1 DEF ListedByItsUsage, QueuesSeen, OneNode, Scoped
<1>5. PodsSeen'
  BY <1>1, <1>2 DEF NodeInv, PodsSeen, OneNode
<1>6. QED
  BY <1>3, <1>4, <1>5 DEF NodeInv

\* An answer of a namespace is true when it is given.
LEMMA TrueWhenGiven ==
  ASSUME NodeInv, OneNode, NEW n \in Namespaces0
  PROVE  /\ PodsIn(n) \in {"here", "not here"}
         /\ PodsIn(n) = "here" => n \in pods.ever
         /\ PodsIn(n) = "not here" => n \notin pods.always
BY DEF PodsIn, NodeInv, PodsSeen

LEMMA ReadNamespaceNext ==
  ASSUME NEW n \in Namespaces0 PROVE NodeInv /\ ReadNamespace(n) => NodeInv'
<1> SUFFICES ASSUME NodeInv, ReadNamespace(n) PROVE NodeInv'
  OBVIOUS
<1>1. /\ OneNode /\ state = "namespaces"
      /\ UNCHANGED <<view, label, sources, standing, visited, pods, state>>
  BY DEF ReadNamespace, Same
<1>2. PICK a \in {PodsIn(n), "failed"} : told' = [told EXCEPT ![n] = a]
  BY DEF ReadNamespace
<1>3. /\ a \in {"here", "not here", "failed"}
      /\ a = "here" => n \in pods.ever
      /\ a = "not here" => n \notin pods.always
  BY <1>1, TrueWhenGiven
<1>4. NodeTypes'
  BY <1>1, <1>2, <1>3 DEF NodeInv, NodeTypes
<1>5. ListedByItsUsage' /\ QueuesSeen'
  BY <1>1 DEF ListedByItsUsage, QueuesSeen, OneNode, Scoped
<1>6. \A m \in Namespaces0 : told'[m] = IF m = n THEN a ELSE told[m]
  BY <1>2 DEF NodeInv, NodeTypes, Queues, Namespaces0
<1>7. PodsSeen'
  BY <1>1, <1>3, <1>6 DEF NodeInv, PodsSeen, OneNode
<1>8. QED
  BY <1>4, <1>5, <1>7 DEF NodeInv

LEMMA ReadVisibleNext == NodeInv /\ ReadVisible => NodeInv'
<1> SUFFICES ASSUME NodeInv, ReadVisible PROVE NodeInv'
  OBVIOUS
<1>1. /\ OneNode /\ state' = "whole" /\ told' = [n \in Namespaces0 |-> PodsIn(n)]
      /\ UNCHANGED <<view, label, sources, standing, visited, pods>>
  BY DEF ReadVisible, Same
<1>2. \A n \in Namespaces0 :
        /\ told'[n] \in {"here", "not here"}
        /\ told'[n] = "here" => n \in pods.ever
        /\ told'[n] = "not here" => n \notin pods.always
  BY <1>1, TrueWhenGiven
<1>3. told' \in [Queues -> {"open", "here", "not here", "failed"}]
  BY <1>1, <1>2 DEF Queues, Namespaces0
<1>4. NodeTypes'
  BY <1>1, <1>3 DEF NodeInv, NodeTypes
<1>5. ListedByItsUsage' /\ QueuesSeen'
  BY <1>1 DEF ListedByItsUsage, QueuesSeen, OneNode, Scoped
<1>6. PodsSeen'
  BY <1>1, <1>2 DEF NodeInv, PodsSeen, OneNode
<1>7. QED
  BY <1>4, <1>5, <1>6 DEF NodeInv

LEMMA EndGetNext == NodeInv /\ EndGet => NodeInv'
<1> SUFFICES ASSUME NodeInv, EndGet PROVE NodeInv'
  OBVIOUS
<1>1. /\ OneNode /\ AllTold
      /\ state' = IF \E n \in Namespaces0 : told[n] = "failed" THEN "failed" ELSE "whole"
      /\ UNCHANGED <<view, label, sources, standing, visited, pods, told>>
  BY DEF EndGet, Same
<1>2. state' = "whole" => \A n \in Namespaces0 : told[n] \in {"here", "not here"}
  BY <1>1 DEF AllTold, NodeInv, NodeTypes, Queues, Namespaces0
<1>3. NodeTypes'
  BY <1>1 DEF NodeInv, NodeTypes
<1>4. ListedByItsUsage' /\ QueuesSeen'
  BY <1>1 DEF ListedByItsUsage, QueuesSeen, OneNode, Scoped
<1>5. PodsSeen'
  BY <1>1, <1>2 DEF NodeInv, PodsSeen, OneNode
<1>6. QED
  BY <1>3, <1>4, <1>5 DEF NodeInv

LEMMA PodChangesNext == NodeInv /\ PodChanges => NodeInv'
<1> SUFFICES ASSUME NodeInv, PodChanges PROVE NodeInv'
  OBVIOUS
<1>1. /\ OneNode /\ UNCHANGED <<view, label, sources, standing, visited, state, told>>
      /\ state # "whole"
  BY DEF PodChanges
<1>2. PICK now : pods' = [now |-> now, ever |-> pods.ever \cup now,
                          always |-> pods.always \cap now]
  BY DEF PodChanges
<1>3. pods'.now = now /\ pods'.ever = pods.ever \cup now /\ pods'.always = pods.always \cap now
  BY <1>2
<1>4. NodeTypes'
  BY <1>1 DEF NodeInv, NodeTypes
<1>5. ListedByItsUsage' /\ QueuesSeen'
  BY <1>1 DEF ListedByItsUsage, QueuesSeen, OneNode, Scoped
<1>6. PodsSeen'
  BY <1>1, <1>3 DEF NodeInv, PodsSeen, OneNode
<1>7. QED
  BY <1>4, <1>5, <1>6 DEF NodeInv

LEMMA NodePreserved == NodeInv /\ [NodeNext]_nodeVars => NodeInv'
<1> SUFFICES ASSUME NodeInv, [NodeNext]_nodeVars PROVE NodeInv'
  OBVIOUS
<1>1. CASE QueuesOfWorkspace \/ Interrupted
  <2>1. /\ UNCHANGED <<view, label, sources, standing, visited, pods, told>>
        /\ state' \in {"failed", "parts", "parts, not located"}
    BY <1>1 DEF QueuesOfWorkspace, Interrupted, Fail, Same
  <2>2. QED
    BY <2>1, NodeGoesOn
<1>2. CASE UNCHANGED nodeVars
  <2>1. UNCHANGED <<view, label, sources, standing, visited, pods, state, told>>
    BY <1>2 DEF nodeVars
  <2>2. NodeTypes'
    BY <2>1 DEF NodeInv, NodeTypes
  <2>3. UsageOfNode' = UsageOfNode /\ NothingLeft' = NothingLeft
    BY <2>1, UsageStays DEF NothingLeft
  <2>4. ListedByItsUsage' /\ QueuesSeen'
    BY <2>1, <2>3 DEF NodeInv, ListedByItsUsage, QueuesSeen, Scoped
  <2>5. PodsSeen'
    BY <2>1 DEF NodeInv, PodsSeen, OneNode
  <2>6. QED
    BY <2>2, <2>4, <2>5 DEF NodeInv
<1>3. QED
  BY <1>1, <1>2, ListNodesNext, ReadQueueNext, CollectNext, NodeMovesNext, NamespacesNext,
     ReadNamespaceNext, ReadVisibleNext, EndGetNext, PodChangesNext DEF NodeNext, NodeStep

LEMMA NodesHold == NodeInv => UsageIsItsOwn /\ QueuesAreItsOwn /\ PodsAreThere
<1> SUFFICES ASSUME NodeInv PROVE UsageIsItsOwn /\ QueuesAreItsOwn /\ PodsAreThere
  OBVIOUS
<1>1. UsageIsItsOwn
  <2>1. SUFFICES ASSUME view.command = "list", ListedAs # "none", \A c \in Active : c.uid
                 PROVE  /\ label = "uid" => (ListedAs = "SSP" <=> \E c \in Active : c.of = "this")
                        /\ label = "name" /\ ListedAs = "SSP" => Cardinality({c.of : c \in Active}) = 1
    BY DEF UsageIsItsOwn, InUse, Active
  <2>2. state \in {"SSP", "ECP"} /\ ListedAs = state
    BY <2>1 DEF ListedAs
  <2>3. ListedAs = UsageOfNode
    BY <2>1, <2>2 DEF NodeInv, ListedByItsUsage
  <2>4. ASSUME label = "uid"
        PROVE  ListedAs = "SSP" <=> \E c \in Active : c.of = "this"
    BY <2>1, <2>3, <2>4 DEF UsageOfNode, Matches
  <2>5. ASSUME label = "name", ListedAs = "SSP"
        PROVE  Cardinality({c.of : c \in Active}) = 1
    <3> DEFINE tenants == {c.of : c \in Active}
    <3>1. PICK c \in Active : Matches(c)
      BY <2>3, <2>5 DEF UsageOfNode
    <3>2. ~Ambiguous
      BY <2>5, <3>1 DEF Matches
    <3>3. {Identity(d) : d \in Active} = tenants
      BY <2>1 DEF Identity
    <3>4. ~(Cardinality(tenants) > 1)
      BY <3>2, <3>3 DEF Ambiguous
    <3>5. tenants \subseteq {"this", "deleted", "other"}
      <4>1. \A d \in Active : d.of \in {"this", "deleted", "other"}
        BY DEF NodeInv, NodeTypes, Active, Clusters
      <4>2. QED
        BY <4>1
    <3>6. IsFiniteSet({"this", "deleted", "other"})
      <4>1. IsFiniteSet({"this"})
        BY FS_Singleton
      <4>2. IsFiniteSet({"this"} \cup {"deleted"})
        BY <4>1, FS_AddElement
      <4>3. IsFiniteSet(({"this"} \cup {"deleted"}) \cup {"other"})
        BY <4>2, FS_AddElement
      <4>4. ({"this"} \cup {"deleted"}) \cup {"other"} = {"this", "deleted", "other"}
        OBVIOUS
      <4>5. QED
        BY <4>3, <4>4
    <3>7. IsFiniteSet(tenants) /\ Cardinality(tenants) \in Nat
      BY <3>5, <3>6, FS_Subset, FS_CardinalityType
    <3>8. tenants # {}
      BY <3>1
    <3> HIDE DEF tenants
    <3>9. Cardinality(tenants) # 0
      BY <3>7, <3>8, FS_EmptySet
    <3>10. Cardinality(tenants) = 1
      BY <3>4, <3>7, <3>9
    <3>11. QED
      BY <3>10 DEF tenants
  <2>6. QED
    BY <2>4, <2>5
<1>2. QueuesAreItsOwn
  <2>1. SUFFICES ASSUME Scoped, state \in {"whole", "warned"}
                 PROVE  /\ \A q \in Row : q \in visited \/ (standing.elastic /\ q = 2)
                        /\ state = "whole" /\ visited \subseteq Queues /\ Cardinality(visited) = 1
                             => Row # {}
                        /\ state = "warned" /\ view.command = "scope" => ~NothingLeft
    BY DEF QueuesAreItsOwn
  <2>2. ASSUME state = "whole", visited \subseteq Queues, Cardinality(visited) = 1
        PROVE  Row # {}
    <3>1. IsFiniteSet(visited)
      <4>1. IsFiniteSet(Queues)
        <5>1. 1 \in Int /\ 2 \in Int
          OBVIOUS
        <5>2. QED
          BY <5>1, FS_Interval DEF Queues
      <4>2. QED
        BY <2>2, <4>1, FS_Subset
    <3>2. PICK q : visited = {q}
      BY <2>2, <3>1, FS_Singleton
    <3>3. q \in Queues /\ told[q] # "not here"
      BY <2>1, <2>2, <3>2 DEF NodeInv, QueuesSeen
    <3>4. told[q] = "here"
      BY <2>1, <2>2, <3>3 DEF NodeInv, QueuesSeen
    <3>5. QED
      BY <3>3, <3>4 DEF Row
  <2>3. QED
    BY <2>1, <2>2 DEF NodeInv, QueuesSeen, Row
<1>3. PodsAreThere
  BY DEF PodsAreThere, NodeInv, PodsSeen, Row, Queues, Namespaces0
<1>4. QED
  BY <1>1, <1>2, <1>3
-----------------------------------------------------------------------------
(***************************************************************************)
(* What is shown of queues: a card is always the card of one queue, or of  *)
(* the one made anew in its place, and never of both.                      *)
(***************************************************************************)
Tellings == {Untold} \cup (Posts \X {0, 1})

Marks == {"unread", "done", "group", "get", "chosen", "failed", "read", "listed"}

Listable == (Posts \X {0, 1}) \cup {<<Stranger, 0>>}

ViewTypes ==
  /\ held \in [uids : BOOLEAN, fate : {"same", "moved", "recreated"}, likely : BOOLEAN,
               there : SUBSET Namesakes, inventory : SUBSET Listable, read : BOOLEAN]
  /\ card \in [Posts -> [is : Marks, uid : Tellings, name : Tellings, ws : Tellings]]

NameAgrees(p) ==
  /\ card[p].name \in {Untold, <<p, 0>>, <<p, 1>>}
  /\ card[p].name = Untold \/ card[p].ws \in {Untold, card[p].name}

\* With a UID, all that is known is of the queue that has it.
Its(p) ==
  /\ NameAgrees(p)
  /\ card[p].uid \in (IF held.uids THEN {<<p, 0>>, <<p, 1>>} ELSE {Untold})
  /\ card[p].uid = <<p, 0>> /\ held.fate # "moved" => card[p].name \in {Untold, <<p, 0>>}
  /\ card[p].uid = <<p, 1>> => held.fate = "recreated" /\ card[p].name \in {Untold, <<p, 1>>}

QueueListInv ==
  viewing = "queue list" /\ next \in {"details", "shown"} => \A p \in Posts : Its(p)

\* The one that is meant, and what has been found out about the others.
Meant(p) ==
  /\ NameAgrees(p)
  /\ \A q \in Posts : card[q].is = "chosen" <=> q = p
  /\ \A q \in held.there \ {p} : card[q].is \in {"failed", "unread"}

QueueGetInv ==
  viewing = "queue get" =>
    /\ next \in {"resources", "workspaces", "likely", "all"} =>
         \A p \in Posts : card[p].is = "unread"
    /\ next \in {"details", "shown"} => \E p \in held.there : Meant(p)
    /\ next = "not found" => \A p \in held.there : card[p].is = "failed"

ViewInv == ViewTypes /\ QueueListInv /\ QueueGetInv /\ VCIsItsOwn

LEMMA TellingsDiffer ==
  /\ \A p, a : <<p, a>> # Untold
  /\ \A p : <<p, 0>> # <<p, 1>>
BY DEF Untold

LEMMA PostsAre == First \in Posts /\ Namesakes \subseteq Posts /\ Stranger \notin Posts
BY DEF First, Posts, Namesakes, Stranger

LEMMA AgeIs ==
  ASSUME NEW p \in Posts
  PROVE  /\ Age(p) \in {0, 1}
         /\ Age(p) = 1 <=> p = First /\ held.fate = "recreated"
BY DEF Age

LEMMA EntryIs ==
  ASSUME NEW p \in Posts, NEW g \in {0, 1}, NEW tells \in Tells, ViewTypes
  PROVE  /\ Entry(p, g, tells) \in [uid : Tellings, name : Tellings, ws : Tellings]
         /\ Entry(p, g, tells).uid = IF held.uids THEN <<p, g>> ELSE Untold
         /\ Entry(p, g, tells).name \in {Untold, <<p, 0>>, <<p, 1>>}
         /\ Entry(p, g, tells).ws \in {Untold, Entry(p, g, tells).name}
         /\ g = 1 => Entry(p, g, tells).name \in {Untold, <<p, 1>>}
         /\ g = 0 /\ held.fate # "moved" => Entry(p, g, tells).name \in {Untold, <<p, 0>>}
<1>1. Entry(p, g, tells) = [uid |-> Entry(p, g, tells).uid, name |-> Entry(p, g, tells).name,
                            ws |-> Entry(p, g, tells).ws]
  BY DEF Entry
<1>2. /\ Entry(p, g, tells).uid = IF held.uids THEN <<p, g>> ELSE Untold
      /\ Entry(p, g, tells).name = IF tells = "nothing" THEN Untold ELSE WorkspaceOf(p, g)
      /\ Entry(p, g, tells).ws = IF tells = "both" THEN WorkspaceOf(p, g) ELSE Untold
  BY DEF Entry
<1>3. /\ WorkspaceOf(p, g) \in {<<p, 0>>, <<p, 1>>}
      /\ g = 1 => WorkspaceOf(p, g) = <<p, 1>>
      /\ g = 0 /\ held.fate # "moved" => WorkspaceOf(p, g) = <<p, 0>>
  BY DEF WorkspaceOf
<1>4. <<p, 0>> \in Tellings /\ <<p, 1>> \in Tellings /\ <<p, g>> \in Tellings /\ Untold \in Tellings
  BY DEF Tellings
<1>5. QED
  BY <1>1, <1>2, <1>3, <1>4

\* Merging what was told of the same queue leaves its card its own.
LEMMA MergeAgrees ==
  ASSUME NEW p \in Posts, NEW g \in {0, 1}, NEW tells \in Tells, ViewTypes, NameAgrees(p),
         NEW c, c = MergeQueueWorkspace(card[p], Entry(p, g, tells))
  PROVE  /\ c \in [is : Marks, uid : Tellings, name : Tellings, ws : Tellings]
         /\ c.is = "done" /\ c.uid = card[p].uid
         /\ c.name \in {Untold, <<p, 0>>, <<p, 1>>}
         /\ c.name = Untold \/ c.ws \in {Untold, c.name}
         /\ c.name \in {card[p].name, Entry(p, g, tells).name}
<1> DEFINE e == Entry(p, g, tells)
           item == card[p]
<1>1. /\ e \in [uid : Tellings, name : Tellings, ws : Tellings]
      /\ e.name \in {Untold, <<p, 0>>, <<p, 1>>}
      /\ e.ws \in {Untold, e.name}
  BY EntryIs
<1>2. item \in [is : Marks, uid : Tellings, name : Tellings, ws : Tellings]
  BY DEF ViewTypes
<1>3. /\ item.name \in {Untold, <<p, 0>>, <<p, 1>>}
      /\ item.name = Untold \/ item.ws \in {Untold, item.name}
  BY DEF NameAgrees
<1> HIDE DEF e, item
<1>4. /\ c = [is |-> "done", uid |-> item.uid, name |-> c.name, ws |-> c.ws]
      /\ c.name = IF e.name # Untold THEN e.name ELSE item.name
      /\ c.ws = IF e.ws # Untold THEN e.ws
                ELSE IF e.name \notin {Untold, item.name} THEN Untold ELSE item.ws
  BY DEF MergeQueueWorkspace, e, item
<1>5. c.name \in Tellings /\ c.ws \in Tellings /\ Untold \in Tellings
  BY <1>1, <1>2, <1>4 DEF Tellings
<1>6. c.name = Untold \/ c.ws \in {Untold, c.name}
  BY <1>1, <1>3, <1>4
<1>7. c \in [is : Marks, uid : Tellings, name : Tellings, ws : Tellings]
      /\ c.is = "done" /\ c.uid = item.uid
  <2>1. "done" \in Marks /\ item.uid \in Tellings
    BY <1>2 DEF Marks
  <2>2. QED
    BY <1>4, <1>5, <2>1
<1>8. c.name \in {Untold, <<p, 0>>, <<p, 1>>} /\ c.name \in {item.name, e.name}
  BY <1>1, <1>3, <1>4
<1>9. QED
  BY <1>6, <1>7, <1>8 DEF e, item

LEMMA MergeKeeps ==
  ASSUME NEW p \in Posts, NEW g \in {0, 1}, NEW tells \in Tells, ViewTypes, Its(p),
         g = 1 => held.fate = "recreated",
         SameIdentity(card[p], Entry(p, g, tells)),
         card'[p] = MergeQueueWorkspace(card[p], Entry(p, g, tells)), UNCHANGED held
  PROVE  Its(p)'
<1> DEFINE e == Entry(p, g, tells)
<1>1. /\ e.uid = IF held.uids THEN <<p, g>> ELSE Untold
      /\ g = 1 => e.name \in {Untold, <<p, 1>>}
      /\ g = 0 /\ held.fate # "moved" => e.name \in {Untold, <<p, 0>>}
  BY EntryIs
<1>2. /\ card'[p].uid = card[p].uid
      /\ card'[p].name \in {Untold, <<p, 0>>, <<p, 1>>}
      /\ card'[p].name = Untold \/ card'[p].ws \in {Untold, card'[p].name}
      /\ card'[p].name \in {card[p].name, e.name}
  BY MergeAgrees DEF Its
<1>3. /\ card[p].uid \in (IF held.uids THEN {<<p, 0>>, <<p, 1>>} ELSE {Untold})
      /\ card[p].uid = <<p, 0>> /\ held.fate # "moved" => card[p].name \in {Untold, <<p, 0>>}
      /\ card[p].uid = <<p, 1>> => held.fate = "recreated" /\ card[p].name \in {Untold, <<p, 1>>}
  BY DEF Its
<1>4. card[p].uid = Untold \/ e.uid = Untold \/ card[p].uid = e.uid
  BY DEF SameIdentity
<1> HIDE DEF e
<1>5. /\ card[p].uid = <<p, 0>> => g = 0
      /\ card[p].uid = <<p, 1>> => g = 1
  BY <1>1, <1>3, <1>4, TellingsDiffer
<1>6. NameAgrees(p)'
  BY <1>2 DEF NameAgrees
<1>7. QED
  BY <1>1, <1>2, <1>3, <1>5, <1>6 DEF Its

LEMMA ViewInitInv == ViewInit => ViewInv
<1> SUFFICES ASSUME ViewInit PROVE ViewInv
  OBVIOUS
<1>1. card = [p \in Posts |-> Blank]
      /\ next = IF viewing = "ws get" THEN "reading" ELSE "resources"
  BY DEF ViewInit
<1>2. held \in [uids : BOOLEAN, fate : {"same", "moved", "recreated"}, likely : BOOLEAN,
               there : SUBSET Namesakes, inventory : SUBSET Listable, read : BOOLEAN]
  BY DEF ViewInit
<1>3. card \in [Posts -> [is : Marks, uid : Tellings, name : Tellings, ws : Tellings]]
  BY <1>1 DEF Blank, Tellings, Marks
<1>4. \A p \in Posts : card[p].is = "unread"
  BY <1>1 DEF Blank
<1>5. QED
  BY <1>1, <1>2, <1>3, <1>4 DEF ViewInv, ViewTypes, QueueListInv, QueueGetInv, VCIsItsOwn

\* Where the queue goes, its cards stay: they are of the queue that was.
LEMMA ChangeQueueNext == ViewInv /\ ChangeQueue => ViewInv'
<1> SUFFICES ASSUME ViewInv, ChangeQueue PROVE ViewInv'
  OBVIOUS
<1>1. PICK fate \in {"moved", "recreated"} : held' = [held EXCEPT !.fate = fate]
  BY DEF ChangeQueue
<1>2. held.fate = "same" /\ next \notin Ended /\ UNCHANGED <<viewing, card, next>>
  BY DEF ChangeQueue
<1>3. /\ held' \in [uids : BOOLEAN, fate : {"same", "moved", "recreated"}, likely : BOOLEAN,
                    there : SUBSET Namesakes, inventory : SUBSET Listable, read : BOOLEAN]
      /\ held'.uids = held.uids /\ held'.there = held.there /\ held'.fate = fate
      /\ held'.inventory = held.inventory
  BY <1>1 DEF ViewInv, ViewTypes
<1>4. ViewTypes'
  BY <1>2, <1>3 DEF ViewInv, ViewTypes
<1>5. ASSUME NEW p \in Posts, Its(p)
      PROVE  Its(p)'
  BY <1>1, <1>2, <1>3, <1>5 DEF Its, NameAgrees
<1>6. QueueListInv'
  BY <1>2, <1>5 DEF ViewInv, QueueListInv
<1>7. ASSUME NEW p, Meant(p)
      PROVE  Meant(p)'
  BY <1>2, <1>3, <1>7 DEF Meant, NameAgrees
<1>8. QueueGetInv'
  BY <1>2, <1>3, <1>7 DEF ViewInv, QueueGetInv
<1>9. VCIsItsOwn'
  BY <1>2 DEF VCIsItsOwn, Ended
<1>10. QED
  BY <1>4, <1>6, <1>8, <1>9 DEF ViewInv

\* A command that fails, or only goes on, says nothing.
LEMMA GoesOn ==
  ASSUME ViewInv, NEW s, Goes(s), s \in {"failed", "workspaces", "likely", "all"},
         s # "failed" => viewing = "queue get"
                         /\ next \in {"resources", "workspaces", "likely", "all"}
  PROVE  ViewInv'
<1>1. UNCHANGED <<viewing, held, card>> /\ next' = s
  BY DEF Goes
<1>2. ViewTypes'
  BY <1>1 DEF ViewInv, ViewTypes
<1>3. QueueListInv'
  BY <1>1 DEF QueueListInv
<1>4. QueueGetInv'
  BY <1>1 DEF ViewInv, QueueGetInv
<1>5. VCIsItsOwn'
  BY <1>1 DEF VCIsItsOwn
<1>6. QED
  BY <1>2, <1>3, <1>4, <1>5 DEF ViewInv

\* A step of queue list that has learned only what is each queue's own.
LEMMA ListLearns ==
  ASSUME ViewInv, viewing = "queue list", NEW cards, Learn(cards, "details"),
         cards \in [Posts -> [is : Marks, uid : Tellings, name : Tellings, ws : Tellings]],
         \A p \in Posts : Its(p)'
  PROVE  ViewInv'
<1>1. UNCHANGED <<viewing, held>> /\ next' = "details" /\ card' = cards
  BY DEF Learn
<1>2. ViewTypes'
  BY <1>1 DEF ViewInv, ViewTypes
<1>3. QueueListInv' /\ QueueGetInv' /\ VCIsItsOwn'
  BY <1>1 DEF QueueListInv, QueueGetInv, VCIsItsOwn
<1>4. QED
  BY <1>2, <1>3 DEF ViewInv

LEMMA ListResourcesNext == ViewInv /\ ListResources => ViewInv'
<1> SUFFICES ASSUME ViewInv, ListResources PROVE ViewInv'
  OBVIOUS
<1>1. CASE Goes("failed")
  BY <1>1, GoesOn
<1>2. ASSUME NEW tells \in [Posts -> Tells], NEW idle \in SUBSET {<<"b", 1>>},
             LET listed == [p \in Posts |-> Entry(p, Age(p), tells[p])]
                 needed == Needed(listed, idle)
                 IsIn(p) == IF p \notin needed THEN "done"
                            ELSE IF \E q \in needed \ {p} : q[2] = p[2] THEN "group"
                            ELSE "get"
             IN Learn([p \in Posts |-> Known(IsIn(p), listed[p])], "details")
      PROVE  ViewInv'
  <2> DEFINE listed == [p \in Posts |-> Entry(p, Age(p), tells[p])]
             needed == Needed(listed, idle)
             IsIn(p) == IF p \notin needed THEN "done"
                        ELSE IF \E q \in needed \ {p} : q[2] = p[2] THEN "group"
                        ELSE "get"
             cards == [p \in Posts |-> Known(IsIn(p), listed[p])]
  <2>1. Learn(cards, "details")
    BY <1>2
  <2>2. \A p \in Posts : IsIn(p) \in Marks
    BY DEF Marks
  <2> HIDE DEF IsIn, needed
  <2>3. ViewTypes
    BY DEF ViewInv
  <2>4. ASSUME NEW p \in Posts
        PROVE  /\ cards[p].uid = Entry(p, Age(p), tells[p]).uid
               /\ cards[p].name = Entry(p, Age(p), tells[p]).name
               /\ cards[p].ws = Entry(p, Age(p), tells[p]).ws
               /\ cards[p] \in [is : Marks, uid : Tellings, name : Tellings, ws : Tellings]
    <3>1. Entry(p, Age(p), tells[p]) \in [uid : Tellings, name : Tellings, ws : Tellings]
      BY <2>3, AgeIs, EntryIs
    <3>2. cards[p] = [is |-> IsIn(p), uid |-> Entry(p, Age(p), tells[p]).uid,
                      name |-> Entry(p, Age(p), tells[p]).name,
                      ws |-> Entry(p, Age(p), tells[p]).ws]
      BY DEF Known
    <3>3. QED
      BY <2>2, <3>1, <3>2
  <2>5. cards \in [Posts -> [is : Marks, uid : Tellings, name : Tellings, ws : Tellings]]
    BY <2>4
  <2> HIDE DEF cards
  <2>6. card' = cards /\ UNCHANGED held
    BY <2>1 DEF Learn
  <2>7. ASSUME NEW p \in Posts
        PROVE  Its(p)'
    <3>1. /\ card'[p].uid = IF held.uids THEN <<p, Age(p)>> ELSE Untold
          /\ card'[p].name \in {Untold, <<p, 0>>, <<p, 1>>}
          /\ card'[p].ws \in {Untold, card'[p].name}
          /\ Age(p) = 1 => card'[p].name \in {Untold, <<p, 1>>}
          /\ Age(p) = 0 /\ held.fate # "moved" => card'[p].name \in {Untold, <<p, 0>>}
      <4>1. Age(p) \in {0, 1} /\ tells[p] \in Tells
        BY AgeIs
      <4>2. /\ Entry(p, Age(p), tells[p]).uid = IF held.uids THEN <<p, Age(p)>> ELSE Untold
            /\ Entry(p, Age(p), tells[p]).name \in {Untold, <<p, 0>>, <<p, 1>>}
            /\ Entry(p, Age(p), tells[p]).ws \in {Untold, Entry(p, Age(p), tells[p]).name}
            /\ Age(p) = 1 => Entry(p, Age(p), tells[p]).name \in {Untold, <<p, 1>>}
            /\ Age(p) = 0 /\ held.fate # "moved" =>
                 Entry(p, Age(p), tells[p]).name \in {Untold, <<p, 0>>}
        BY <2>3, <4>1, EntryIs
      <4>3. QED
        BY <2>4, <2>6, <4>2
    <3>2. NameAgrees(p)'
      BY <3>1 DEF NameAgrees
    <3>3. CASE Age(p) = 0
      BY <2>6, <3>1, <3>2, <3>3, TellingsDiffer DEF Its
    <3>4. CASE Age(p) = 1
      <4>1. held.fate = "recreated"
        BY <3>4, AgeIs
      <4>2. QED
        BY <2>6, <3>1, <3>2, <3>4, <4>1, TellingsDiffer DEF Its
    <3>5. QED
      BY <3>3, <3>4, AgeIs
  <2>8. QED
    BY <2>1, <2>5, <2>7, ListLearns DEF ListResources
<1>3. QED
  BY <1>1, <1>2 DEF ListResources

LEMMA ReadDetailNext == ASSUME NEW p \in Posts PROVE ViewInv /\ ReadDetail(p) => ViewInv'
<1> SUFFICES ASSUME ViewInv, ReadDetail(p) PROVE ViewInv'
  OBVIOUS
<1>1. CASE Goes("failed")
  BY <1>1, GoesOn
<1>2. ASSUME NEW tells \in Tells, SameIdentity(card[p], Entry(p, Age(p), tells)),
             Learn([card EXCEPT ![p] = MergeQueueWorkspace(card[p], Entry(p, Age(p), tells))], "details")
      PROVE  ViewInv'
  <2> DEFINE c == MergeQueueWorkspace(card[p], Entry(p, Age(p), tells))
  <2>1. /\ viewing = "queue list" /\ ViewTypes /\ \A q \in Posts : Its(q)
        /\ Age(p) \in {0, 1} /\ (Age(p) = 1 => held.fate = "recreated")
    BY AgeIs DEF ViewInv, QueueListInv, ReadDetail
  <2>2. c \in [is : Marks, uid : Tellings, name : Tellings, ws : Tellings]
    BY <2>1, MergeAgrees DEF Its
  <2>3. Learn([card EXCEPT ![p] = c], "details")
    BY <1>2
  <2> HIDE DEF c
  <2>4. card' = [card EXCEPT ![p] = c] /\ UNCHANGED held
    BY <2>3 DEF Learn
  <2>5. card \in [Posts -> [is : Marks, uid : Tellings, name : Tellings, ws : Tellings]]
    BY <2>1 DEF ViewTypes
  <2>6. [card EXCEPT ![p] = c] \in [Posts -> [is : Marks, uid : Tellings, name : Tellings, ws : Tellings]]
    BY <2>2, <2>5
  <2>7. Its(p)'
    <3>1. card'[p] = c
      BY <2>4, <2>5
    <3>2. QED
      BY <1>2, <2>1, <2>4, <3>1, MergeKeeps DEF c
  <2>8. ASSUME NEW q \in Posts, q # p
        PROVE  Its(q)'
    <3>1. card'[q] = card[q]
      BY <2>4, <2>5, <2>8
    <3>2. Its(q)
      BY <2>1
    <3>3. QED
      BY <2>4, <3>1, <3>2 DEF Its, NameAgrees
  <2>9. QED
    BY <2>1, <2>3, <2>6, <2>7, <2>8, ListLearns
<1>3. QED
  BY <1>1, <1>2 DEF ReadDetail

LEMMA ReadDetailGroupNext == ViewInv /\ ReadDetailGroup => ViewInv'
<1> SUFFICES ASSUME ViewInv, ReadDetailGroup PROVE ViewInv'
  OBVIOUS
<1>1. CASE Goes("failed")
  BY <1>1, GoesOn
<1> DEFINE group == {p \in Posts : card[p].is = "group"}
<1>2. ASSUME NEW tells \in Tells, NEW ages \in SUBSET (0 .. Age(First)),
             LET Ages(p) == IF p = First THEN ages ELSE {0}
                 FoundOf(p) == {e \in FromList(card[p], Ages(p),
                                             [g \in Ages(p) |-> Entry(p, g, tells)])
                                : ~Incomplete(e)}
             IN /\ ~\E p \in group : \E e \in FoundOf(p) : ~SameIdentity(card[p], e)
                /\ Learn([p \in Posts |->
                            IF p \notin group THEN card[p]
                            ELSE IF FoundOf(p) = {} THEN [card[p] EXCEPT !.is = "get"]
                            ELSE MergeQueueWorkspace(card[p], CHOOSE e \in FoundOf(p) : TRUE)],
                         "details")
      PROVE  ViewInv'
  <2> DEFINE Ages(p) == IF p = First THEN ages ELSE {0}
             FoundOf(p) == {e \in FromList(card[p], Ages(p), [g \in Ages(p) |-> Entry(p, g, tells)])
                            : ~Incomplete(e)}
             chosen(p) == CHOOSE e \in FoundOf(p) : TRUE
             Card(p) == IF p \notin group THEN card[p]
                        ELSE IF FoundOf(p) = {} THEN [card[p] EXCEPT !.is = "get"]
                        ELSE MergeQueueWorkspace(card[p], chosen(p))
             cards == [p \in Posts |-> Card(p)]
  <2>1. /\ \A p \in group : \A e \in FoundOf(p) : SameIdentity(card[p], e)
        /\ Learn(cards, "details")
    BY <1>2
  <2>2. /\ viewing = "queue list" /\ ViewTypes /\ \A p \in Posts : Its(p)
    BY DEF ViewInv, QueueListInv, ReadDetailGroup
  <2>3. ASSUME NEW p \in Posts, NEW e \in FoundOf(p)
        PROVE  \E g \in {0, 1} : /\ e = Entry(p, g, tells)
                                 /\ g = 1 => held.fate = "recreated"
    <3>1. Ages(p) \subseteq {0, 1} /\ (1 \in Ages(p) => held.fate = "recreated")
      BY PostsAre DEF Age
    <3> HIDE DEF Ages
    <3>2. PICK g \in Ages(p) : e = [h \in Ages(p) |-> Entry(p, h, tells)][g]
      BY DEF FromList
    <3>3. QED
      BY <3>1, <3>2
  <2>4. \A p \in Posts : FoundOf(p) # {} => chosen(p) \in FoundOf(p)
    OBVIOUS
  <2> HIDE DEF FoundOf, Ages, chosen
  <2>5. UNCHANGED held /\ card' = cards
    BY <2>1 DEF Learn
  <2>6. ASSUME NEW p \in Posts
        PROVE  /\ Card(p) \in [is : Marks, uid : Tellings, name : Tellings, ws : Tellings]
               /\ card'[p] = Card(p) => Its(p)'
    <3>1. card[p] \in [is : Marks, uid : Tellings, name : Tellings, ws : Tellings] /\ Its(p)
      BY <2>2 DEF ViewTypes
    <3>2. CASE p \notin group
      BY <2>5, <3>1, <3>2 DEF Its, NameAgrees
    <3>3. CASE p \in group /\ FoundOf(p) = {}
      <4>1. Card(p) = [card[p] EXCEPT !.is = "get"]
        BY <3>3
      <4>2. /\ Card(p) \in [is : Marks, uid : Tellings, name : Tellings, ws : Tellings]
            /\ Card(p).uid = card[p].uid /\ Card(p).name = card[p].name /\ Card(p).ws = card[p].ws
        BY <3>1, <4>1 DEF Marks
      <4>3. QED
        BY <2>5, <3>1, <4>2 DEF Its, NameAgrees
    <3>4. CASE p \in group /\ FoundOf(p) # {}
      <4>1. PICK g \in {0, 1} : /\ chosen(p) = Entry(p, g, tells)
                                /\ g = 1 => held.fate = "recreated"
        BY <2>3, <2>4, <3>4
      <4>2. SameIdentity(card[p], Entry(p, g, tells))
        BY <2>1, <2>4, <3>4, <4>1
      <4>3. Card(p) = MergeQueueWorkspace(card[p], Entry(p, g, tells))
        BY <3>4, <4>1
      <4>4. Card(p) \in [is : Marks, uid : Tellings, name : Tellings, ws : Tellings]
        <5>1. NameAgrees(p) /\ ViewTypes
          BY <2>2, <3>1 DEF Its
        <5>2. MergeQueueWorkspace(card[p], Entry(p, g, tells))
                \in [is : Marks, uid : Tellings, name : Tellings, ws : Tellings]
          BY <5>1, MergeAgrees
        <5>3. QED
          BY <4>3, <5>2
      <4>5. card'[p] = Card(p) => Its(p)'
        BY <2>2, <2>5, <3>1, <4>1, <4>2, <4>3, MergeKeeps
      <4>6. QED
        BY <4>4, <4>5
    <3>5. QED
      BY <3>2, <3>3, <3>4
  <2> HIDE DEF Card
  <2>7. cards \in [Posts -> [is : Marks, uid : Tellings, name : Tellings, ws : Tellings]]
    BY <2>6
  <2>8. \A p \in Posts : Its(p)'
    BY <2>5, <2>6
  <2>9. QED
    BY <2>1, <2>2, <2>7, <2>8, ListLearns
<1>3. QED
  BY <1>1, <1>2 DEF ReadDetailGroup

LEMMA ShowQueuesNext == ViewInv /\ ShowQueues => ViewInv'
<1> SUFFICES ASSUME ViewInv, ShowQueues PROVE ViewInv'
  OBVIOUS
<1>1. /\ viewing = "queue list" /\ next = "details" /\ next' = "shown"
      /\ UNCHANGED <<viewing, held, card>>
  BY DEF ShowQueues, Goes
<1>2. ViewTypes' /\ QueueGetInv' /\ VCIsItsOwn'
  BY <1>1 DEF ViewInv, ViewTypes, QueueGetInv, VCIsItsOwn
<1>3. \A p \in Posts : Its(p)'
  BY <1>1 DEF ViewInv, QueueListInv, Its, NameAgrees
<1>4. QED
  BY <1>2, <1>3 DEF ViewInv, QueueListInv

\* A step of queue get after which one queue is meant, or none has been found.
LEMMA GetLearns ==
  ASSUME ViewInv, viewing = "queue get", NEW cards, NEW s, Learn(cards, s),
         cards \in [Posts -> [is : Marks, uid : Tellings, name : Tellings, ws : Tellings]],
         \/ s \in {"details", "shown"} /\ \E p \in held.there : Meant(p)'
         \/ s = "not found" /\ \A p \in held.there : cards[p].is = "failed"
         \/ s = "ambiguous"
  PROVE  ViewInv'
<1>1. UNCHANGED <<viewing, held>> /\ next' = s /\ card' = cards
  BY DEF Learn
<1>2. ViewTypes'
  BY <1>1 DEF ViewInv, ViewTypes
<1>3. QueueListInv' /\ VCIsItsOwn'
  BY <1>1 DEF QueueListInv, VCIsItsOwn
<1>4. QueueGetInv'
  BY <1>1 DEF QueueGetInv
<1>5. QED
  BY <1>2, <1>3, <1>4 DEF ViewInv

\* The first thing that is known of a queue.
LEMMA FirstKnown ==
  ASSUME NEW p \in Posts, NEW tells \in Tells, ViewTypes, NEW mark \in Marks, NEW c,
         c = Known(mark, Entry(p, Age(p), tells))
  PROVE  /\ c \in [is : Marks, uid : Tellings, name : Tellings, ws : Tellings]
         /\ c.is = mark
         /\ c.name \in {Untold, <<p, 0>>, <<p, 1>>}
         /\ c.name = Untold \/ c.ws \in {Untold, c.name}
<1>1. Age(p) \in {0, 1}
  BY AgeIs
<1> DEFINE e == Entry(p, Age(p), tells)
<1>2. /\ e \in [uid : Tellings, name : Tellings, ws : Tellings]
      /\ e.name \in {Untold, <<p, 0>>, <<p, 1>>} /\ e.ws \in {Untold, e.name}
  BY <1>1, EntryIs
<1>3. c = [is |-> mark, uid |-> e.uid, name |-> e.name, ws |-> e.ws]
  BY DEF Known
<1> HIDE DEF e
<1>4. QED
  BY <1>2, <1>3

\* One queue alone has been found.
LEMMA OneIsMeant ==
  ASSUME ViewInv, viewing = "queue get", NEW p \in held.there, NEW cards, NEW s \in {"details", "shown"},
         Learn(cards, s),
         cards \in [Posts -> [is : Marks, uid : Tellings, name : Tellings, ws : Tellings]],
         cards[p].is = "chosen",
         cards[p].name \in {Untold, <<p, 0>>, <<p, 1>>},
         cards[p].name = Untold \/ cards[p].ws \in {Untold, cards[p].name},
         \A q \in Posts \ {p} : cards[q].is # "chosen",
         \A q \in held.there \ {p} : cards[q].is \in {"failed", "unread"}
  PROVE  ViewInv'
<1>1. card' = cards /\ UNCHANGED held
  BY DEF Learn
<1>2. held.there \subseteq Posts
  BY PostsAre DEF ViewInv, ViewTypes
<1>3. Meant(p)'
  BY <1>1, <1>2 DEF Meant, NameAgrees
<1>4. QED
  BY <1>3, GetLearns

LEMMA FindResourceOfQueueNext == ViewInv /\ FindResourceOfQueue => ViewInv'
<1> SUFFICES ASSUME ViewInv, FindResourceOfQueue PROVE ViewInv'
  OBVIOUS
<1>1. CASE Goes("workspaces")
  BY <1>1, GoesOn DEF FindResourceOfQueue
<1>2. ASSUME NEW p \in held.there, NEW tells \in Tells, NEW s \in {"details", "shown"},
             Learn([card EXCEPT ![p] = Known("chosen", Entry(p, Age(p), tells))], s)
      PROVE  ViewInv'
  <2>1. /\ viewing = "queue get" /\ ViewTypes /\ p \in Posts /\ "chosen" \in Marks
        /\ card \in [Posts -> [is : Marks, uid : Tellings, name : Tellings, ws : Tellings]]
        /\ \A q \in Posts : card[q].is = "unread"
        /\ held.there \subseteq Posts
    BY PostsAre DEF ViewInv, ViewTypes, QueueGetInv, FindResourceOfQueue, Marks
  <2> DEFINE c == Known("chosen", Entry(p, Age(p), tells))
             cards == [card EXCEPT ![p] = c]
  <2>2. /\ c \in [is : Marks, uid : Tellings, name : Tellings, ws : Tellings]
        /\ c.is = "chosen"
        /\ c.name \in {Untold, <<p, 0>>, <<p, 1>>}
        /\ c.name = Untold \/ c.ws \in {Untold, c.name}
    BY <2>1, FirstKnown
  <2>3. Learn(cards, s)
    BY <1>2
  <2> HIDE DEF c
  <2>4. /\ cards \in [Posts -> [is : Marks, uid : Tellings, name : Tellings, ws : Tellings]]
        /\ cards[p] = c /\ \A q \in Posts \ {p} : cards[q] = card[q]
    BY <2>1, <2>2
  <2> HIDE DEF cards
  <2>5. /\ \A q \in Posts \ {p} : cards[q].is # "chosen"
        /\ \A q \in held.there \ {p} : cards[q].is \in {"failed", "unread"}
    BY <2>1, <2>4
  <2>6. /\ cards[p].is = "chosen"
        /\ cards[p].name \in {Untold, <<p, 0>>, <<p, 1>>}
        /\ cards[p].name = Untold \/ cards[p].ws \in {Untold, cards[p].name}
    BY <2>2, <2>4
  <2>7. QED
    <3>1. CASE s = "details"
      BY <1>2, <2>1, <2>3, <2>4, <2>5, <2>6, <3>1, OneIsMeant
    <3>2. CASE s = "shown"
      BY <1>2, <2>1, <2>3, <2>4, <2>5, <2>6, <3>2, OneIsMeant
    <3>3. QED
      BY <1>2, <3>1, <3>2
<1>3. QED
  BY <1>1, <1>2 DEF FindResourceOfQueue

LEMMA ReadLikelyNext == ViewInv /\ ReadLikely => ViewInv'
<1> SUFFICES ASSUME ViewInv, ReadLikely PROVE ViewInv'
  OBVIOUS
<1>1. CASE Goes("all")
  BY <1>1, GoesOn DEF ReadLikely
<1>2. CASE First \in held.there /\ Learn(ReadWorkspaceQueues(First, "chosen"), "details")
  <2>1. /\ viewing = "queue get" /\ ViewTypes /\ "chosen" \in Marks /\ First \in Posts
        /\ card \in [Posts -> [is : Marks, uid : Tellings, name : Tellings, ws : Tellings]]
        /\ \A q \in Posts : card[q].is = "unread"
        /\ held.there \subseteq Posts
    BY PostsAre DEF ViewInv, ViewTypes, QueueGetInv, ReadLikely, Marks
  <2> DEFINE c == Known("chosen", Entry(First, Age(First), "both"))
             cards == [card EXCEPT ![First] = c]
  <2>2. /\ c \in [is : Marks, uid : Tellings, name : Tellings, ws : Tellings]
        /\ c.is = "chosen"
        /\ c.name \in {Untold, <<First, 0>>, <<First, 1>>}
        /\ c.name = Untold \/ c.ws \in {Untold, c.name}
    <3>1. "both" \in Tells
      BY DEF Tells
    <3>2. QED
      BY <2>1, <3>1, FirstKnown
  <2>3. Learn(cards, "details")
    BY <1>2 DEF ReadWorkspaceQueues
  <2> HIDE DEF c
  <2>4. /\ cards \in [Posts -> [is : Marks, uid : Tellings, name : Tellings, ws : Tellings]]
        /\ cards[First] = c /\ \A q \in Posts \ {First} : cards[q] = card[q]
    BY <2>1, <2>2
  <2> HIDE DEF cards
  <2>5. /\ \A q \in Posts \ {First} : cards[q].is # "chosen"
        /\ \A q \in held.there \ {First} : cards[q].is \in {"failed", "unread"}
    BY <2>1, <2>4
  <2>6. QED
    BY <1>2, <2>1, <2>2, <2>3, <2>4, <2>5, OneIsMeant
<1>3. QED
  BY <1>1, <1>2 DEF ReadLikely

\* The queues of the workspaces that could be read.
LEMMA ReadAllWorkspacesNext == ViewInv /\ ReadAllWorkspaces => ViewInv'
<1> SUFFICES ASSUME ViewInv, ReadAllWorkspaces PROVE ViewInv'
  OBVIOUS
<1>1. PICK failing \in SUBSET Namesakes :
        LET found == held.there \ failing
            readings == [p \in Posts |-> IF p \in failing THEN [Blank EXCEPT !.is = "failed"]
                                     ELSE IF p \in found THEN Known("read", Entry(p, Age(p), "both"))
                                     ELSE card[p]]
        IN CASE failing = Namesakes -> Goes("failed")
             [] failing # Namesakes /\ found = {} -> Learn(readings, "not found")
             [] Cardinality(found) > 1 -> Learn(readings, "ambiguous")
             [] OTHER -> LET p == CHOOSE p \in found : TRUE
                         IN Learn([readings EXCEPT ![p].is = "chosen"], "details")
  BY DEF ReadAllWorkspaces
<1> DEFINE found == held.there \ failing
           readings == [p \in Posts |-> IF p \in failing THEN [Blank EXCEPT !.is = "failed"]
                                    ELSE IF p \in found THEN Known("read", Entry(p, Age(p), "both"))
                                    ELSE card[p]]
           one == CHOOSE p \in found : TRUE
           cards == [readings EXCEPT ![one].is = "chosen"]
<1>2. (CASE failing = Namesakes -> Goes("failed")
         [] failing # Namesakes /\ found = {} -> Learn(readings, "not found")
         [] Cardinality(found) > 1 -> Learn(readings, "ambiguous")
         [] OTHER -> Learn(cards, "details"))
  BY <1>1
<1>3. /\ viewing = "queue get" /\ ViewTypes
      /\ card \in [Posts -> [is : Marks, uid : Tellings, name : Tellings, ws : Tellings]]
      /\ \A q \in Posts : card[q].is = "unread"
      /\ held.there \subseteq Namesakes /\ held.there \subseteq Posts
  BY PostsAre DEF ViewInv, ViewTypes, QueueGetInv, ReadAllWorkspaces
<1>4. ASSUME NEW p \in Posts
      PROVE  /\ readings[p] \in [is : Marks, uid : Tellings, name : Tellings, ws : Tellings]
             /\ p \in failing => readings[p].is = "failed"
             /\ p \in found => /\ readings[p].is = "read"
                               /\ readings[p].name \in {Untold, <<p, 0>>, <<p, 1>>}
                               /\ \/ readings[p].name = Untold
                                  \/ readings[p].ws \in {Untold, readings[p].name}
             /\ p \notin failing /\ p \notin found => readings[p].is = "unread"
  <2>1. CASE p \in failing
    <3>1. readings[p] = [is |-> "failed", uid |-> Untold, name |-> Untold, ws |-> Untold]
      BY <2>1 DEF Blank
    <3>2. QED
      BY <2>1, <3>1 DEF Tellings, Marks
  <2>2. CASE p \in found
    <3>1. readings[p] = Known("read", Entry(p, Age(p), "both"))
      BY <2>2
    <3>2. "both" \in Tells /\ "read" \in Marks
      BY DEF Tells, Marks
    <3>3. \A c : c = Known("read", Entry(p, Age(p), "both")) =>
                 /\ c \in [is : Marks, uid : Tellings, name : Tellings, ws : Tellings]
                 /\ c.is = "read"
                 /\ c.name \in {Untold, <<p, 0>>, <<p, 1>>}
                 /\ c.name = Untold \/ c.ws \in {Untold, c.name}
      <4> SUFFICES ASSUME NEW c, c = Known("read", Entry(p, Age(p), "both"))
                   PROVE  /\ c \in [is : Marks, uid : Tellings, name : Tellings, ws : Tellings]
                          /\ c.is = "read"
                          /\ c.name \in {Untold, <<p, 0>>, <<p, 1>>}
                          /\ c.name = Untold \/ c.ws \in {Untold, c.name}
        OBVIOUS
      <4> HIDE DEF readings, found, one, cards
      <4>1. ViewTypes /\ p \in Posts
        BY <1>3, <1>4
      <4>2. QED
        BY <3>2, <4>1, FirstKnown
    <3> HIDE DEF readings, found
    <3>4. p \notin failing
      BY <2>2 DEF found
    <3>5. QED
      BY <2>2, <3>1, <3>3, <3>4
  <2>3. CASE p \notin failing /\ p \notin found
    <3>1. readings[p] = card[p]
      BY <2>3
    <3>2. QED
      BY <1>3, <2>3, <3>1
  <2>4. QED
    BY <2>1, <2>2, <2>3
<1>5. readings \in [Posts -> [is : Marks, uid : Tellings, name : Tellings, ws : Tellings]]
  BY <1>4
<1>6. found # {} => one \in found
  OBVIOUS
<1>7. found \subseteq Posts /\ IsFiniteSet(found)
  <2>1. IsFiniteSet(Namesakes)
    <3>1. IsFiniteSet({<<"a", 1>>})
      BY FS_Singleton
    <3>2. IsFiniteSet({<<"a", 1>>} \cup {<<"a", 2>>})
      BY <3>1, FS_AddElement
    <3>3. {<<"a", 1>>} \cup {<<"a", 2>>} = Namesakes
      BY DEF Namesakes
    <3>4. QED
      BY <3>2, <3>3
  <2>2. QED
    BY <1>3, <2>1, FS_Subset
<1> HIDE DEF readings, one
<1>8. CASE failing = Namesakes
  <2>1. found = {} /\ ~(Cardinality(found) > 1)
    <3>1. found = {}
      BY <1>3, <1>8
    <3> HIDE DEF found
    <3>2. QED
      BY <3>1, FS_EmptySet
  <2>2. Goes("failed")
    BY <1>2, <1>8, <2>1
  <2>3. QED
    BY <2>2, GoesOn
<1>9. CASE failing # Namesakes /\ found = {}
  <2>1. ~(Cardinality(found) > 1)
    BY <1>9, FS_EmptySet
  <2>2. Learn(readings, "not found")
    BY <1>2, <1>9, <2>1
  <2>3. \A p \in held.there : readings[p].is = "failed"
    BY <1>3, <1>4, <1>9
  <2>4. QED
    BY <1>3, <1>5, <2>2, <2>3, GetLearns
<1>10. CASE failing # Namesakes /\ found # {} /\ Cardinality(found) > 1
  <2>1. Learn(readings, "ambiguous")
    BY <1>2, <1>10
  <2>2. QED
    BY <1>3, <1>5, <2>1, GetLearns
<1>11. CASE failing # Namesakes /\ found # {} /\ ~(Cardinality(found) > 1)
  <2>1. Learn(cards, "details")
    BY <1>2, <1>11
  <2>2. found = {one}
    <3>1. Cardinality(found) = 1
      BY <1>7, <1>11, FS_EmptySet, FS_CardinalityType
    <3>2. PICK p : found = {p}
      BY <1>7, <3>1, FS_Singleton
    <3>3. QED
      BY <1>6, <3>2
  <2>3. one \in held.there /\ one \in Posts /\ one \in found
    BY <1>7, <2>2
  <2>4. /\ cards[one] = [readings[one] EXCEPT !.is = "chosen"]
        /\ \A q \in Posts \ {one} : cards[q] = readings[q]
        /\ DOMAIN cards = Posts
    BY <1>5, <2>3
  <2>5. /\ cards[one] \in [is : Marks, uid : Tellings, name : Tellings, ws : Tellings]
        /\ cards[one].is = "chosen" /\ cards[one].name = readings[one].name
        /\ cards[one].ws = readings[one].ws
    BY <1>5, <2>3, <2>4 DEF Marks
  <2>6. cards \in [Posts -> [is : Marks, uid : Tellings, name : Tellings, ws : Tellings]]
    BY <1>5, <2>3, <2>4, <2>5 DEF Marks
  <2>7. /\ \A q \in Posts \ {one} : cards[q].is # "chosen"
        /\ \A q \in held.there \ {one} : cards[q].is \in {"failed", "unread"}
    BY <1>3, <1>4, <2>2, <2>4
  <2>8. /\ cards[one].name \in {Untold, <<one, 0>>, <<one, 1>>}
        /\ cards[one].name = Untold \/ cards[one].ws \in {Untold, cards[one].name}
    BY <1>4, <2>3, <2>5
  <2> HIDE DEF cards
  <2>9. QED
    BY <1>3, <2>1, <2>3, <2>5, <2>6, <2>7, <2>8, OneIsMeant
<1>12. QED
  BY <1>8, <1>9, <1>10, <1>11

\* The details are asked for by name: what they tell of the workspace is of the
\* queue that is meant, or of the one made anew in its place.
LEMMA EnrichQueueNext == ViewInv /\ EnrichQueue => ViewInv'
<1> SUFFICES ASSUME ViewInv, EnrichQueue PROVE ViewInv'
  OBVIOUS
<1>1. CASE Goes("failed")
  BY <1>1, GoesOn
<1>2. ASSUME NEW tells \in Tells, NEW p \in Namesakes, card[p].is = "chosen",
             Learn([card EXCEPT ![p] =
                     [MergeQueueWorkspace(card[p], Entry(p, Age(p), tells)) EXCEPT !.is = "chosen"]],
                   "shown")
      PROVE  ViewInv'
  <2>1. /\ viewing = "queue get" /\ ViewTypes /\ p \in Posts /\ Age(p) \in {0, 1}
        /\ card \in [Posts -> [is : Marks, uid : Tellings, name : Tellings, ws : Tellings]]
        /\ held.there \subseteq Posts
    BY <1>2, PostsAre, AgeIs DEF ViewInv, ViewTypes, EnrichQueue
  <2>2. p \in held.there /\ Meant(p)
    <3>1. PICK q \in held.there : Meant(q)
      BY DEF ViewInv, QueueGetInv, EnrichQueue
    <3>2. q = p
      BY <1>2, <2>1, <3>1 DEF Meant
    <3>3. QED
      BY <3>1, <3>2
  <2> DEFINE m == MergeQueueWorkspace(card[p], Entry(p, Age(p), tells))
             c == [m EXCEPT !.is = "chosen"]
             cards == [card EXCEPT ![p] = c]
  <2>3. /\ m \in [is : Marks, uid : Tellings, name : Tellings, ws : Tellings]
        /\ m.name \in {Untold, <<p, 0>>, <<p, 1>>}
        /\ m.name = Untold \/ m.ws \in {Untold, m.name}
    <3>1. NameAgrees(p)
      BY <2>2 DEF Meant
    <3>2. QED
      BY <1>2, <2>1, <3>1, MergeAgrees
  <2>4. Learn(cards, "shown")
    BY <1>2
  <2> HIDE DEF m
  <2>5. /\ c \in [is : Marks, uid : Tellings, name : Tellings, ws : Tellings]
        /\ c.is = "chosen" /\ c.name = m.name /\ c.ws = m.ws
    BY <2>3 DEF Marks
  <2> HIDE DEF c
  <2>6. /\ cards \in [Posts -> [is : Marks, uid : Tellings, name : Tellings, ws : Tellings]]
        /\ cards[p] = c /\ \A q \in Posts \ {p} : cards[q] = card[q]
    BY <2>1, <2>5
  <2> HIDE DEF cards
  <2>7. /\ \A q \in Posts \ {p} : cards[q].is # "chosen"
        /\ \A q \in held.there \ {p} : cards[q].is \in {"failed", "unread"}
    BY <2>1, <2>2, <2>6 DEF Meant
  <2>8. /\ cards[p].is = "chosen"
        /\ cards[p].name \in {Untold, <<p, 0>>, <<p, 1>>}
        /\ cards[p].name = Untold \/ cards[p].ws \in {Untold, cards[p].name}
    BY <2>3, <2>5, <2>6
  <2>9. QED
    BY <2>1, <2>2, <2>4, <2>6, <2>7, <2>8, OneIsMeant
<1>3. QED
  BY <1>1, <1>2 DEF EnrichQueue

LEMMA ListQueueWorkspacesNext == ViewInv /\ ListQueueWorkspaces => ViewInv'
<1> SUFFICES ASSUME ViewInv, ListQueueWorkspaces PROVE ViewInv'
  OBVIOUS
<1>1. viewing = "queue get" /\ next = "workspaces"
  BY DEF ListQueueWorkspaces
<1>2. Goes("failed") \/ Goes("likely") \/ Goes("all")
  BY DEF ListQueueWorkspaces
<1>3. CASE Goes("failed")
  BY <1>3, GoesOn
<1>4. CASE Goes("likely")
  BY <1>1, <1>4, GoesOn
<1>5. CASE Goes("all")
  BY <1>1, <1>5, GoesOn
<1>6. QED
  BY <1>2, <1>3, <1>4, <1>5

LEMMA CancelQueueListNext == ViewInv /\ CancelQueueList => ViewInv'
BY GoesOn DEF CancelQueueList

\* While ws get reads, nothing is said yet.
LEMMA ReadQueuesNext == ViewInv /\ ReadQueues => ViewInv'
<1> SUFFICES ASSUME ViewInv, ReadQueues PROVE ViewInv'
  OBVIOUS
<1>1. CASE Goes("failed")
  BY <1>1, GoesOn
<1> DEFINE c == Known("listed", Entry(First, Age(First), "nothing"))
<1>2. CASE Learn([card EXCEPT ![First] = c], "reading")
  <2>1. c \in [is : Marks, uid : Tellings, name : Tellings, ws : Tellings]
    <3>1. "nothing" \in Tells /\ "listed" \in Marks /\ ViewTypes /\ First \in Posts
      BY PostsAre DEF Tells, Marks, ViewInv
    <3>2. QED
      BY <3>1, FirstKnown
  <2> HIDE DEF c
  <2>2. /\ viewing = "ws get" /\ next' = "reading" /\ UNCHANGED <<viewing, held>>
        /\ card' = [card EXCEPT ![First] = c]
    BY <1>2 DEF ReadQueues, Learn
  <2>3. ViewTypes'
    BY <2>1, <2>2 DEF ViewInv, ViewTypes
  <2>4. QueueListInv' /\ QueueGetInv' /\ VCIsItsOwn'
    BY <2>2 DEF QueueListInv, QueueGetInv, VCIsItsOwn
  <2>5. QED
    BY <2>3, <2>4 DEF ViewInv
<1>3. QED
  BY <1>1, <1>2 DEF ReadQueues

LEMMA ReadInventoryNext == ViewInv /\ ReadInventory => ViewInv'
<1> SUFFICES ASSUME ViewInv, ReadInventory PROVE ViewInv'
  OBVIOUS
<1>1. PICK some \in SUBSET {<<First, Age(First)>>, <<<<"a", 2>>, 0>>, <<Stranger, 0>>} :
        held' = [held EXCEPT !.inventory = some, !.read = TRUE]
  BY DEF ReadInventory
<1>2. /\ viewing = "ws get" /\ next = "reading" /\ UNCHANGED <<viewing, card, next>>
  BY DEF ReadInventory
<1>3. some \subseteq Listable
  <2>1. <<"a", 2>> \in Posts /\ First \in Posts /\ Age(First) \in {0, 1}
    BY AgeIs, PostsAre DEF Posts
  <2>2. QED
    BY <2>1 DEF Listable
<1>4. ViewTypes'
  BY <1>1, <1>2, <1>3 DEF ViewInv, ViewTypes
<1>5. QueueListInv' /\ QueueGetInv' /\ VCIsItsOwn'
  BY <1>2 DEF QueueListInv, QueueGetInv, VCIsItsOwn
<1>6. QED
  BY <1>4, <1>5 DEF ViewInv

\* The details that are joined are of the workspace's profile, and the queue's own
\* if they are there.
LEMMA DetailsAreItsOwn ==
  ASSUME ViewTypes, NEW d \in (IF DetailOfQueue(card[First]) = {} THEN {Untold}
                              ELSE DetailOfQueue(card[First]))
  PROVE  /\ d \in Tellings
         /\ d # Untold => d[1] # Stranger
         /\ card[First].uid # Untold /\ card[First].uid \in held.inventory => d = card[First].uid
<1> DEFINE item == card[First]
<1>1. held.inventory \subseteq Listable /\ item.uid \in Tellings
  BY PostsAre DEF ViewTypes
<1> HIDE DEF item
<1> DEFINE mine == {e \in held.inventory : e[1] # Stranger}
           same == {e \in mine : item.uid # Untold /\ e = item.uid}
<1>2. DetailOfQueue(item) = IF same # {} THEN same ELSE mine
  BY DEF DetailOfQueue
<1>3. mine \subseteq Posts \X {0, 1}
  <2>1. ASSUME NEW e \in Listable, e[1] # Stranger
        PROVE  e \in Posts \X {0, 1}
    BY <2>1 DEF Listable
  <2>2. QED
    BY <1>1, <2>1
<1>4. d \in {Untold} \/ d \in mine
  BY <1>2 DEF item
<1>5. d \in Tellings
  BY <1>3, <1>4 DEF Tellings
<1>6. d # Untold => d[1] # Stranger
  BY <1>4
<1>7. ASSUME item.uid # Untold, item.uid \in held.inventory
      PROVE  d = item.uid
  <2>1. item.uid \in Posts \X {0, 1}
    BY <1>1, <1>7 DEF Tellings
  <2>2. item.uid[1] # Stranger
    BY <2>1, PostsAre
  <2>3. item.uid \in same
    BY <1>7, <2>2
  <2>4. d \in same
    BY <1>2, <2>3 DEF item
  <2>5. QED
    BY <2>4
<1>8. QED
  BY <1>5, <1>6, <1>7 DEF item

LEMMA UntoldIsNotListed == Untold \notin Listable
BY DEF Untold, Listable

LEMMA JoinInventoryNext == ViewInv /\ JoinInventory => ViewInv'
<1> SUFFICES ASSUME ViewInv, JoinInventory PROVE ViewInv'
  OBVIOUS
<1> DEFINE details == DetailOfQueue(card[First])
<1>1. PICK d \in (IF details = {} THEN {Untold} ELSE details), tell \in BOOLEAN :
        Learn([card EXCEPT ![First].ws = d,
                           ![First].name = IF tell THEN d ELSE Untold], "shown")
  BY DEF JoinInventory
<1>2. /\ d \in Tellings
      /\ d # Untold => d[1] # Stranger
      /\ card[First].uid # Untold /\ card[First].uid \in held.inventory => d = card[First].uid
  BY <1>1, DetailsAreItsOwn DEF ViewInv
<1> DEFINE title == IF tell THEN d ELSE Untold
<1>3. title \in {Untold, d} /\ Untold \in Tellings
  BY DEF Tellings
<1>4. /\ viewing = "ws get" /\ next' = "shown" /\ UNCHANGED <<viewing, held>>
      /\ card' = [card EXCEPT ![First].ws = d, ![First].name = title]
  BY <1>1 DEF JoinInventory, Learn
<1> HIDE DEF details, title
<1>5. /\ card \in [Posts -> [is : Marks, uid : Tellings, name : Tellings, ws : Tellings]]
      /\ First \in Posts
  BY PostsAre DEF ViewInv, ViewTypes
<1>6. /\ card' \in [Posts -> [is : Marks, uid : Tellings, name : Tellings, ws : Tellings]]
      /\ card'[First].ws = d /\ card'[First].name = title /\ card'[First].uid = card[First].uid
  BY <1>2, <1>3, <1>4, <1>5
<1>7. ViewTypes'
  BY <1>4, <1>6 DEF ViewInv, ViewTypes
<1>8. card[First].uid \in held.inventory => card[First].uid # Untold
  BY UntoldIsNotListed DEF ViewInv, ViewTypes
<1>9. VCIsItsOwn'
  BY <1>2, <1>3, <1>4, <1>6, <1>8 DEF VCIsItsOwn
<1>10. QueueListInv' /\ QueueGetInv'
  BY <1>4 DEF QueueListInv, QueueGetInv
<1>11. QED
  BY <1>7, <1>9, <1>10 DEF ViewInv

LEMMA ViewPreserved == ViewInv /\ [ViewNext]_viewVars => ViewInv'
<1> SUFFICES ASSUME ViewInv, [ViewNext]_viewVars PROVE ViewInv'
  OBVIOUS
<1>1. CASE ChangeQueue
  BY <1>1, ChangeQueueNext
<1>2. CASE QueueListStep
  BY <1>2, ListResourcesNext, ReadDetailGroupNext, ShowQueuesNext, CancelQueueListNext,
     ReadDetailNext DEF QueueListStep
<1>3. CASE QueueGetStep
  BY <1>3, FindResourceOfQueueNext, ListQueueWorkspacesNext, ReadLikelyNext,
     ReadAllWorkspacesNext, EnrichQueueNext DEF QueueGetStep
<1>4. CASE WorkspaceGetStep
  BY <1>4, ReadQueuesNext, ReadInventoryNext, JoinInventoryNext DEF WorkspaceGetStep
<1>5. CASE UNCHANGED viewVars
  <2>1. UNCHANGED <<viewing, held, card, next>>
    BY <1>5 DEF viewVars
  <2>2. ViewTypes' /\ VCIsItsOwn'
    BY <2>1 DEF ViewInv, ViewTypes, VCIsItsOwn
  <2>3. QueueListInv'
    BY <2>1 DEF ViewInv, QueueListInv, Its, NameAgrees
  <2>4. QueueGetInv'
    BY <2>1 DEF ViewInv, QueueGetInv, Meant, NameAgrees
  <2>5. QED
    BY <2>2, <2>3, <2>4 DEF ViewInv
<1>6. QED
  BY <1>1, <1>2, <1>3, <1>4, <1>5 DEF ViewNext

LEMMA ViewsHold == ViewInv => ViewsAreTrue
<1> SUFFICES ASSUME ViewInv PROVE ViewsAreTrue
  OBVIOUS
<1>1. WorkspacesAreTheirs
  <2> SUFFICES ASSUME viewing = "queue list", next = "shown", NEW p \in Posts
               PROVE  /\ card[p].name # Untold =>
                           /\ card[p].name[1] = p
                           /\ card[p].uid = <<p, 0>> /\ held.fate = "recreated" =>
                                card[p].name = <<p, 0>>
                           /\ card[p].uid = <<p, 1>> => card[p].name = <<p, 1>>
                      /\ Untold \notin {card[p].name, card[p].ws} => card[p].name = card[p].ws
    BY DEF WorkspacesAreTheirs
  <2>1. Its(p)
    BY DEF ViewInv, QueueListInv
  <2>2. card[p].name \in {Untold, <<p, 0>>, <<p, 1>>}
        /\ (card[p].name = Untold \/ card[p].ws \in {Untold, card[p].name})
    BY <2>1 DEF Its, NameAgrees
  <2>3. /\ card[p].uid = <<p, 0>> /\ held.fate = "recreated" => card[p].name \in {Untold, <<p, 0>>}
        /\ card[p].uid = <<p, 1>> => card[p].name \in {Untold, <<p, 1>>}
    BY <2>1 DEF Its
  <2>4. card[p].name # Untold => card[p].name[1] = p
    <3>1. <<p, 0>>[1] = p /\ <<p, 1>>[1] = p
      OBVIOUS
    <3>2. QED
      BY <2>2, <3>1
  <2>5. Untold \notin {card[p].name, card[p].ws} => card[p].name = card[p].ws
    BY <2>2
  <2>6. QED
    BY <2>3, <2>4, <2>5
<1>2. TheQueueIsMeant
  <2>1. ASSUME viewing = "queue get", next = "shown"
        PROVE  \E p \in held.there :
                 /\ card[p].is = "chosen"
                 /\ card[p].name # Untold => card[p].name[1] = p
                 /\ Untold \notin {card[p].name, card[p].ws} => card[p].name = card[p].ws
                 /\ \A q \in held.there \ {p} : card[q].is \in {"failed", "unread"}
    <3>1. PICK p \in held.there : Meant(p)
      BY <2>1 DEF ViewInv, QueueGetInv
    <3>2. p \in Posts
      BY PostsAre DEF ViewInv, ViewTypes
    <3>3. /\ card[p].is = "chosen"
          /\ card[p].name # Untold => card[p].name[1] = p
          /\ Untold \notin {card[p].name, card[p].ws} => card[p].name = card[p].ws
      BY <3>1, <3>2 DEF Meant, NameAgrees
    <3>4. QED
      BY <3>1, <3>3 DEF Meant
  <2>2. QED
    BY <2>1 DEF ViewInv, QueueGetInv, TheQueueIsMeant
<1>3. QED
  BY <1>1, <1>2 DEF ViewInv, ViewsAreTrue
-----------------------------------------------------------------------------
(***************************************************************************)
(* Questions to several profiles: an answer is given on what was read, and *)
(* stands.                                                                 *)
(***************************************************************************)
QueryTypes ==
  /\ query \in Queries /\ elsewhere \subseteq {NProfiles} \ {1}
  /\ place \in [Profiles -> 0 .. 2]
  /\ question \in {1, 2}
  /\ asked \in [Profiles -> {"open", "all", "none", "part", "cut", "denied"}]
  /\ over \in BOOLEAN

\* What only some operations can read.
RepliesFit ==
  /\ query \notin EnvironmentWide => elsewhere = {}
  /\ query = "FindQueueForAuth" => near \subseteq {p \in Profiles : place[p] = 0}
  /\ \A p \in Profiles :
       /\ asked[p] = "denied" => query = "FindVCResource"
       /\ query \in Single => asked[p] \in {"open", "all", "none", "denied"}

\* Storage is asked for by name where the question by UID has found nothing.
UnreadHave == question = 2 /\ query = "FindStorageVolume" /\ near = {} => Has \subseteq unread

SaidOnWhatWasRead == said # "open" => said = Answer

QueryInv == QueryTypes /\ RepliesFit /\ UnreadHave /\ SaidOnWhatWasRead

LEMMA ScopeIs ==
  ASSUME elsewhere \subseteq {NProfiles} \ {1}
  PROVE  Scope \subseteq Profiles /\ 1 \in Scope
BY NProfilesAssumption DEF Scope, Profiles

LEMMA CountsOf ==
  ASSUME NEW S \in SUBSET Profiles
  PROVE  /\ IsFiniteSet(S) /\ Cardinality(S) \in Nat
         /\ (Cardinality(S) = 0 <=> S = {})
         /\ Picked(S) = "missing" => S = {}
         /\ Picked(S) = "found" => Cardinality(S) = 1
         /\ Picked(S) \in {"found", "ambiguous", "missing"}
<1>1. IsFiniteSet(S)
  <2>1. IsFiniteSet(Profiles)
    BY NProfilesAssumption, FS_Interval DEF Profiles
  <2> QED
    BY <2>1, FS_Subset
<1>2. Cardinality(S) \in Nat /\ (Cardinality(S) = 0 <=> S = {})
  BY <1>1, FS_CardinalityType, FS_EmptySet
<1>3. CASE S = {}
  BY <1>1, <1>2, <1>3 DEF Picked
<1>4. CASE Cardinality(S) = 1
  BY <1>1, <1>2, <1>4 DEF Picked
<1>5. CASE Cardinality(S) > 1
  BY <1>1, <1>2, <1>5 DEF Picked
<1> QED
  BY <1>2, <1>3, <1>4, <1>5

LEMMA LastIsAsked ==
  ASSUME elsewhere \subseteq {NProfiles} \ {1}
  PROVE  LastAsked \in Scope
<1>1. Scope \subseteq Profiles /\ 1 \in Scope
  BY ScopeIs
<1>2. \E p \in Scope : \A q \in Scope : q <= p
  <2>1. CASE NProfiles \in Scope
    BY <1>1, <2>1, NProfilesAssumption DEF Profiles
  <2>2. CASE NProfiles \notin Scope
    <3>1. NProfiles # 1
      BY <1>1, <2>2
    <3>2. NProfiles - 1 \in Profiles /\ NProfiles - 1 # NProfiles
      BY <3>1, NProfilesAssumption DEF Profiles
    <3>3. NProfiles - 1 \in Scope
      BY <3>2 DEF Scope
    <3> QED
      BY <1>1, <2>2, <3>3, NProfilesAssumption DEF Profiles
  <2> QED
    BY <2>1, <2>2
<1> QED
  BY <1>2 DEF LastAsked

\* What each operation may say: all that is needed of Answer.
LEMMA AnswerIs ==
  ASSUME QueryTypes
  PROVE  /\ query \in Inventories => Answer = ProfileInventory
         /\ query \in Gets => Answer = Get
         /\ query \in {"ListStorageVolumes", "ListAIComputeNodes", "ResolveUsernames"}
              => Answer = ListAIComputeNodes
         /\ query = "ListVirtualClusters" => Answer = ListVirtualClusters
         /\ query = "ListSSPClusters" => Answer = ListSSPClusters
         /\ query = "ListSSPQueueResources" => Answer = ListSSPQueueResources
         /\ query \in {"ListSSPQueues", "FindSSPQueues"} => Answer = ListSSPQueues
         /\ query = "ListSSPClustersForNodeUsage" => Answer = ListSSPClustersForNodeUsage
         /\ query \in {"FindResourceByUID", "FindResourceByName"} => Answer = FindResourceByUID
         /\ query = "FindStorageVolume" => Answer = FindStorageVolume
         /\ query = "FindExactVC" => Answer = FindExactVC
         /\ query = "FindAIComputeNodes" => Answer = FindAIComputeNodes
         /\ query = "FindSSPQueueResource" => Answer = FindSSPQueueResource
         /\ query = "FindVCResource" => Answer = FindVCResource
         /\ query = "FindQueueForAuth" => Answer = FindQueueForAuth
         /\ query = "CheckECS" => Answer = CheckECS
BY DEF Answer, Inventories, Gets, ListStorageVolumes, ResolveUsernames, FindSSPQueues,
       FindResourceByName

LEMMA QueriesAre ==
  ASSUME QueryTypes
  PROVE  \/ query \in Inventories \/ query \in Gets
         \/ query \in Lenient \/ query \in Strict \/ query \in Lookups
BY DEF QueryTypes, Queries

LEMMA ReadingIs ==
  ASSUME QueryTypes, NEW p \in Scope
  PROVE  /\ p \in Profiles
         /\ asked[p] \in {"open", "all", "none", "part", "cut", "denied"}
         /\ p \in Failed <=> asked[p] \in {"part", "none"}
         /\ p \in Whole <=> asked[p] = "all"
         /\ p \in Read <=> asked[p] \in {"all", "cut"}
         /\ p \in Cut <=> asked[p] = "cut"
         /\ p \in Has <=> place[p] > 0
         /\ p \in Has /\ p \in Whole => p \in Seen
         /\ p \in Seen => p \in Has
         /\ AllAsked => asked[p] # "open"
<1>1. p \in Profiles
  BY DEF Scope
<1>2. asked[p] \in {"open", "all", "none", "part", "cut", "denied"} /\ place[p] \in 0 .. 2
  BY <1>1 DEF QueryTypes
<1> QED
  BY <1>1, <1>2 DEF Failed, Whole, Read, Cut, Has, Seen, AllAsked

LEMMA SetsAre ==
  Failed \subseteq Scope /\ Whole \subseteq Scope /\ Read \subseteq Scope /\ Seen \subseteq Scope
  /\ Has \subseteq Scope /\ Cut \subseteq Scope
BY DEF Failed, Whole, Read, Seen, Has, Cut

LEMMA KeptWhenSaid == QueryInv => ReadingsAreKept
<1> SUFFICES ASSUME QueryInv, said = "error", query \in Lenient, ~over
             PROVE  Has \cap Whole = {}
  BY DEF ReadingsAreKept
<1>0. QueryTypes /\ Answer = "error"
  BY DEF QueryInv, SaidOnWhatWasRead
<1>1. SUFFICES ASSUME NEW p \in Scope, place[p] > 0, asked[p] = "all"  PROVE FALSE
  BY DEF Has, Whole
<1>2. p \in Read /\ asked[p] # "none"
  BY <1>0, <1>1, ReadingIs
<1>3. CASE query \in {"ListStorageVolumes", "ListAIComputeNodes", "ResolveUsernames", "ListVirtualClusters"}
  <2>1. ListVirtualClusters = "error"
    BY <1>0, <1>3, AnswerIs DEF ListAIComputeNodes
  <2> QED
    BY <1>2, <2>1 DEF ListVirtualClusters
<1>4. CASE query = "ListSSPClusters"
  <2>1. ListSSPClusters = "error"
    BY <1>0, <1>4, AnswerIs
  <2> QED
    BY <1>2, <2>1 DEF ListSSPClusters
<1>5. CASE query = "ListSSPQueueResources"
  <2>1. ListSSPQueueResources = "error"
    BY <1>0, <1>5, AnswerIs
  <2>2. place[p] = 0
    BY <1>2, <2>1 DEF ListSSPQueueResources
  <2> QED
    BY <1>1, <2>2
<1> QED
  BY <1>3, <1>4, <1>5 DEF Lenient

\* A list without an error has whoever was read, and only lists are called that.
LEMMA ListWhenSaid == QueryInv => ListIsWhole
<1> SUFFICES ASSUME QueryInv, said = "list", NEW p \in Missed
             PROVE  /\ query # "ListSSPClustersForNodeUsage"
                    /\ p \in Cut \cup (IF query \in Lenient THEN Failed ELSE {})
  BY DEF ListIsWhole
<1>0. QueryTypes /\ RepliesFit /\ Answer = "list"
  BY DEF QueryInv, SaidOnWhatWasRead
<1>1. /\ p \in Scope /\ p \in Profiles
      /\ p \in Failed <=> asked[p] \in {"part", "none"}
      /\ p \in Cut <=> asked[p] = "cut"
      /\ asked[p] \in {"open", "none", "part", "cut", "denied"}
      /\ AllAsked => asked[p] # "open"
  BY <1>0, SetsAre, ReadingIs DEF Missed
<1>2. asked[p] = "denied" => query = "FindVCResource"
  BY <1>0, <1>1 DEF RepliesFit
<1>3. CASE query \in Inventories
  <2>1. ProfileInventory = "list"
    BY <1>0, <1>3, AnswerIs
  <2>2. AllAsked /\ Failed = {}
    BY <2>1 DEF ProfileInventory
  <2> QED
    BY <1>1, <1>2, <1>3, <2>2 DEF Inventories
<1>4. CASE query \in Lenient
  <2>1. AllAsked
    <3>1. CASE query \in {"ListStorageVolumes", "ListAIComputeNodes", "ResolveUsernames",
                          "ListVirtualClusters"}
      <4>1. ListVirtualClusters = "list"
        BY <1>0, <3>1, AnswerIs DEF ListAIComputeNodes
      <4> QED
        BY <4>1 DEF ListVirtualClusters
    <3>2. CASE query = "ListSSPClusters"
      BY <1>0, <3>2, AnswerIs DEF ListSSPClusters
    <3>3. CASE query = "ListSSPQueueResources"
      BY <1>0, <3>3, AnswerIs DEF ListSSPQueueResources
    <3> QED
      BY <1>4, <3>1, <3>2, <3>3 DEF Lenient
  <2>2. query \notin {"FindVCResource", "ListSSPClustersForNodeUsage"}
    BY <1>4 DEF Lenient
  <2> QED
    BY <1>1, <1>2, <1>4, <2>1, <2>2
<1>5. CASE query \in Strict
  <2>1. CASE query \in {"ListSSPQueues", "FindSSPQueues"}
    <3>1. ListSSPQueues = "list"
      BY <1>0, <2>1, AnswerIs
    <3>2. AllAsked /\ Failed = {}
      BY <3>1 DEF ListSSPQueues
    <3> QED
      BY <1>1, <1>2, <2>1, <3>2
  <2>2. CASE query = "ListSSPClustersForNodeUsage"
    <3>1. ListSSPClustersForNodeUsage = "list"
      BY <1>0, <2>2, AnswerIs
    <3>2. asked[p] # "cut" /\ ListSSPQueues = "list"
      BY <1>1, <3>1 DEF ListSSPClustersForNodeUsage
    <3>3. AllAsked /\ Failed = {}
      BY <3>2 DEF ListSSPQueues
    <3> QED
      BY <1>1, <1>2, <2>2, <3>2, <3>3
  <2> QED
    BY <1>5, <2>1, <2>2 DEF Strict
<1>6. CASE query \in Gets
  <2>1. Get = "list"
    BY <1>0, <1>6, AnswerIs
  <2>2. ProfileInventory \in {"open", "partial", "list"}
    BY DEF ProfileInventory
  <2>3. Picked(Seen) # "list"
    <3>1. PICK S \in SUBSET Profiles : S = Seen
      BY <1>0, SetsAre, ScopeIs DEF QueryTypes
    <3> QED
      BY <3>1, CountsOf
  <2> QED
    BY <2>1, <2>2, <2>3 DEF Get
<1>7. CASE query \in Lookups
  <2>1. Picked(IF Seen \cap Whole # {} THEN Seen \cap Whole ELSE near \cap Whole) # "list"
    <3>1. PICK S \in SUBSET Profiles :
            S = IF Seen \cap Whole # {} THEN Seen \cap Whole ELSE near \cap Whole
      BY <1>0, SetsAre, ScopeIs DEF QueryTypes
    <3> QED
      BY <3>1, CountsOf
  <2>2. FindResourceByUID # "list"
    BY DEF FindResourceByUID
  <2>3. FindQueueForAuth # "list"
    BY <2>1 DEF FindQueueForAuth
  <2>4. FindStorageVolume # "list" /\ FindExactVC # "list" /\ FindAIComputeNodes # "list"
        /\ FindSSPQueueResource # "list" /\ FindVCResource # "list"
    BY <2>2 DEF FindStorageVolume, FindExactVC, FindResourceByName, FindAIComputeNodes,
                FindSSPQueueResource, FindVCResource
  <2>5. CheckECS # "list"
    <3>1. question \in {1, 2}
      BY <1>0 DEF QueryTypes
    <3>2. \/ ~ AllAsked \/ (AllAsked /\ Seen # {} /\ question = 1) \/ (AllAsked /\ Seen = {} /\ question = 1)
          \/ (AllAsked /\ question = 2 /\ (Failed # {} \/ over))
          \/ (AllAsked /\ question = 2 /\ Failed = {} /\ ~ over)
      BY <3>1
    <3> QED
      BY <3>2 DEF CheckECS
  <2> QED
    BY <1>0, <1>7, <2>2, <2>3, <2>4, <2>5, AnswerIs DEF Lookups
<1> QED
  BY <1>0, <1>3, <1>4, <1>5, <1>6, <1>7, QueriesAre

LEMMA AbsenceWhenSaid == QueryInv => AbsenceIsCertain
<1> SUFFICES ASSUME QueryInv, said = "missing", NEW p \in Has, p \notin Cut
             PROVE  p \in Hidden
  BY DEF AbsenceIsCertain
<1>0. QueryTypes /\ RepliesFit /\ UnreadHave /\ Answer = "missing"
  BY DEF QueryInv, SaidOnWhatWasRead
<1>1. /\ p \in Scope /\ p \in Profiles /\ asked[p] # "cut"
      /\ p \in Whole => p \in Seen
      /\ p \in Failed <=> asked[p] \in {"part", "none"}
      /\ p \in Whole <=> asked[p] = "all"
      /\ asked[p] \in {"open", "all", "none", "part", "cut", "denied"}
      /\ AllAsked => asked[p] # "open"
  BY <1>0, SetsAre, ReadingIs
<1>d. query # "FindVCResource" => asked[p] # "denied"
  BY <1>0, <1>1 DEF RepliesFit
<1>f. query # "FindVCResource" /\ AllAsked /\ Failed = {} => p \in Seen
  BY <1>1, <1>d
<1>s. Seen \in SUBSET Profiles /\ Whole \in SUBSET Profiles
  BY SetsAre, ScopeIs, <1>0 DEF QueryTypes
<1>2. CASE query \in Inventories
  BY <1>0, <1>2, AnswerIs DEF ProfileInventory
<1>3. CASE query \in Gets
  <2>1. query # "FindVCResource" /\ Answer = Get
    BY <1>0, <1>3, AnswerIs DEF Gets
  <2>2. ProfileInventory = "list" /\ Picked(Seen) = "missing"
    <3>1. ProfileInventory \in {"open", "partial", "list"}
      BY DEF ProfileInventory
    <3> QED
      BY <1>0, <2>1, <3>1 DEF Get
  <2>3. AllAsked /\ Failed = {}
    BY <2>2 DEF ProfileInventory
  <2>4. Seen = {}
    BY <1>s, <2>2, CountsOf
  <2> QED
    BY <1>f, <2>1, <2>3, <2>4
<1>4. CASE query \in Lenient
  BY <1>0, <1>4, AnswerIs DEF Lenient, ListAIComputeNodes, ListVirtualClusters, ListSSPClusters,
     ListSSPQueueResources
<1>5. CASE query \in Strict
  BY <1>0, <1>5, AnswerIs DEF Strict, ListSSPQueues, ListSSPClustersForNodeUsage
<1>6. ASSUME query # "FindVCResource", FindResourceByUID = "missing"  PROVE FALSE
  BY <1>f, <1>6 DEF FindResourceByUID
<1>7. CASE query \in {"FindResourceByName", "FindResourceByUID"}
  BY <1>0, <1>6, <1>7, AnswerIs
<1>8. CASE query = "FindStorageVolume"
  <2>1. FindStorageVolume = "missing"
    BY <1>0, <1>8, AnswerIs
  <2>2. question = 2 /\ AllAsked /\ Failed = {} /\ ~ (Seen # {} /\ near # {})
    BY <1>0, <2>1 DEF FindStorageVolume, QueryTypes
  <2>3. near = {}
    BY <1>8, <1>f, <2>2
  <2>4. Has \subseteq unread
    BY <1>0, <1>8, <2>2, <2>3 DEF UnreadHave
  <2>5. Hidden = unread
    BY <1>8, <2>3 DEF Hidden
  <2> QED
    BY <2>4, <2>5
<1>9. CASE query = "FindExactVC"
  <2>1. FindExactVC = "missing"
    BY <1>0, <1>9, AnswerIs
  <2>2. FindResourceByUID = "missing"
    BY <2>1 DEF FindExactVC, FindResourceByName
  <2> QED
    BY <1>6, <1>9, <2>2
<1>10. CASE query = "FindAIComputeNodes"
  <2>1. FindAIComputeNodes = "missing"
    BY <1>0, <1>10, AnswerIs
  <2>2. Seen \cap Whole = {} /\ AllAsked /\ Whole # {}
    BY <2>1 DEF FindAIComputeNodes
  <2>3. Hidden = Failed
    BY <1>10, <2>2 DEF Hidden
  <2> QED
    BY <1>1, <1>10, <1>d, <2>2, <2>3
<1>11. CASE query = "FindSSPQueueResource"
  <2>1. FindSSPQueueResource = "missing"
    BY <1>0, <1>11, AnswerIs
  <2>2. Seen = {} /\ AllAsked /\ asked[LastAsked] # "none"
    BY <2>1 DEF FindSSPQueueResource
  <2>3. LastAsked \in Scope
    BY <1>0, LastIsAsked DEF QueryTypes
  <2>4. asked[LastAsked] \in {"all", "none", "denied"} /\ asked[LastAsked] # "denied"
    <3>1. LastAsked \in Profiles /\ asked[LastAsked] # "open"
      BY <1>0, <2>2, <2>3, ReadingIs
    <3>2. query \in Single /\ query # "FindVCResource"
      BY <1>11 DEF Single
    <3> QED
      BY <1>0, <3>1, <3>2 DEF RepliesFit
  <2>5. LastAsked \in Whole
    BY <1>0, <2>2, <2>3, <2>4, ReadingIs
  <2>6. Hidden = Failed
    BY <1>11, <2>5 DEF Hidden
  <2> QED
    BY <1>1, <1>11, <1>d, <2>2, <2>6
<1>12. CASE query = "FindVCResource"
  BY <1>0, <1>12, AnswerIs DEF FindVCResource
<1>13. CASE query = "FindQueueForAuth"
  <2>1. FindQueueForAuth = "missing"
    BY <1>0, <1>13, AnswerIs
  <2> DEFINE exact == Seen \cap Whole
             found == IF exact # {} THEN exact ELSE near \cap Whole
  <2>2. Whole = Scope /\ Picked(found) = "missing"
    BY <2>1 DEF FindQueueForAuth
  <2>3. found = {}
    <3>1. found \in SUBSET Profiles
      BY <1>s
    <3> HIDE DEF found
    <3> QED
      BY <2>2, <3>1, CountsOf
  <2>4. p \in exact
    BY <1>1, <2>2
  <2> QED
    BY <2>3, <2>4
<1>14. CASE query = "CheckECS"
  <2>1. CheckECS = "missing"
    BY <1>0, <1>14, AnswerIs
  <2>2. AllAsked /\ Failed = {} /\ Seen = {}
    BY <1>0, <2>1 DEF CheckECS, QueryTypes
  <2> QED
    BY <1>14, <1>f, <2>2
<1> QED
  BY <1>0, <1>2, <1>3, <1>4, <1>5, <1>7, <1>8, <1>9, <1>10, <1>11, <1>12, <1>13, <1>14, QueriesAre
  DEF Lookups

LEMMA GuessWhenSaid == QueryInv => GuessIsLastResort
<1> SUFFICES ASSUME QueryInv, said = "scope", NEW p \in Has
             PROVE  asked[p] \in {"denied", "none"}
  BY DEF GuessIsLastResort
<1>0. QueryTypes /\ RepliesFit /\ Answer = "scope"
  BY DEF QueryInv, SaidOnWhatWasRead
<1>1. ASSUME NEW S \in SUBSET Profiles  PROVE Picked(S) # "scope"
  BY CountsOf
<1>2. query = "FindVCResource"
  <2>1. ProfileInventory \in {"open", "partial", "list"}
    BY DEF ProfileInventory
  <2>2. Seen \in SUBSET Profiles /\ Whole \in SUBSET Profiles
    BY SetsAre, ScopeIs, <1>0 DEF QueryTypes
  <2>3. Get # "scope"
    BY <1>1, <2>1, <2>2 DEF Get
  <2>4. CASE query \in Inventories \cup Gets
    BY <1>0, <2>1, <2>3, <2>4, AnswerIs
  <2>5. CASE query \in Lenient \cup Strict
    BY <1>0, <2>5, AnswerIs DEF Lenient, ListAIComputeNodes, ListVirtualClusters, ListSSPClusters,
       ListSSPQueueResources, Strict, ListSSPQueues, ListSSPClustersForNodeUsage
  <2>6. CheckECS # "scope"
    BY <1>0 DEF CheckECS, QueryTypes
  <2>7. FindQueueForAuth # "scope"
    <3> DEFINE exact == Seen \cap Whole
               found == IF exact # {} THEN exact ELSE near \cap Whole
    <3>1. Picked(found) # "scope"
      <4>1. found \in SUBSET Profiles
        BY <2>2
      <4> HIDE DEF found
      <4> QED
        BY <1>1, <4>1
    <3> QED
      BY <3>1 DEF FindQueueForAuth
  <2>8. ASSUME query \in Lookups \ {"FindVCResource"}  PROVE Answer # "scope"
    BY <1>0, <2>6, <2>7, <2>8, AnswerIs DEF Lookups, FindResourceByUID, FindResourceByName,
       FindStorageVolume, FindExactVC, FindAIComputeNodes, FindSSPQueueResource
  <2> QED
    BY <1>0, <2>4, <2>5, <2>8, QueriesAre
<1>3. FindVCResource = "scope"
  BY <1>0, <1>2, AnswerIs
<1>4. Seen = {} /\ AllAsked
  BY <1>3 DEF FindVCResource, Forbidden
<1>5. /\ p \in Scope /\ p \in Profiles /\ asked[p] # "open" /\ asked[p] # "all"
  BY <1>0, <1>4, SetsAre, ReadingIs
<1>6. query \in Single
  BY <1>2 DEF Single
<1> QED
  BY <1>0, <1>5, <1>6 DEF RepliesFit

LEMMA GrantWhenSaid == QueryInv => GrantScopeIsSure
<1> SUFFICES ASSUME QueryInv, query = "FindQueueForAuth", said = "found", 1 \notin Has
             PROVE  \/ Cardinality(Has) = 1
                    \/ Has = {} /\ Cardinality(near \cap Scope) = 1
  BY DEF GrantScopeIsSure
<1>0. QueryTypes /\ FindQueueForAuth = "found"
  BY AnswerIs DEF QueryInv, SaidOnWhatWasRead
<1> DEFINE exact == Seen \cap Whole
           found == IF exact # {} THEN exact ELSE near \cap Whole
<1>1. 1 \notin exact
  BY <1>0, SetsAre, ReadingIs
<1>2. Whole = Scope /\ Picked(found) = "found"
  BY <1>0, <1>1 DEF FindQueueForAuth
<1>3. Cardinality(found) = 1
  <2>1. found \in SUBSET Profiles
    BY SetsAre, ScopeIs, <1>0 DEF QueryTypes
  <2> HIDE DEF found
  <2> QED
    BY <1>2, <2>1, CountsOf
<1>4. exact = Has
  BY <1>0, <1>2, SetsAre, ReadingIs
<1> QED
  BY <1>2, <1>3, <1>4

LEMMA AnswerStays ==
  ASSUME UNCHANGED <<query, elsewhere, place, near, question, asked, over>>
  PROVE  Answer' = Answer
<1>1. UNCHANGED Scope
  BY DEF Scope
<1>2. UNCHANGED <<Failed, Whole, Seen, Read, AllAsked, LastAsked>>
  BY <1>1 DEF Failed, Whole, Seen, Read, AllAsked, LastAsked
<1>3. ProfileInventory' = ProfileInventory
  BY <1>2 DEF ProfileInventory
<1>4. Get' = Get
  BY <1>2, <1>3 DEF Get
<1>5. ListVirtualClusters' = ListVirtualClusters /\ ListSSPClusters' = ListSSPClusters
  BY <1>1, <1>2 DEF ListVirtualClusters, ListSSPClusters
<1>6. ListAIComputeNodes' = ListAIComputeNodes
  BY <1>2, <1>5 DEF ListAIComputeNodes
<1>7. ListSSPQueueResources' = ListSSPQueueResources
  BY <1>2 DEF ListSSPQueueResources
<1>8. ListSSPQueues' = ListSSPQueues
  BY <1>2 DEF ListSSPQueues
<1>9. ListSSPClustersForNodeUsage' = ListSSPClustersForNodeUsage
  BY <1>1, <1>2, <1>8 DEF ListSSPClustersForNodeUsage
<1>10. FindResourceByUID' = FindResourceByUID
  BY <1>2 DEF FindResourceByUID
<1>11. FindStorageVolume' = FindStorageVolume
  BY <1>2 DEF FindStorageVolume
<1>12. FindExactVC' = FindExactVC
  BY <1>2, <1>10 DEF FindExactVC, FindResourceByName
<1>13. FindAIComputeNodes' = FindAIComputeNodes /\ FindSSPQueueResource' = FindSSPQueueResource
  BY <1>2 DEF FindAIComputeNodes, FindSSPQueueResource
<1>14. FindVCResource' = FindVCResource
  BY <1>1, <1>2 DEF FindVCResource, Forbidden
<1>15. FindQueueForAuth' = FindQueueForAuth
  BY <1>1, <1>2 DEF FindQueueForAuth
<1>16. CheckECS' = CheckECS
  BY <1>2 DEF CheckECS
<1> QED
  BY <1>3, <1>4, <1>5, <1>6, <1>7, <1>8, <1>9, <1>10, <1>11, <1>12, <1>13, <1>14, <1>15, <1>16
  DEF Answer, ListStorageVolumes, ResolveUsernames, FindSSPQueues, FindResourceByName

LEMMA QueryInitInv == QueryInit => QueryInv
<1> SUFFICES ASSUME QueryInit PROVE QueryInv
  OBVIOUS
<1>1. elsewhere \subseteq {NProfiles} \ {1} /\ question = 1 /\ said = "open"
      /\ \A p \in Profiles : asked[p] = "open"
  BY DEF QueryInit
<1>2. QueryTypes
  BY <1>1 DEF QueryInit, QueryTypes
<1>3. query = "FindQueueForAuth" => near \subseteq {p \in Profiles : place[p] = 0}
  BY Zenon DEF QueryInit
<1>4. RepliesFit
  BY <1>1, <1>3 DEF QueryInit, RepliesFit
<1> QED
  BY <1>1, <1>2, <1>4 DEF QueryInv, UnreadHave, SaidOnWhatWasRead

LEMMA QueryPreserved == QueryInv /\ [QueryNext]_queryVars => QueryInv'
<1> SUFFICES ASSUME QueryInv, [QueryNext]_queryVars PROVE QueryInv'
  OBVIOUS
<1> USE DEF QueryInv
<1>h. ASSUME UNCHANGED <<query, elsewhere, place>>  PROVE UNCHANGED <<Has, Scope>>
  BY <1>h DEF Has, Scope
<1>1. ASSUME NEW p \in Profiles, AskProfile(p)  PROVE QueryInv'
  <2>1. /\ UNCHANGED <<query, elsewhere, place, near, question, unread, over, said>>
        /\ said = "open"
    BY <1>1 DEF AskProfile
  <2>2. PICK replied \in Replies : asked' = [asked EXCEPT ![p] = replied]
    BY <1>1 DEF AskProfile
  <2>3. /\ replied \in {"all", "none", "denied", "part", "cut"}
        /\ replied = "denied" => query = "FindVCResource"
        /\ query \in Single => replied \in {"all", "none", "denied"}
    BY <2>2 DEF Replies, Single, ByToken, Gets
  <2>4. /\ asked' \in [Profiles -> {"open", "all", "none", "part", "cut", "denied"}]
        /\ asked'[p] = replied /\ \A q \in Profiles \ {p} : asked'[q] = asked[q]
    BY <2>2, <2>3 DEF QueryTypes
  <2>5. QueryTypes'
    BY <2>1, <2>4 DEF QueryTypes
  <2>6. RepliesFit'
    BY <2>1, <2>3, <2>4 DEF RepliesFit
  <2>7. UnreadHave'
    BY <1>h, <2>1 DEF UnreadHave
  <2> QED
    BY <2>1, <2>5, <2>6, <2>7 DEF SaidOnWhatWasRead
<1>2. CASE AskAgain
  <2>1. /\ UNCHANGED <<query, elsewhere, place, near, over, said>>
        /\ said = "open" /\ question = 1 /\ question' = 2 /\ Answer = "again"
        /\ unread' = IF query = "FindStorageVolume" THEN Scope \ Whole ELSE {}
        /\ asked' \in {asked, [p \in Profiles |-> "open"]}
    BY <1>2 DEF AskAgain
  <2>2. QueryTypes'
    BY <2>1 DEF QueryTypes
  <2>3. \A p \in Profiles : asked'[p] \in {asked[p], "open"}
    BY <2>1
  <2>4. RepliesFit'
    BY <2>1, <2>3 DEF RepliesFit
  <2>5. ASSUME query = "FindStorageVolume", near = {}  PROVE Has \subseteq unread'
    <3>1. FindStorageVolume = "again"
      BY <2>1, <2>5, AnswerIs
    <3>2. Seen = {}
      BY <2>1, <2>5, <3>1 DEF FindStorageVolume
    <3>3. \A p \in Has : p \in Scope /\ p \notin Whole
      BY <3>2, SetsAre, ReadingIs
    <3> QED
      BY <2>1, <2>5, <3>3
  <2>6. UnreadHave'
    BY <1>h, <2>1, <2>5 DEF UnreadHave
  <2> QED
    BY <2>1, <2>2, <2>4, <2>6 DEF SaidOnWhatWasRead
<1>3. CASE Say
  <2>1. /\ UNCHANGED <<query, elsewhere, place, near, question, asked, unread, over>>
        /\ said' = Answer
    BY <1>3 DEF Say
  <2>2. Answer' = Answer
    BY <2>1, AnswerStays
  <2>3. QueryTypes' /\ RepliesFit'
    BY <2>1 DEF QueryTypes, RepliesFit
  <2>4. UnreadHave'
    BY <1>h, <2>1 DEF UnreadHave
  <2> QED
    BY <2>1, <2>2, <2>3, <2>4 DEF SaidOnWhatWasRead
<1>4. CASE QueryOver
  <2>1. /\ UNCHANGED <<query, elsewhere, place, near, question, asked, unread, said>>
        /\ said = "open" /\ over' = TRUE
    BY <1>4 DEF QueryOver
  <2>2. QueryTypes' /\ RepliesFit'
    BY <2>1 DEF QueryTypes, RepliesFit
  <2>3. UnreadHave'
    BY <1>h, <2>1 DEF UnreadHave
  <2> QED
    BY <2>1, <2>2, <2>3 DEF SaidOnWhatWasRead
<1>5. CASE UNCHANGED queryVars
  <2>1. UNCHANGED <<query, elsewhere, place, near, question, asked, unread, over, said>>
    BY <1>5 DEF queryVars
  <2>2. Answer' = Answer
    BY <2>1, AnswerStays
  <2>3. QueryTypes' /\ RepliesFit'
    BY <2>1 DEF QueryTypes, RepliesFit
  <2>4. UnreadHave'
    BY <1>h, <2>1 DEF UnreadHave
  <2> QED
    BY <2>1, <2>2, <2>3, <2>4 DEF SaidOnWhatWasRead
<1> QED
  BY <1>1, <1>2, <1>3, <1>4, <1>5 DEF QueryNext

LEMMA QueriesHold == QueryInv => QueryIsTrue
BY KeptWhenSaid, AbsenceWhenSaid, GuessWhenSaid, GrantWhenSaid DEF QueryIsTrue
-----------------------------------------------------------------------------
(***************************************************************************)
(* ait get and its kin: a reply that is whole has all that is in scope of  *)
(* its region, whoever has read the inventory.                             *)
(***************************************************************************)
InventoryOf(r) == {w \in Listed0 : RegionOf(w) = r}

\* The workspaces, and the places of a region, that were asked for.
WorkspacesAsked == CASE named = "none" -> Listed0
            [] named = "listed" -> {1}
            [] named = "unlisted" -> {0}
AskedFor(i, r) == {w \in home[i] : RegionOf(w) = r /\ w \in WorkspacesAsked}

GetTypes ==
  /\ get \in Gets0 /\ named \in {"none", "listed", "unlisted"}
  /\ get = "pod" => named = "none"
  /\ home \in [Workloads -> SUBSET (0 .. 3)]
  /\ named = "none" => \A i \in Workloads : 0 \notin home[i]
  /\ regions \in [Workloads -> SUBSET Regions]
  /\ load \in [Regions -> [state : {"none", "loading", "done"}, by : Nat,
                           seen : SUBSET Listed0, whole : BOOLEAN]]
  /\ reply \in [Workloads -> [Regions -> [state : {"open", "done"}, got : SUBSET (0 .. 3),
                                          whole : BOOLEAN]]]
  /\ answer \in [Workloads -> {"open", "error", "missing", "incomplete", "ambiguous", "found", "partial"}]

\* An inventory that is whole has every workspace of its region.
LoadsAre ==
  \A r \in Regions :
    /\ load[r].seen \subseteq InventoryOf(r)
    /\ load[r].whole => load[r].state = "done" /\ load[r].seen = InventoryOf(r)

\* A reply without a gap has all that was asked for, or, of air get, all that is in
\* the inventories it went by.
RepliesAre ==
  \A i \in Workloads, r \in Regions :
    reply[i][r].state = "done" =>
      /\ r \in regions[i] /\ reply[i][r].got \subseteq AskedFor(i, r)
      /\ get \notin {"air", "gateway"} /\ reply[i][r].whole => reply[i][r].got = AskedFor(i, r)
      /\ get \in {"air", "gateway"} =>
           /\ i = 1 /\ named # "unlisted"
           /\ \A q \in regions[1] : load[q].state = "done"
           /\ reply[i][r].whole =>
                reply[i][r].got = {w \in home[1] \cap AirCandidates : RegionOf(w) = r}

\* A missing workload was not looked for in inventories that others read later.
MissingIsFinal ==
  \A i \in Queried :
    answer[i] = "missing" /\ get \in {"air", "gateway"} =>
      \A q \in regions[1] : load[q].state = "done"

GetInv == GetTypes /\ LoadsAre /\ RepliesAre /\ MissingIsFinal /\ GetIsTrue

LEMMA PickIs ==
  ASSUME NEW given \in SUBSET (0 .. 3), NEW whole \in BOOLEAN
  PROVE  /\ "missing" \in Pick(given, whole) => given = {} /\ whole
         /\ "found" \in Pick(given, whole) => Cardinality(given) = 1 /\ whole
         /\ Pick(given, whole) \subseteq {"missing", "incomplete", "ambiguous", "found", "partial", "error"}
<1>1. IsFiniteSet(given)
  <2>1. IsFiniteSet(0 .. 3)
    <3>1. 0 \in Int /\ 3 \in Int
      OBVIOUS
    <3> QED
      BY <3>1, FS_Interval, Zenon
  <2> QED
    BY <2>1, FS_Subset
<1>2. Cardinality(given) \in Nat /\ (Cardinality(given) = 0 <=> given = {})
  BY <1>1, FS_CardinalityType, FS_EmptySet
<1>3. CASE given = {}
  <2>1. Cardinality(given) # 1 /\ ~ (Cardinality(given) > 1)
    BY <1>2, <1>3
  <2>2. CASE whole
    <3>1. Pick(given, whole) = {"missing"}
      BY <1>3, <2>1, <2>2 DEF Pick
    <3> QED
      BY <1>3, <2>2, <3>1
  <2>3. CASE ~ whole
    <3>1. Pick(given, whole) = {"incomplete"}
      BY <1>3, <2>1, <2>3 DEF Pick
    <3> QED
      BY <3>1
  <2> QED
    BY <2>2, <2>3
<1>4. CASE Cardinality(given) > 1
  <2>1. Cardinality(given) # 1 /\ given # {}
    BY <1>2, <1>4
  <2>2. Pick(given, whole) = {"ambiguous"}
    BY <1>4, <2>1 DEF Pick
  <2> QED
    BY <2>2
<1>5. CASE Cardinality(given) = 1
  <2>1. ~ (Cardinality(given) > 1) /\ given # {}
    BY <1>2, <1>5
  <2>2. Pick(given, whole) = {IF whole THEN "found" ELSE "partial", "error"}
    BY <1>5, <2>1 DEF Pick
  <2> QED
    BY <1>5, <2>2
<1> QED
  BY <1>2, <1>3, <1>4, <1>5

LEMMA ScopeOfRegions ==
  ASSUME NEW i
  PROVE  InScope(i) = UNION {AskedFor(i, r) : r \in regions[i]}
<1>1. InScope(i) = {w \in home[i] : RegionOf(w) \in regions[i] /\ w \in WorkspacesAsked}
  BY Zenon DEF InScope, WorkspacesAsked
<1> QED
  BY <1>1 DEF AskedFor

LEMMA GetInitInv == GetInit => GetInv
<1> SUFFICES ASSUME GetInit PROVE GetInv
  OBVIOUS
<1>1. /\ regions = [i \in Workloads |-> {}]
      /\ load = [r \in Regions |-> Unread]
      /\ reply = [i \in Workloads |-> [r \in Regions |-> NoReply]]
      /\ answer = [i \in Workloads |-> "open"]
      /\ get \in Gets0 /\ named \in {"none", "listed", "unlisted"}
      /\ get = "pod" => named = "none"
  BY DEF GetInit
<1>2. home \in [Workloads -> SUBSET (0 .. 3)]
  BY DEF GetInit
<1>3. named = "none" => \A i \in Workloads : 0 \notin home[i]
  BY DEF GetInit
<1>4. /\ Unread \in [state : {"none", "loading", "done"}, by : Nat, seen : SUBSET Listed0,
                     whole : BOOLEAN]
      /\ Unread.seen = {} /\ Unread.whole = FALSE
  BY DEF Unread
<1>5. /\ NoReply \in [state : {"open", "done"}, got : SUBSET (0 .. 3), whole : BOOLEAN]
      /\ NoReply.state = "open"
  BY DEF NoReply
<1>6. GetTypes
  BY <1>1, <1>2, <1>3, <1>4, <1>5 DEF GetTypes
<1>7. LoadsAre
  BY <1>1, <1>4 DEF LoadsAre
<1>8. RepliesAre
  BY <1>1, <1>5 DEF RepliesAre
<1>9. \A i \in Queried : answer[i] = "open"
  <2>1. 1 \in Workloads
    BY NWorkloadsAssumption DEF Workloads
  <2> QED
    BY <1>1, <2>1 DEF Queried
<1> QED
  BY <1>6, <1>7, <1>8, <1>9 DEF GetInv, MissingIsFinal, GetIsTrue, MissingIsTrue, FoundIsUnique

LEMMA AskedForIs ==
  ASSUME GetTypes, NEW i \in Workloads, NEW r \in Regions
  PROVE  /\ AskedFor(i, r) \in SUBSET (0 .. 3)
         /\ named = "none" => AskedFor(i, r) = {w \in home[i] : RegionOf(w) = r}
         /\ named = "listed" => AskedFor(i, r) = {w \in home[i] \cap {1} : RegionOf(w) = r}
         /\ named = "unlisted" => AskedFor(i, r) = {w \in home[i] \cap {0} : RegionOf(w) = r}
<1>1. named = "none" => WorkspacesAsked = Listed0
  BY DEF WorkspacesAsked
<1>2. named = "listed" => WorkspacesAsked = {1}
  BY DEF WorkspacesAsked
<1>3. named = "unlisted" => WorkspacesAsked = {0}
  BY DEF WorkspacesAsked
<1>4. home[i] \subseteq 0 .. 3
  BY DEF GetTypes
<1>5. named = "none" => home[i] \subseteq Listed0
  BY <1>4 DEF GetTypes, Listed0
<1> QED
  BY <1>1, <1>2, <1>3, <1>4, <1>5 DEF AskedFor

LEMMA AskedForStays ==
  ASSUME UNCHANGED <<home, named>>, NEW i, NEW r
  PROVE  AskedFor(i, r)' = AskedFor(i, r)
<1>1. UNCHANGED WorkspacesAsked
  BY DEF WorkspacesAsked
<1> QED
  BY <1>1 DEF AskedFor

LEMMA ScopeStays ==
  ASSUME UNCHANGED <<home, named>>, NEW i, regions'[i] = regions[i]
  PROVE  InScope(i)' = InScope(i)
<1>1. InScope(i) = {w \in home[i] : RegionOf(w) \in regions[i] /\ w \in WorkspacesAsked}
  BY Zenon DEF InScope, WorkspacesAsked
<1>2. InScope(i)' = {w \in home'[i] : RegionOf(w) \in regions'[i] /\ w \in WorkspacesAsked'}
  BY Zenon DEF InScope, WorkspacesAsked
<1>3. UNCHANGED WorkspacesAsked
  BY DEF WorkspacesAsked
<1> QED
  BY <1>1, <1>2, <1>3

LEMMA QueriedAre ==
  ASSUME GetTypes
  PROVE  /\ Queried \subseteq Workloads /\ 1 \in Queried
         /\ get # "ait" => Queried = {1}
BY NWorkloadsAssumption DEF Queried, Workloads

LEMMA ReplyNext ==
  ASSUME GetInv, NEW i \in Workloads, NEW r \in Regions, NEW given, NEW whole \in BOOLEAN,
         Reply(i, r, given, whole),
         r \in regions[i], given \subseteq AskedFor(i, r),
         get \notin {"air", "gateway"} /\ whole => given = AskedFor(i, r),
         get \in {"air", "gateway"} =>
           /\ i = 1 /\ named # "unlisted"
           /\ \A q \in regions[1] : load[q].state = "done"
           /\ whole => given = {w \in home[1] \cap AirCandidates : RegionOf(w) = r}
  PROVE  GetInv'
<1> USE DEF GetInv
<1>1. /\ UNCHANGED <<get, named, home, regions, load, expired, answer>>
      /\ reply' = [reply EXCEPT ![i][r] =
           [state |-> "done", got |-> given, whole |-> whole /\ i \notin expired]]
  BY DEF Reply
<1>2. PICK b \in BOOLEAN : b = (whole /\ i \notin expired)
  OBVIOUS
<1>3. given \subseteq 0 .. 3
  BY AskedForIs
<1>4. [state |-> "done", got |-> given, whole |-> b]
        \in [state : {"open", "done"}, got : SUBSET (0 .. 3), whole : BOOLEAN]
  BY <1>3
<1>5. /\ reply' \in [Workloads -> [Regions -> [state : {"open", "done"}, got : SUBSET (0 .. 3),
                                               whole : BOOLEAN]]]
      /\ reply'[i][r] = [state |-> "done", got |-> given, whole |-> b]
      /\ \A j \in Workloads, q \in Regions : <<j, q>> # <<i, r>> => reply'[j][q] = reply[j][q]
  BY <1>1, <1>2, <1>4 DEF GetTypes
<1>6. GetTypes'
  BY <1>1, <1>5 DEF GetTypes
<1>7. LoadsAre' /\ MissingIsFinal'
  BY <1>1 DEF LoadsAre, MissingIsFinal, Queried
<1>8. UNCHANGED AirCandidates /\ \A j, q : AskedFor(j, q)' = AskedFor(j, q)
  BY <1>1, AskedForStays DEF AirCandidates
<1>9. RepliesAre'
  <2> SUFFICES ASSUME NEW j \in Workloads, NEW q \in Regions, reply'[j][q].state = "done"
      PROVE  /\ q \in regions[j] /\ reply'[j][q].got \subseteq AskedFor(j, q)
             /\ get \notin {"air", "gateway"} /\ reply'[j][q].whole => reply'[j][q].got = AskedFor(j, q)
             /\ get \in {"air", "gateway"} =>
                  /\ j = 1 /\ named # "unlisted"
                  /\ \A p \in regions[1] : load[p].state = "done"
                  /\ reply'[j][q].whole =>
                       reply'[j][q].got = {w \in home[1] \cap AirCandidates : RegionOf(w) = q}
    BY <1>1, <1>8 DEF RepliesAre
  <2>1. CASE <<j, q>> = <<i, r>>
    <3>1. j = i /\ q = r
      BY <2>1
    <3>2. reply'[j][q].got = given /\ (reply'[j][q].whole => whole)
      BY <1>2, <1>5, <3>1
    <3> QED
      BY <3>1, <3>2
  <2>2. CASE <<j, q>> # <<i, r>>
    <3>1. reply'[j][q] = reply[j][q] /\ RepliesAre
      BY <1>5, <2>2
    <3> QED
      BY <3>1 DEF RepliesAre
  <2> QED
    BY <2>1, <2>2
<1>10. GetIsTrue'
  <2>1. \A j : InScope(j)' = InScope(j)
    BY <1>1, ScopeStays
  <2>2. Forgotten' = Forgotten /\ Queried' = Queried
    BY <1>1 DEF Forgotten, Queried
  <2> QED
    BY <1>1, <2>1, <2>2 DEF GetIsTrue, MissingIsTrue, FoundIsUnique
<1> QED
  BY <1>6, <1>7, <1>9, <1>10

LEMMA AskNext ==
  ASSUME GetInv, NEW i \in Workloads, NEW r \in Regions, Ask(i, r)
  PROVE  GetInv'
<1> DEFINE here == {w \in home[i] \cap Candidates(r) : RegionOf(w) = r}
<1>1. /\ get \in {"ait", "aid"} /\ r \in regions[i]
  BY DEF Ask, InOrder
<1>2. PICK lost \in SUBSET here, other \in BOOLEAN :
        Reply(i, r, here \ lost, load[r].whole /\ lost = {} /\ ~other)
  BY DEF Ask
<1>3. here \subseteq AskedFor(i, r) /\ (load[r].whole => here = AskedFor(i, r))
  <2>0. /\ load[r].seen \subseteq InventoryOf(r)
        /\ load[r].whole => load[r].seen = InventoryOf(r)
    BY DEF GetInv, LoadsAre
  <2>1. CASE named = "none"
    <3>1. Candidates(r) = load[r].seen
      BY <2>1 DEF Candidates
    <3>2. AskedFor(i, r) = {w \in home[i] : RegionOf(w) = r} /\ home[i] \subseteq Listed0
      BY <2>1, AskedForIs DEF GetInv, GetTypes, Listed0
    <3> QED
      BY <2>0, <3>1, <3>2 DEF InventoryOf
  <2>2. CASE named = "listed"
    <3>1. Candidates(r) = {1}
      BY <2>2 DEF Candidates
    <3> QED
      BY <2>2, <3>1, AskedForIs DEF GetInv
  <2>3. CASE named = "unlisted"
    <3>1. Candidates(r) = {0}
      BY <2>3 DEF Candidates
    <3> QED
      BY <2>3, <3>1, AskedForIs DEF GetInv
  <2> QED
    BY <2>1, <2>2, <2>3 DEF GetInv, GetTypes
<1> HIDE DEF here
<1>4. PICK whole \in BOOLEAN : whole = (load[r].whole /\ lost = {} /\ ~other)
  OBVIOUS
<1>5. PICK given \in SUBSET here : given = here \ lost
  OBVIOUS
<1>6. Reply(i, r, given, whole)
  BY <1>2, <1>4, <1>5
<1>7. whole => given = AskedFor(i, r)
  BY <1>3, <1>4, <1>5
<1> QED
  BY <1>1, <1>3, <1>6, <1>7, ReplyNext

LEMMA GiveUpNext ==
  ASSUME GetInv, NEW i \in Workloads, NEW r \in Regions, GiveUp(i, r)
  PROVE  GetInv'
<1>1. /\ get \in {"ait", "aid"} /\ r \in regions[i] /\ Reply(i, r, {}, FALSE)
  BY DEF GiveUp, InOrder
<1>2. PICK given \in {{}}, whole \in {FALSE} : Reply(i, r, given, whole)
  BY <1>1
<1>3. given \subseteq AskedFor(i, r) /\ ~ whole /\ whole \in BOOLEAN
  OBVIOUS
<1> QED
  BY <1>1, <1>2, <1>3, ReplyNext

LEMMA AskAIRNext ==
  ASSUME GetInv, NEW r \in Regions, AskAIR(r)
  PROVE  GetInv'
<1> DEFINE here == {w \in home[1] \cap AirCandidates : RegionOf(w) = r}
<1>1. /\ get \in {"air", "gateway"} /\ r \in regions[1] /\ named # "unlisted"
      /\ \A q \in regions[1] : load[q].state = "done"
  BY DEF AskAIR, InOrder
<1>2. PICK lost \in SUBSET here, other \in BOOLEAN :
        Reply(1, r, here \ lost, lost = {} /\ ~other)
  BY DEF AskAIR
<1>3. 1 \in Workloads
  BY QueriedAre DEF GetInv
<1>4. here \subseteq AskedFor(1, r)
  <2>1. CASE named = "none"
    BY <1>3, <2>1, AskedForIs DEF GetInv
  <2>2. CASE named = "listed"
    BY <1>3, <2>2, AskedForIs DEF GetInv, AirCandidates
  <2> QED
    BY <1>1, <2>1, <2>2 DEF GetInv, GetTypes
<1>5. PICK whole \in BOOLEAN : whole = (lost = {} /\ ~other)
  OBVIOUS
<1>6. PICK given \in SUBSET here : given = here \ lost
  OBVIOUS
<1>7. Reply(1, r, given, whole) /\ (whole => given = here)
  BY <1>2, <1>5, <1>6
<1> QED
  BY <1>1, <1>3, <1>4, <1>7, ReplyNext

LEMMA AskPodsNext ==
  ASSUME GetInv, NEW r \in Regions, AskPods(r)
  PROVE  GetInv'
<1>1. /\ get = "pod" /\ r \in regions[1] /\ named = "none"
  BY DEF AskPods, InOrder, GetInv, GetTypes
<1>2. 1 \in Workloads
  BY QueriedAre DEF GetInv
<1>3. AskedFor(1, r) = {w \in home[1] : RegionOf(w) = r}
  BY <1>1, <1>2, AskedForIs DEF GetInv
<1>4. Reply(1, r, AskedFor(1, r), TRUE) \/ Reply(1, r, {}, FALSE)
  BY <1>3 DEF AskPods
<1>5. CASE Reply(1, r, AskedFor(1, r), TRUE)
  BY <1>1, <1>2, <1>5, ReplyNext
<1>6. CASE Reply(1, r, {}, FALSE)
  <2>1. PICK given \in {{}}, whole \in {FALSE} : Reply(1, r, given, whole)
    BY <1>6
  <2>2. given \subseteq AskedFor(1, r) /\ ~ whole /\ whole \in BOOLEAN
    OBVIOUS
  <2> QED
    BY <1>1, <1>2, <2>1, <2>2, ReplyNext
<1> QED
  BY <1>4, <1>5, <1>6

LEMMA MovesOfGet ==
  ASSUME GetInv, NEW i \in Queried,
         ResolveRegions(i) \/ DetectOther(i) \/ Expire(i)
         \/ \E r \in Regions : BeginLoad(i, r) \/ EndLoad(r)
  PROVE  GetInv'
<1> USE DEF GetInv
<1>0. /\ i \in Workloads /\ 1 \in Workloads /\ (get # "ait" => i = 1)
      /\ UNCHANGED <<get, named, home>>
  BY QueriedAre DEF ResolveRegions, DetectOther, Expire, BeginLoad, EndLoad
<1>q. Queried' = Queried /\ \A j, q : AskedFor(j, q)' = AskedFor(j, q)
  BY <1>0, AskedForStays DEF Queried
<1>1. CASE ResolveRegions(i)
  <2>1. /\ UNCHANGED <<load, reply, answer>> /\ answer[i] = "open" /\ regions[i] = {}
    BY <1>1 DEF ResolveRegions
  <2>2. PICK R \in {{1}, Regions} \cup {{RegionOf(w)} : w \in home[i]} :
          regions' = [regions EXCEPT ![i] = R]
    BY <1>1 DEF ResolveRegions
  <2>3. R \subseteq Regions
    BY DEF Regions, RegionOf
  <2>4. /\ regions' \in [Workloads -> SUBSET Regions] /\ regions'[i] = R
        /\ \A j \in Workloads \ {i} : regions'[j] = regions[j]
    BY <1>0, <2>2, <2>3 DEF GetTypes
  <2>5. GetTypes' /\ LoadsAre'
    BY <1>0, <2>1, <2>4 DEF GetTypes, LoadsAre
  <2>6. \A r \in Regions : reply[i][r].state # "done"
    BY <1>0, <2>1 DEF RepliesAre
  <2>7. RepliesAre'
    <3>1. CASE get \in {"air", "gateway"}
      <4>1. \A j \in Workloads, r \in Regions : reply[j][r].state # "done"
        BY <1>0, <2>6, <3>1 DEF RepliesAre
      <4> QED
        BY <2>1, <4>1 DEF RepliesAre
    <3>2. CASE get \notin {"air", "gateway"}
      <4> SUFFICES ASSUME NEW j \in Workloads, NEW r \in Regions, reply[j][r].state = "done"
          PROVE  /\ r \in regions'[j] /\ reply[j][r].got \subseteq AskedFor(j, r)
                 /\ reply[j][r].whole => reply[j][r].got = AskedFor(j, r)
        BY <1>0, <1>q, <2>1, <3>2 DEF RepliesAre
      <4>1. j # i
        BY <2>6
      <4> QED
        BY <2>4, <3>2, <4>1 DEF RepliesAre
    <3> QED
      BY <3>1, <3>2
  <2>8. ASSUME get \in {"air", "gateway"}  PROVE \A j \in Queried : answer[j] = "open"
    BY <1>0, <2>1, <2>8, QueriedAre
  <2>9. MissingIsFinal'
    BY <1>0, <1>q, <2>1, <2>8 DEF MissingIsFinal
  <2>10. GetIsTrue'
    <3> SUFFICES ASSUME NEW j \in Queried, answer[j] # "open", get \notin {"air", "gateway"}
                 PROVE  /\ answer[j] = "missing" => InScope(j)' = {}
                        /\ answer[j] = "found" => Cardinality(InScope(j)') = 1
      BY <1>0, <1>q, <2>1, <2>8 DEF GetIsTrue, MissingIsTrue, FoundIsUnique
    <3>1. regions'[j] = regions[j]
      BY <2>1, <2>4, QueriedAre
    <3>2. InScope(j)' = InScope(j)
      BY <1>0, <3>1, ScopeStays
    <3>3. ~ Forgotten
      BY DEF Forgotten
    <3> QED
      BY <3>2, <3>3 DEF GetIsTrue, MissingIsTrue, FoundIsUnique
  <2> QED
    BY <2>5, <2>7, <2>9, <2>10
<1>s. ASSUME UNCHANGED regions  PROVE \A j : InScope(j)' = InScope(j)
  BY <1>0, <1>s, ScopeStays
<1>2. CASE DetectOther(i)
  <2>1. /\ UNCHANGED <<regions, load, reply>> /\ answer' = [answer EXCEPT ![i] = "error"]
    BY <1>2 DEF DetectOther
  <2>2. \A j \in Workloads : answer'[j] \in {answer[j], "error"}
    BY <2>1 DEF GetTypes
  <2>3. GetTypes' /\ LoadsAre'
    BY <1>0, <2>1 DEF GetTypes, LoadsAre
  <2>4. UNCHANGED AirCandidates /\ UNCHANGED Forgotten
    BY <1>0, <2>1 DEF AirCandidates, Forgotten
  <2>5. RepliesAre'
    BY <1>0, <1>q, <2>1, <2>4 DEF RepliesAre
  <2>6. MissingIsFinal'
    BY <1>0, <1>q, <2>1, <2>2, QueriedAre DEF MissingIsFinal
  <2>7. GetIsTrue'
    BY <1>0, <1>q, <1>s, <2>1, <2>2, <2>4, QueriedAre DEF GetIsTrue, MissingIsTrue, FoundIsUnique
  <2> QED
    BY <2>3, <2>5, <2>6, <2>7
<1>3. CASE Expire(i)
  <2>1. UNCHANGED <<regions, load, reply, answer>>
    BY <1>3 DEF Expire
  <2>2. GetTypes' /\ LoadsAre'
    BY <1>0, <2>1 DEF GetTypes, LoadsAre
  <2>3. UNCHANGED AirCandidates /\ UNCHANGED Forgotten
    BY <1>0, <2>1 DEF AirCandidates, Forgotten
  <2>4. RepliesAre'
    BY <1>0, <1>q, <2>1, <2>3 DEF RepliesAre
  <2>5. MissingIsFinal'
    BY <1>0, <1>q, <2>1 DEF MissingIsFinal
  <2>6. GetIsTrue'
    BY <1>0, <1>q, <1>s, <2>1, <2>3 DEF GetIsTrue, MissingIsTrue, FoundIsUnique
  <2> QED
    BY <2>2, <2>4, <2>5, <2>6
<1>l. ASSUME NEW r \in Regions, NEW new, load' = [load EXCEPT ![r] = new],
             new \in [state : {"none", "loading", "done"}, by : Nat, seen : SUBSET Listed0,
                      whole : BOOLEAN],
             new.seen \subseteq InventoryOf(r),
             new.whole => new.state = "done" /\ new.seen = InventoryOf(r),
             load[r].state # "done", UNCHANGED <<regions, reply, answer>>
      PROVE  GetInv'
  <2>1. /\ load'[r] = new /\ \A q \in Regions \ {r} : load'[q] = load[q]
        /\ load' \in [Regions -> [state : {"none", "loading", "done"}, by : Nat,
                                  seen : SUBSET Listed0, whole : BOOLEAN]]
    BY <1>l DEF GetTypes
  <2>2. GetTypes' /\ LoadsAre'
    BY <1>0, <1>l, <2>1 DEF GetTypes, LoadsAre
  <2>3. ASSUME \A q \in regions[1] : load[q].state = "done"
        PROVE  /\ \A q \in regions[1] : load'[q] = load[q]
               /\ UNCHANGED AirCandidates /\ UNCHANGED Forgotten
    <3>1. regions[1] \subseteq Regions \ {r}
      BY <1>0, <1>l, <2>3 DEF GetTypes
    <3>2. \A q \in regions[1] : load'[q] = load[q]
      BY <2>1, <3>1
    <3>3. UNCHANGED AirCandidates
      <4>1. UNION {load'[q].seen : q \in regions[1]} = UNION {load[q].seen : q \in regions[1]}
        BY <3>2
      <4> QED
        BY <1>0, <1>l, <4>1 DEF AirCandidates
    <3>4. UNCHANGED Forgotten
      BY <1>0, <1>l, <3>2 DEF Forgotten
    <3> QED
      BY <3>2, <3>3, <3>4
  <2>4. RepliesAre'
    <3> SUFFICES ASSUME NEW j \in Workloads, NEW q \in Regions, reply[j][q].state = "done"
        PROVE  /\ q \in regions[j] /\ reply[j][q].got \subseteq AskedFor(j, q)
               /\ get \notin {"air", "gateway"} /\ reply[j][q].whole => reply[j][q].got = AskedFor(j, q)
               /\ get \in {"air", "gateway"} =>
                    /\ j = 1 /\ named # "unlisted"
                    /\ \A p \in regions[1] : load'[p].state = "done"
                    /\ reply[j][q].whole =>
                         reply[j][q].got = {w \in home[1] \cap AirCandidates' : RegionOf(w) = q}
      BY <1>0, <1>l, <1>q DEF RepliesAre
    <3> QED
      BY <2>3 DEF RepliesAre
  <2>5. MissingIsFinal'
    BY <1>0, <1>l, <1>q, <2>3 DEF MissingIsFinal
  <2>6. GetIsTrue'
    <3>1. ASSUME NEW j \in Queried, answer[j] = "missing"  PROVE InScope(j) = {} \/ Forgotten'
      <4>1. CASE get \in {"air", "gateway"}
        BY <2>3, <3>1, <4>1 DEF MissingIsFinal, GetIsTrue, MissingIsTrue
      <4>2. CASE get \notin {"air", "gateway"}
        BY <3>1, <4>2 DEF GetIsTrue, MissingIsTrue, Forgotten
      <4> QED
        BY <4>1, <4>2
    <3> QED
      BY <1>0, <1>l, <1>q, <1>s, <3>1 DEF GetIsTrue, MissingIsTrue, FoundIsUnique
  <2> QED
    BY <2>2, <2>4, <2>5, <2>6
<1>4. ASSUME NEW r \in Regions, BeginLoad(i, r)  PROVE GetInv'
  <2> DEFINE new == [state |-> "loading", by |-> i, seen |-> {}, whole |-> FALSE]
  <2>1. load' = [load EXCEPT ![r] = new] /\ load[r].state = "none"
        /\ UNCHANGED <<regions, reply, answer>>
    BY <1>4 DEF BeginLoad
  <2>2. new \in [state : {"none", "loading", "done"}, by : Nat, seen : SUBSET Listed0, whole : BOOLEAN]
        /\ new.seen \subseteq InventoryOf(r) /\ ~ new.whole
    BY <1>0 DEF Workloads
  <2> HIDE DEF new
  <2> QED
    BY <1>l, <2>1, <2>2
<1>5. ASSUME NEW r \in Regions, EndLoad(r)  PROVE GetInv'
  <2>1. PICK known \in SUBSET InventoryOf(r), whole \in BOOLEAN :
          /\ whole => known = InventoryOf(r)
          /\ load' = [load EXCEPT ![r] =
               [state |-> "done", by |-> load[r].by, seen |-> known, whole |-> whole]]
    BY <1>5 DEF EndLoad, InventoryOf
  <2>2. load[r].state = "loading" /\ UNCHANGED <<regions, reply, answer>>
    BY <1>5 DEF EndLoad
  <2> DEFINE new == [state |-> "done", by |-> load[r].by, seen |-> known, whole |-> whole]
  <2>3. load[r].by \in Nat /\ InventoryOf(r) \subseteq Listed0
    BY DEF GetTypes, InventoryOf
  <2>4. /\ new \in [state : {"none", "loading", "done"}, by : Nat, seen : SUBSET Listed0, whole : BOOLEAN]
        /\ new.seen \subseteq InventoryOf(r)
        /\ new.whole => new.state = "done" /\ new.seen = InventoryOf(r)
    BY <2>1, <2>3
  <2>5. load' = [load EXCEPT ![r] = new]
    BY <2>1
  <2> HIDE DEF new
  <2> QED
    BY <1>l, <2>2, <2>4, <2>5
<1> QED
  BY <1>1, <1>2, <1>3, <1>4, <1>5

\* One environment after the other: none is left out of a "missing" or a "found".
LEMMA MergeIs ==
  ASSUME GetTypes, NEW replies, DOMAIN replies = regions[1]
  PROVE  /\ Merge0(replies) \in {"ambiguous", "found", "partial", "missing", "incomplete"}
         /\ Merge0(replies) = "missing" => \A r \in regions[1] : replies[r] = "missing"
         /\ Merge0(replies) = "found" =>
              \E r \in regions[1] :
                replies[r] = "found" /\ \A q \in regions[1] \ {r} : replies[q] = "missing"
<1> DEFINE matches == {r \in regions[1] : replies[r] \in {"found", "partial"}}
           failures == {r \in regions[1] : replies[r] \notin {"found", "missing"}}
<1>1. IsFiniteSet(matches)
  <2>1. IsFiniteSet(1 .. 2)
    <3>1. 1 \in Int /\ 2 \in Int
      OBVIOUS
    <3> QED
      BY <3>1, FS_Interval, Zenon
  <2>2. matches \subseteq 1 .. 2
    <3>1. 1 \in Workloads
      BY QueriedAre
    <3>2. regions[1] \subseteq {1, 2}
      BY <3>1 DEF GetTypes, Regions
    <3> QED
      BY <3>2
  <2> QED
    BY <2>1, <2>2, FS_Subset
<1>2. Cardinality(matches) \in Nat /\ (Cardinality(matches) = 0 <=> matches = {})
  BY <1>1, FS_CardinalityType, FS_EmptySet
<1>3. Merge0(replies) =
        CASE Cardinality(matches) > 1 -> "ambiguous"
          [] Cardinality(matches) = 1 -> IF failures = {} THEN "found" ELSE "partial"
          [] matches = {} -> IF failures = {} THEN "missing" ELSE "incomplete"
  BY DEF Merge0
<1>4. failures = {} => \A r \in regions[1] : replies[r] \in {"found", "missing"}
  OBVIOUS
<1>5. matches = {} => \A r \in regions[1] : replies[r] \notin {"found", "partial"}
  OBVIOUS
<1>6. CASE matches = {}
  <2>1. ~ (Cardinality(matches) > 1) /\ Cardinality(matches) # 1
    BY <1>2, <1>6
  <2>2. Merge0(replies) = IF failures = {} THEN "missing" ELSE "incomplete"
    BY <1>3, <1>6, <2>1
  <2> QED
    BY <1>4, <1>5, <1>6, <2>2
<1>7. CASE Cardinality(matches) > 1
  <2>1. Cardinality(matches) # 1 /\ matches # {}
    BY <1>2, <1>7
  <2>2. Merge0(replies) = "ambiguous"
    BY <1>3, <1>7, <2>1
  <2> QED
    BY <2>2
<1>8. CASE Cardinality(matches) = 1
  <2>1. ~ (Cardinality(matches) > 1) /\ matches # {}
    BY <1>2, <1>8
  <2>2. Merge0(replies) = IF failures = {} THEN "found" ELSE "partial"
    BY <1>3, <1>8, <2>1
  <2>3. PICK r : matches = {r}
    BY <1>1, <1>8, FS_Singleton
  <2>4. r \in regions[1] /\ replies[r] \in {"found", "partial"}
        /\ \A q \in regions[1] \ {r} : replies[q] \notin {"found", "partial"}
    BY <2>3
  <2> QED
    BY <1>4, <2>2, <2>4
<1> QED
  BY <1>2, <1>6, <1>7, <1>8

LEMMA AnswerGetNext ==
  ASSUME GetInv, NEW i \in Queried, AnswerGet(i)
  PROVE  GetInv'
<1> USE DEF GetInv
<1>0. /\ i \in Workloads /\ 1 \in Workloads /\ (get # "ait" => i = 1)
      /\ UNCHANGED <<get, named, home, regions, load, reply, expired>>
      /\ answer[i] = "open" /\ Answered(i)
  BY QueriedAre DEF AnswerGet
<1>t. /\ regions[i] \subseteq Regions /\ home[i] \subseteq 0 .. 3
      /\ \A r \in Regions : reply[i][r].got \subseteq 0 .. 3 /\ reply[i][r].whole \in BOOLEAN
  BY <1>0 DEF GetTypes
<1>g. Got(i) \in SUBSET (0 .. 3) /\ WholeReply(i) \in BOOLEAN
  BY <1>t DEF Got, WholeReply
<1>d. get \notin {"air", "gateway"} => \A r \in regions[i] : reply[i][r].state = "done"
  BY <1>0 DEF Answered
<1>w. ASSUME get \notin {"air", "gateway"}, NEW r \in regions[i], reply[i][r].whole
      PROVE  reply[i][r].got = AskedFor(i, r)
  BY <1>0, <1>d, <1>t, <1>w DEF RepliesAre
<1>s. InScope(i) = UNION {AskedFor(i, r) : r \in regions[i]}
  BY ScopeOfRegions
<1>1. PICK a \in (CASE get = "ait" -> AITAnswers(i)
                   [] get \in {"aid", "pod"} -> EnvironmentAnswers
                   [] get \in {"air", "gateway"} -> AIRAnswers) :
        answer' = [answer EXCEPT ![i] = a]
  BY DEF AnswerGet
<1>2. /\ a \in {"open", "error", "missing", "incomplete", "ambiguous", "found", "partial"}
      /\ a = "missing" =>
           /\ InScope(i) = {} \/ Forgotten
           /\ get \in {"air", "gateway"} => \A q \in regions[1] : load[q].state = "done"
      /\ a = "found" => Cardinality(InScope(i)) = 1 \/ get \in {"air", "gateway"}
  <2>1. CASE get = "ait"
    <3>1. a \in AITAnswers(i)
      BY <1>1, <2>1
    <3>2. a = "error" \/ a \in Pick(Got(i), WholeReply(i))
      BY <3>1 DEF AITAnswers
    <3>3. WholeReply(i) => InScope(i) = Got(i)
      BY <1>s, <1>w, <2>1 DEF WholeReply, Got
    <3>4. a \in Pick(Got(i), WholeReply(i)) =>
            /\ a \in {"missing", "incomplete", "ambiguous", "found", "partial", "error"}
            /\ a = "missing" => Got(i) = {} /\ WholeReply(i)
            /\ a = "found" => Cardinality(Got(i)) = 1 /\ WholeReply(i)
      BY <1>g, PickIs
    <3> QED
      BY <2>1, <3>2, <3>3, <3>4
  <2>2. CASE get \in {"aid", "pod"}
    <3>1. a \in EnvironmentAnswers /\ i = 1
      BY <1>0, <1>1, <2>2
    <3>2. CASE a = "error"
      BY <3>2
    <3>3. CASE a # "error"
      <4>1. PICK replies : /\ DOMAIN replies = regions[1] /\ \A r \in regions[1] : replies[r] \in InRegion(r)
                        /\ a = Merge0(replies)
        BY <3>1, <3>3 DEF EnvironmentAnswers
      <4>2. ASSUME NEW r \in regions[1]
            PROVE  /\ replies[r] = "missing" => AskedFor(1, r) = {}
                   /\ replies[r] = "found" => Cardinality(AskedFor(1, r)) = 1
        <5>1. replies[r] \in Pick(reply[1][r].got, reply[1][r].whole)
          BY <4>1 DEF InRegion
        <5>2. reply[1][r].got \in SUBSET (0 .. 3) /\ reply[1][r].whole \in BOOLEAN
          BY <1>t, <3>1
        <5>3. /\ replies[r] = "missing" => reply[1][r].got = {} /\ reply[1][r].whole
              /\ replies[r] = "found" => Cardinality(reply[1][r].got) = 1 /\ reply[1][r].whole
          BY <5>1, <5>2, PickIs
        <5> QED
          BY <1>w, <2>2, <3>1, <5>3
      <4>3. /\ Merge0(replies) \in {"ambiguous", "found", "partial", "missing", "incomplete"}
            /\ Merge0(replies) = "missing" => \A r \in regions[1] : replies[r] = "missing"
            /\ Merge0(replies) = "found" =>
                 \E r \in regions[1] :
                   replies[r] = "found" /\ \A q \in regions[1] \ {r} : replies[q] = "missing"
        BY <4>1, MergeIs
      <4>4. ASSUME a = "missing"  PROVE InScope(i) = {}
        BY <1>s, <3>1, <4>1, <4>2, <4>3, <4>4
      <4>5. ASSUME a = "found"  PROVE Cardinality(InScope(i)) = 1
        <5>1. PICK r \in regions[1] :
                replies[r] = "found" /\ \A q \in regions[1] \ {r} : replies[q] = "missing"
          BY <4>1, <4>3, <4>5
        <5>2. InScope(i) = AskedFor(1, r)
          BY <1>s, <3>1, <4>2, <5>1
        <5> QED
          BY <4>2, <5>1, <5>2
      <4> QED
        BY <2>2, <4>1, <4>3, <4>4, <4>5
    <3> QED
      BY <3>2, <3>3
  <2>3. CASE get \in {"air", "gateway"}
    <3>1. a \in AIRAnswers /\ i = 1
      BY <1>0, <1>1, <2>3
    <3>2. CASE a = "error"
      BY <3>2
    <3>3. CASE a # "error"
      <4>1. /\ AirCandidates # {} /\ named # "unlisted"
            /\ a \in Pick(Got(1), Got(1) # {} \/ WholeReply(1))
        BY <3>1, <3>3 DEF AIRAnswers
      <4>2. PICK w \in BOOLEAN : w = (Got(1) # {} \/ WholeReply(1))
        OBVIOUS
      <4>3. /\ a \in {"missing", "incomplete", "ambiguous", "found", "partial", "error"}
            /\ a = "missing" => Got(1) = {} /\ w
        BY <1>g, <3>1, <4>1, <4>2, PickIs
      <4>4. \A r \in regions[1] : reply[1][r].state = "done"
        BY <1>0, <3>1, <4>1 DEF Answered
      <4>r. ASSUME NEW r \in regions[1]
            PROVE  /\ \A q \in regions[1] : load[q].state = "done"
                   /\ reply[1][r].whole =>
                        reply[1][r].got = {w0 \in home[1] \cap AirCandidates : RegionOf(w0) = r}
        <5>1. r \in Regions /\ 1 \in Workloads /\ reply[1][r].state = "done"
          BY <1>0, <1>t, <3>1, <4>4
        <5>2. RepliesAre
          OBVIOUS
        <5> QED
          BY <2>3, <5>1, <5>2 DEF RepliesAre
      <4>5. \A q \in regions[1] : load[q].state = "done"
        BY <4>r
      <4>6. ASSUME a = "missing", ~ Forgotten  PROVE InScope(1) = {}
        <5>1. \A r \in regions[1] : load[r].whole /\ reply[1][r].whole /\ reply[1][r].got = {}
          BY <2>3, <4>2, <4>3, <4>6 DEF Forgotten, WholeReply, Got
        <5>2. \A r \in regions[1] : {w0 \in home[1] \cap AirCandidates : RegionOf(w0) = r} = {}
          BY <4>r, <5>1
        <5>3. \A r \in regions[1] : load[r].seen = InventoryOf(r)
          BY <1>t, <3>1, <5>1 DEF LoadsAre
        <5>4. ASSUME NEW r \in regions[1], NEW w0 \in AskedFor(1, r)  PROVE FALSE
          <6>1. w0 \in home[1] /\ RegionOf(w0) = r /\ (named = "none" \/ w0 = 1) /\ w0 \in Listed0
            <7>1. CASE named = "none"
              BY <1>0, <1>t, <3>1, <5>4, <7>1, AskedForIs DEF GetTypes, Listed0
            <7>2. CASE named = "listed"
              BY <1>0, <1>t, <3>1, <5>4, <7>2, AskedForIs DEF Listed0
            <7> QED
              BY <4>1, <7>1, <7>2 DEF GetTypes
          <6>2. w0 \in load[r].seen
            BY <5>3, <6>1 DEF InventoryOf
          <6>3. w0 \in AirCandidates
            BY <6>1, <6>2 DEF AirCandidates
          <6> QED
            BY <5>2, <6>1, <6>3
        <5> QED
          BY <1>s, <3>1, <5>4
      <4> QED
        BY <2>3, <3>1, <4>3, <4>5, <4>6
    <3> QED
      BY <3>2, <3>3
  <2> QED
    BY <2>1, <2>2, <2>3 DEF GetTypes, Gets0
<1>3. /\ answer'[i] = a /\ \A j \in Workloads \ {i} : answer'[j] = answer[j]
      /\ answer' \in [Workloads -> {"open", "error", "missing", "incomplete", "ambiguous", "found",
                                    "partial"}]
  BY <1>0, <1>1, <1>2 DEF GetTypes
<1>4. GetTypes' /\ LoadsAre'
  BY <1>0, <1>3 DEF GetTypes, LoadsAre
<1>5. /\ UNCHANGED <<Queried, Forgotten, AirCandidates>>
      /\ \A j, q : AskedFor(j, q)' = AskedFor(j, q)
      /\ \A j : InScope(j)' = InScope(j)
  BY <1>0, AskedForStays, ScopeStays DEF Queried, Forgotten, AirCandidates
<1>6. RepliesAre'
  BY <1>0, <1>5 DEF RepliesAre
<1>7. MissingIsFinal'
  BY <1>0, <1>2, <1>3, <1>5, QueriedAre DEF MissingIsFinal
<1>8. GetIsTrue'
  BY <1>0, <1>2, <1>3, <1>5, QueriedAre DEF GetIsTrue, MissingIsTrue, FoundIsUnique
<1> QED
  BY <1>4, <1>6, <1>7, <1>8

LEMMA GetPreserved == GetInv /\ [GetNext]_getVars => GetInv'
<1> SUFFICES ASSUME GetInv, [GetNext]_getVars PROVE GetInv'
  OBVIOUS
<1>1. ASSUME NEW i \in Queried, GetStep(i) \/ Expire(i)  PROVE GetInv'
  <2>1. i \in Workloads
    BY QueriedAre DEF GetInv
  <2>2. CASE AnswerGet(i)
    BY <2>2, AnswerGetNext
  <2>3. CASE ResolveRegions(i) \/ DetectOther(i) \/ Expire(i)
             \/ \E r \in Regions : BeginLoad(i, r) \/ EndLoad(r)
    BY <2>3, MovesOfGet
  <2>4. ASSUME NEW r \in Regions, Ask(i, r) \/ GiveUp(i, r) \/ AskAIR(r) \/ AskPods(r)
        PROVE  GetInv'
    BY <2>1, <2>4, AskNext, GiveUpNext, AskAIRNext, AskPodsNext
  <2> QED
    BY <1>1, <2>2, <2>3, <2>4 DEF GetStep
<1>2. CASE UNCHANGED getVars
  <2>1. UNCHANGED <<get, named, home, regions, load, reply, expired, answer>>
    BY <1>2 DEF getVars
  <2>2. /\ UNCHANGED <<Queried, Forgotten, AirCandidates>>
        /\ \A j, q : AskedFor(j, q)' = AskedFor(j, q)
        /\ \A j : InScope(j)' = InScope(j)
    BY <2>1, AskedForStays, ScopeStays DEF Queried, Forgotten, AirCandidates
  <2> QED
    BY <2>1, <2>2 DEF GetInv, GetTypes, LoadsAre, RepliesAre, MissingIsFinal, GetIsTrue, MissingIsTrue,
       FoundIsUnique
<1> QED
  BY <1>1, <1>2 DEF GetNext
-----------------------------------------------------------------------------
(***************************************************************************)
(* Users: one invariant for each of the things a command looks for.        *)
(***************************************************************************)
FindInv ==
  looking = "find" =>
    /\ people \in [like : [Users -> Likeness], filter : {"works", "refused", "blind"}]
    /\ turn \in {"exact", "details", "filtered", "all", "failed", "found", "not found"}
    /\ turn = "details" => seen = MatchUsers
    /\ UserIsMeant

\* What has been read of the bindings is still so, or was so when the command began.
PermissionsInv ==
  looking = "permissions" =>
    /\ people \in [bound : SUBSET Bindings, was : SUBSET Bindings, grouped : SUBSET Users,
                   asked : (SUBSET Users) \ {{}}]
    /\ people.bound \subseteq people.was
    /\ seen \in [groups : [Users -> {"unread", "g", "none"}], batches : SUBSET (1 .. 2),
                 bindings : SUBSET Bindings]
    /\ seen.bindings \subseteq people.was
    /\ turn \in {"groups", "bindings", "failed", "shown"}
    /\ turn = "groups" => seen.batches = {}
    /\ turn \in {"bindings", "shown"} => \A u \in people.asked : seen.groups[u] # "unread"
    /\ turn = "shown" => seen.batches = {1, 2}
    /\ \A u \in Users : /\ seen.groups[u] = "g" => u \in people.grouped
                        /\ seen.groups[u] = "none" => u \notin people.grouped
    /\ \A n \in seen.batches : {b \in people.bound : b[2] \in Batch(n)} \subseteq seen.bindings

GroupInv ==
  looking = "group" =>
    /\ people \in [inside : SUBSET Users, admins : SUBSET Users, same : BOOLEAN, changed : BOOLEAN]
    /\ seen \in [members : SUBSET Users, admins : SUBSET Users, read : SUBSET {"members", "admins"}]

WorkloadsInv ==
  looking = "workloads" =>
    /\ people \in [{"ait", "air"} -> [WorkspacesRead -> Owners]]
    /\ seen \in [WorkloadLists -> {"unread", "read", "failed"}]
    /\ turn = "shown" => \E t \in WorkloadLists : seen[t] = "read"

\* A profile's turn comes when those before it have failed.
LogsInv ==
  looking = "logs" =>
    /\ people \subseteq LogProfiles
    /\ seen \in [LogProfiles -> {"unasked", "failed", "its VC", "the name", "token",
                                 "token of the name", "logs", "nothing"}]
    /\ turn = "failed" => \A p \in LogProfiles : seen[p] = "failed"
    /\ \A p \in LogProfiles :
         /\ seen[p] \in {"its VC", "token", "logs"} => p \in people
         /\ seen[p] # "unasked" => \A q \in LogProfiles : q < p => seen[q] = "failed"
         /\ seen[p] \in {"logs", "nothing"} => turn = "shown"

\* The events are asked for with what the user was asked for.
AuditInv ==
  looking = "audit" =>
    /\ people \in [name : {"name", "id", ""}, id : {"id", ""}, asked : {"", "name", "id"}]
    /\ seen \in [filters : SUBSET {"name", "id"}, names : BOOLEAN]
    /\ turn \in {"filters", "events", "names", "failed", "nothing", "shown"}
    /\ turn # "filters" => IF people.asked = "" THEN seen.filters = {}
                                                ELSE people.asked \in seen.filters
    /\ turn = "nothing" => people.asked \notin ToldBy(people)

LookingFor == looking \in {"find", "permissions", "group", "workloads", "logs", "audit"}

UserInv ==
  LookingFor /\ FindInv /\ PermissionsInv /\ GroupInv /\ WorkloadsInv /\ LogsInv /\ AuditInv

LEMMA UserInitInv == UserInit => UserInv
<1> SUFFICES ASSUME UserInit PROVE UserInv
  OBVIOUS
<1>1. CASE looking = "find" /\ FindInit
  BY <1>1 DEF UserInv, LookingFor, FindInv, PermissionsInv, GroupInv, WorkloadsInv, LogsInv, AuditInv,
     FindInit, UserIsMeant
<1>2. CASE looking = "permissions" /\ PermissionsInit
  <2>1. people \in [bound : SUBSET Bindings, was : SUBSET Bindings, grouped : SUBSET Users,
                    asked : (SUBSET Users) \ {{}}]
        /\ people.bound = people.was
    BY <1>2 DEF PermissionsInit
  <2>2. PermissionsInv
    BY <1>2, <2>1 DEF PermissionsInit, PermissionsInv
  <2> QED
    BY <1>2, <2>2 DEF UserInv, LookingFor, FindInv, GroupInv, WorkloadsInv, LogsInv, AuditInv
<1>3. CASE looking = "group" /\ GroupInit
  BY <1>3 DEF UserInv, LookingFor, FindInv, PermissionsInv, GroupInv, WorkloadsInv, LogsInv, AuditInv,
     GroupInit
<1>4. CASE looking = "workloads" /\ WorkloadsInit
  BY <1>4 DEF UserInv, LookingFor, FindInv, PermissionsInv, GroupInv, WorkloadsInv, LogsInv, AuditInv,
     WorkloadsInit
<1>5. CASE looking = "logs" /\ LogsInit
  BY <1>5 DEF UserInv, LookingFor, FindInv, PermissionsInv, GroupInv, WorkloadsInv, LogsInv, AuditInv,
     LogsInit
<1>6. CASE looking = "audit" /\ AuditInit
  BY <1>6 DEF UserInv, LookingFor, FindInv, PermissionsInv, GroupInv, WorkloadsInv, LogsInv, AuditInv,
     AuditInit
<1> QED
  BY <1>1, <1>2, <1>3, <1>4, <1>5, <1>6 DEF UserInit

\* The steps of each reading, told by what is looked for.
LEMMA UserStepIs ==
  ASSUME UserNext
  PROVE  /\ looking' = looking
         /\ looking = "find" => FindStep
         /\ looking = "permissions" => PermissionsStep \/ RevokeBinding
         /\ looking = "group" => GroupStep \/ ChangeGroup
         /\ looking = "workloads" => WorkloadsStep
         /\ looking = "logs" => LogsStep
         /\ looking = "audit" => AuditStep
<1>1. CASE FindStep
  BY <1>1 DEF FindStep, FindExact, FindDetails, FindFiltered, FindAmongAll, Turn, Saw
<1>2. CASE PermissionsStep
  BY <1>2 DEF PermissionsStep, GroupsRead, ShowPermissions, ReadGroupsOf, ReadBatch, Turn, Saw
<1>3. CASE RevokeBinding
  BY <1>3 DEF RevokeBinding
<1>4. CASE GroupStep
  BY <1>4 DEF GroupStep, ReadMembers, ReadAdmins, ShowMembers, Turn, Saw
<1>5. CASE ChangeGroup
  BY <1>5 DEF ChangeGroup
<1>6. CASE WorkloadsStep
  BY <1>6 DEF WorkloadsStep, ReadWorkspaces, ShowWorkloads, ReadTarget, Turn, Saw
<1>7. CASE LogsStep
  BY <1>7 DEF LogsStep, LogsFail, FindLogVC, MakeQueryToken, QueryLogs, LogsTurn, Turn, Saw
<1>8. CASE AuditStep
  BY <1>8 DEF AuditStep, FilterByUser, QueryEvents, ResolveNames, Turn, Saw
<1> QED
  BY <1>1, <1>2, <1>3, <1>4, <1>5, <1>6, <1>7, <1>8 DEF UserNext

LEMMA FindNextInv ==
  ASSUME FindInv, looking = "find", FindStep, looking' = looking
  PROVE  FindInv'
<1>1. /\ people \in [like : [Users -> Likeness], filter : {"works", "refused", "blind"}]
      /\ people' = people
  BY DEF FindInv, FindStep, FindExact, FindDetails, FindFiltered, FindAmongAll, Turn, Saw
<1>2. /\ \A l : Like(l)' = Like(l)
      /\ MatchUsers' = MatchUsers
  BY <1>1 DEF Like, MatchUsers
<1>3. Like("exact") # {} => MatchUsers = Like("exact")
  BY DEF MatchUsers
<1>4. MatchUsers = {} => \A u \in Users : people.like[u] = "no"
  BY <1>1 DEF MatchUsers, Like, Likeness
<1>5. /\ turn' \in {"exact", "details", "filtered", "all", "failed", "found", "not found"}
      /\ turn' = "details" => seen' = MatchUsers
      /\ turn' = "not found" => MatchUsers = {}
      /\ turn' = "found" => seen' = MatchUsers
  BY <1>3 DEF FindInv, FindStep, FindExact, FindDetails, FindFiltered, FindAmongAll, Turn, Saw
<1> QED
  BY <1>1, <1>2, <1>4, <1>5 DEF FindInv, UserIsMeant

LEMMA PermissionsNextInv ==
  ASSUME PermissionsInv, looking = "permissions", PermissionsStep \/ RevokeBinding,
         looking' = looking
  PROVE  PermissionsInv'
<1>1. CASE RevokeBinding
  <2>1. PICK b \in people.bound : people' = [people EXCEPT !.bound = @ \ {b}]
    BY <1>1 DEF RevokeBinding
  <2>2. /\ people' \in [bound : SUBSET Bindings, was : SUBSET Bindings, grouped : SUBSET Users,
                   asked : (SUBSET Users) \ {{}}]
        /\ people'.bound \subseteq people.bound /\ people'.was = people.was
        /\ people'.grouped = people.grouped /\ people'.asked = people.asked
        /\ UNCHANGED <<seen, turn>>
    BY <1>1, <2>1 DEF RevokeBinding, PermissionsInv
  <2>3. \A n : Batch(n)' = Batch(n)
    BY <2>2 DEF Batch
  <2> QED
    BY <2>2, <2>3 DEF PermissionsInv
<1>2. ASSUME NEW u \in Users, ReadGroupsOf(u)
      PROVE  PermissionsInv'
  <2>1. CASE Turn("failed")
    BY <1>2, <2>1 DEF ReadGroupsOf, Turn, PermissionsInv, Batch
  <2>2. CASE Saw([seen EXCEPT !.groups[u] = IF u \in people.grouped THEN "g" ELSE "none"], "groups")
    <3>1. /\ seen'.groups = [seen.groups EXCEPT ![u] = IF u \in people.grouped THEN "g" ELSE "none"]
          /\ seen'.batches = {} /\ seen'.bindings = seen.bindings
          /\ seen' \in [groups : [Users -> {"unread", "g", "none"}], batches : SUBSET (1 .. 2),
                 bindings : SUBSET Bindings]
          /\ people' = people /\ turn' = "groups"
      BY <1>2, <2>2 DEF ReadGroupsOf, Saw, PermissionsInv
    <3> QED
      BY <3>1 DEF PermissionsInv
  <2> QED
    BY <1>2, <2>1, <2>2 DEF ReadGroupsOf
<1>3. CASE GroupsRead \/ ShowPermissions
  <2>1. /\ UNCHANGED <<people, seen>> /\ \A n : Batch(n)' = Batch(n)
    BY <1>3 DEF GroupsRead, ShowPermissions, Turn, Batch
  <2> QED
    BY <1>3, <2>1 DEF GroupsRead, ShowPermissions, Turn, PermissionsInv
<1>4. ASSUME NEW n \in 1 .. 2, ReadBatch(n)
      PROVE  PermissionsInv'
  <2>1. CASE Turn("failed")
    <3>1. /\ UNCHANGED <<people, seen>> /\ \A m : Batch(m)' = Batch(m)
      BY <2>1 DEF Turn, Batch
    <3> QED
      BY <2>1, <3>1 DEF Turn, PermissionsInv
  <2>2. ASSUME NEW more \in {{}, people.bound},
               Saw([groups |-> seen.groups, batches |-> seen.batches \cup {n},
               bindings |-> seen.bindings \cup more
                              \cup {b \in people.bound : b[2] \in Batch(n)}], "bindings")
        PROVE  PermissionsInv'
    <3>1. /\ seen'.groups = seen.groups /\ seen'.batches = seen.batches \cup {n}
          /\ seen'.bindings = seen.bindings \cup more \cup {b \in people.bound : b[2] \in Batch(n)}
          /\ people' = people /\ turn' = "bindings" /\ turn = "bindings"
          /\ seen' = [groups |-> seen'.groups, batches |-> seen'.batches, bindings |-> seen'.bindings]
      BY <1>4, <2>2 DEF ReadBatch, Saw
    <3>2. \A m : Batch(m)' = Batch(m)
      BY <3>1 DEF Batch
    <3>3. seen' \in [groups : [Users -> {"unread", "g", "none"}], batches : SUBSET (1 .. 2),
                 bindings : SUBSET Bindings]
          /\ seen'.bindings \subseteq people.was
      BY <1>4, <2>2, <3>1 DEF PermissionsInv
    <3> QED
      BY <3>1, <3>2, <3>3 DEF PermissionsInv
  <2> QED
    BY <1>4, <2>1, <2>2 DEF ReadBatch
<1> QED
  BY <1>1, <1>2, <1>3, <1>4 DEF PermissionsStep

LEMMA GroupNextInv ==
  ASSUME GroupInv, looking = "group", GroupStep \/ ChangeGroup, looking' = looking
  PROVE  GroupInv'
<1>1. CASE GroupStep
  BY <1>1 DEF GroupStep, ReadMembers, ReadAdmins, ShowMembers, Turn, Saw, GroupInv
<1>2. CASE ChangeGroup
  BY <1>2 DEF ChangeGroup, GroupInv
<1> QED
  BY <1>1, <1>2

LEMMA WorkloadsNextInv ==
  ASSUME WorkloadsInv, looking = "workloads", WorkloadsStep, looking' = looking
  PROVE  WorkloadsInv'
<1>1. CASE ReadWorkspaces
  BY <1>1 DEF ReadWorkspaces, Turn, WorkloadsInv
<1>2. CASE ShowWorkloads
  <2>1. CASE \A kind \in {"ait", "air"} : KindFails(kind)
    BY <1>2, <2>1 DEF ShowWorkloads, Turn, WorkloadsInv
  <2>2. ASSUME NEW kind \in {"ait", "air"}, ~ KindFails(kind)
        PROVE  \E t \in WorkloadLists : seen[t] = "read"
    BY <1>2, <2>2 DEF KindFails, ShowWorkloads, WorkloadsInv
  <2> QED
    BY <1>2, <2>1, <2>2 DEF ShowWorkloads, Turn, WorkloadsInv
<1>3. ASSUME NEW t \in WorkloadLists, ReadTarget(t)
      PROVE  WorkloadsInv'
  BY <1>3 DEF ReadTarget, Saw, WorkloadsInv
<1> QED
  BY <1>1, <1>2, <1>3 DEF WorkloadsStep

LEMMA LogProfilesDiffer == \A p, q \in LogProfiles : q # p => q < p \/ q > p
BY DEF LogProfiles

LEMMA LogsNextInv ==
  ASSUME LogsInv, looking = "logs", LogsStep, looking' = looking
  PROVE  LogsInv'
<1>1. CASE LogsFail
  BY <1>1 DEF LogsFail, Turn, LogsInv
<1>2. ASSUME NEW p \in LogProfiles, FindLogVC(p) \/ MakeQueryToken(p) \/ QueryLogs(p)
      PROVE  LogsInv'
  <2>1. PICK s \in {"failed", "its VC", "the name", "token", "token of the name", "logs", "nothing"} :
          /\ seen' = [seen EXCEPT ![p] = s]
          /\ s \in {"its VC", "token", "logs"} => p \in people
          /\ turn' = IF s \in {"logs", "nothing"} THEN "shown" ELSE "reading"
    <3>1. CASE FindLogVC(p)
      <4>1. PICK s \in {"failed", IF p \in people THEN "its VC" ELSE "the name"} :
              Saw([seen EXCEPT ![p] = s], "reading")
        BY <3>1 DEF FindLogVC
      <4> QED
        BY <4>1 DEF Saw
    <3>2. CASE MakeQueryToken(p)
      <4>1. PICK s \in {"failed", IF seen[p] = "its VC" THEN "token" ELSE "token of the name"} :
              Saw([seen EXCEPT ![p] = s], "reading")
        BY <3>2 DEF MakeQueryToken
      <4>2. s = "token" => p \in people
        BY <4>1 DEF LogsInv
      <4> QED
        BY <4>1, <4>2 DEF Saw
    <3>3. CASE QueryLogs(p)
      <4>1. PICK s \in {"failed", "logs", "nothing"} :
              /\ Saw([seen EXCEPT ![p] = s], IF s = "failed" THEN "reading" ELSE "shown")
              /\ s = "logs" => seen[p] = "token"
        <5>1. CASE Saw([seen EXCEPT ![p] = "failed"], "reading")
          BY <5>1
        <5>2. CASE Saw([seen EXCEPT ![p] = IF @ = "token" THEN "logs" ELSE "nothing"], "shown")
          BY <5>2
        <5> QED
          BY <3>3, <5>1, <5>2 DEF QueryLogs
      <4>2. s = "logs" => p \in people
        BY <4>1 DEF LogsInv
      <4> QED
        BY <4>1, <4>2 DEF Saw
    <3> QED
      BY <1>2, <3>1, <3>2, <3>3
  <2>2. /\ people' = people /\ turn = "reading"
        /\ \A q \in LogProfiles : q < p => seen[q] = "failed"
        /\ \A q \in LogProfiles : q > p => seen[q] = "unasked"
    <3>1. people' = people /\ LogsTurn(p) /\ seen[p] # "failed"
      BY <1>2 DEF FindLogVC, MakeQueryToken, QueryLogs, Saw
    <3> QED
      BY <3>1 DEF LogsTurn, LogsInv
  <2>3. ASSUME NEW q \in LogProfiles, q # p  PROVE q < p \/ q > p
    BY <1>2, <2>3, LogProfilesDiffer
  <2> QED
    BY <2>1, <2>2, <2>3 DEF LogsInv
<1> QED
  BY <1>1, <1>2 DEF LogsStep

LEMMA AuditNextInv ==
  ASSUME AuditInv, looking = "audit", AuditStep, looking' = looking
  PROVE  AuditInv'
<1>1. CASE FilterByUser
  <2>1. PICK filters \in SUBSET {"name", "id"} :
          /\ Saw([seen EXCEPT !.filters = filters], "events")
          /\ IF people.asked = "" THEN filters = {} ELSE people.asked \in filters
    <3>1. PICK ids \in {{}, {"id"}} :
            Saw([seen EXCEPT !.filters = IF people.asked = "" THEN {}
                                    ELSE IF people.asked = "id" THEN {"id"}
                                    ELSE {"name"} \cup ids], "events")
      BY <1>1 DEF FilterByUser
    <3>2. people.asked \in {"", "name", "id"}
      BY DEF AuditInv
    <3> QED
      BY <3>1, <3>2
  <2>2. /\ people' = people /\ turn' = "events" /\ seen'.filters = filters
        /\ seen' \in [filters : SUBSET {"name", "id"}, names : BOOLEAN]
    BY <2>1 DEF Saw, AuditInv
  <2> QED
    BY <2>1, <2>2 DEF AuditInv
<1>2. CASE QueryEvents
  <2>1. UNCHANGED <<people, seen>> /\ turn = "events"
    BY <1>2 DEF QueryEvents, Turn
  <2>2. turn' \in {"failed", "names", "nothing"}
    BY <1>2 DEF QueryEvents, Turn
  <2>3. ASSUME turn' = "nothing"  PROVE people.asked \notin ToldBy(people)
    <3>1. seen.filters # {} /\ ToldBy(people) \cap seen.filters = {}
      BY <1>2, <2>3 DEF QueryEvents, Turn
    <3> QED
      BY <2>1, <3>1 DEF AuditInv
  <2> QED
    BY <2>1, <2>2, <2>3 DEF AuditInv, ToldBy
<1>3. CASE ResolveNames
  BY <1>3 DEF ResolveNames, Saw, AuditInv, ToldBy
<1> QED
  BY <1>1, <1>2, <1>3 DEF AuditStep

LEMMA UserPreserved == UserInv /\ [UserNext]_userVars => UserInv'
<1> SUFFICES ASSUME UserInv, [UserNext]_userVars PROVE UserInv'
  OBVIOUS
<1>1. CASE UserNext
  BY <1>1, UserStepIs, FindNextInv, PermissionsNextInv, GroupNextInv, WorkloadsNextInv, LogsNextInv,
     AuditNextInv DEF UserInv, LookingFor, FindInv, PermissionsInv, GroupInv, WorkloadsInv, LogsInv,
     AuditInv
<1>2. CASE UNCHANGED userVars
  <2>1. UNCHANGED <<looking, people, seen, turn>>
    BY <1>2 DEF userVars
  <2>2. FindInv'
    BY <2>1 DEF UserInv, FindInv, UserIsMeant, MatchUsers, Like
  <2>3. PermissionsInv'
    BY <2>1 DEF UserInv, PermissionsInv, Batch
  <2>4. AuditInv'
    BY <2>1 DEF UserInv, AuditInv, ToldBy
  <2> QED
    BY <2>1, <2>2, <2>3, <2>4 DEF UserInv, LookingFor, GroupInv, WorkloadsInv, LogsInv
<1> QED
  BY <1>1, <1>2

(***************************************************************************)
(* What is shown follows.                                                  *)
(***************************************************************************)
LEMMA PermissionsHold == PermissionsInv => PermissionsAreWhole
<1> SUFFICES ASSUME PermissionsInv, looking = "permissions", turn = "shown",
                    NEW u \in people.asked
             PROVE  LET its == {b \in Bindings : b[2] = u \/ (b[2] = "g" /\ u \in people.grouped)}
                    IN /\ PermissionsOf(u) \subseteq its \cap people.was
                       /\ its \cap people.bound \subseteq PermissionsOf(u)
  BY DEF PermissionsAreWhole
<1>1. /\ u \in Users /\ seen.groups[u] \in {"g", "none"}
      /\ u \in people.grouped <=> seen.groups[u] = "g"
  BY DEF PermissionsInv
<1>2. \A b \in Bindings : b[2] # "none"
  BY DEF Bindings
<1>3. seen.bindings \subseteq Bindings \cap people.was /\ people.bound \subseteq Bindings
  BY DEF PermissionsInv
<1>4. ASSUME NEW b \in people.bound, b[2] = u \/ (b[2] = "g" /\ u \in people.grouped)
      PROVE  b \in seen.bindings
  <2>1. PICK n \in {1, 2} : b[2] \in Batch(n)
    BY <1>1, <1>4 DEF Batch
  <2> QED
    BY <1>4, <2>1 DEF PermissionsInv
<1> QED
  BY <1>1, <1>2, <1>3, <1>4 DEF PermissionsOf

LEMMA MembersHold == GroupInv => MembersAreWhole
<1> SUFFICES ASSUME GroupInv, looking = "group"
             PROVE  /\ \A r \in MemberRows, s \in MemberRows : r.user = s.user => r = s
                    /\ seen.members \subseteq {r.user : r \in MemberRows}
                    /\ seen.admins # {} => \E r \in MemberRows : r.admin
                    /\ ~people.same => \A r \in MemberRows :
                         /\ r.admin <=> r.user \in seen.admins
                         /\ r.user \in seen.admins \cup seen.members
                    /\ ~people.same => seen.admins \subseteq {r.user : r \in MemberRows}
  BY DEF MembersAreWhole
<1> DEFINE Alone == {a \in seen.admins : \A u \in seen.members : ~ MatchesUser(a, u)}
           RowOf(u) == [user |-> u, admin |-> \E a \in seen.admins : MatchesUser(a, u), inside |-> TRUE]
           Other(a) == [user |-> a, admin |-> TRUE, inside |-> FALSE]
<1>1. /\ \A r \in MemberRows : \/ \E u \in seen.members : r = RowOf(u)
                               \/ \E a \in Alone : r = Other(a)
      /\ \A u \in seen.members : RowOf(u) \in MemberRows
      /\ \A a \in Alone : Other(a) \in MemberRows
  BY DEF MemberRows
<1>2. /\ \A u : RowOf(u).user = u /\ (RowOf(u).admin <=> \E a \in seen.admins : MatchesUser(a, u))
      /\ \A a : Other(a).user = a /\ Other(a).admin
  OBVIOUS
<1>3. Alone \cap seen.members = {}
  BY DEF MatchesUser
<1>4. \A a \in seen.admins \ Alone : \E u \in seen.members : MatchesUser(a, u)
  OBVIOUS
<1>5. ~ people.same => \A a, u : MatchesUser(a, u) <=> a = u
  BY DEF MatchesUser
<1>6. Alone \subseteq seen.admins
  OBVIOUS
<1> HIDE DEF RowOf, Other, Alone
<1>7. \A r \in MemberRows, s \in MemberRows : r.user = s.user => r = s
  BY <1>1, <1>2, <1>3
<1>8. seen.members \subseteq {r.user : r \in MemberRows}
  BY <1>1, <1>2
<1>9. seen.admins # {} => \E r \in MemberRows : r.admin
  BY <1>1, <1>2, <1>4
<1>10. ASSUME ~ people.same
       PROVE  /\ \A r \in MemberRows : /\ r.admin <=> r.user \in seen.admins
                                       /\ r.user \in seen.admins \cup seen.members
              /\ seen.admins \subseteq {r.user : r \in MemberRows}
  BY <1>1, <1>2, <1>4, <1>5, <1>6, <1>10
<1> QED
  BY <1>7, <1>8, <1>9, <1>10

LEMMA WorkloadsHold == WorkloadsInv => WorkloadsAreTheirs
<1> SUFFICES ASSUME WorkloadsInv, looking = "workloads", turn = "shown"
             PROVE  /\ \E t \in WorkloadLists : seen[t] = "read"
                    /\ \A u \in Users, kind \in {"ait", "air"}, w \in WorkspacesRead :
                         /\ <<kind, w>> \in WorkloadsOf(u) => people[kind][w] = u
                         /\ people[kind][w] = u
                              /\ (\A t \in WorkloadLists : t[1] = kind /\ t[2] = w => seen[t] = "read")
                            => <<kind, w>> \in WorkloadsOf(u)
  BY DEF WorkloadsAreTheirs
<1>1. ASSUME NEW u \in Users, NEW kind \in {"ait", "air"}, NEW w \in WorkspacesRead
      PROVE  /\ <<kind, w>> \in WorkloadsOf(u) => people[kind][w] = u
             /\ people[kind][w] = u
                  /\ (\A t \in WorkloadLists : t[1] = kind /\ t[2] = w => seen[t] = "read")
                => <<kind, w>> \in WorkloadsOf(u)
  <2>1. ASSUME <<kind, w>> \in WorkloadsOf(u)  PROVE people[kind][w] = u
    <3>1. PICK t \in WorkloadLists : <<t[1], t[2]>> = <<kind, w>> /\ people[t[1]][t[2]] = u
      BY <2>1 DEF WorkloadsOf
    <3> QED
      BY <3>1
  <2>2. ASSUME people[kind][w] = u,
               \A t \in WorkloadLists : t[1] = kind /\ t[2] = w => seen[t] = "read"
        PROVE  <<kind, w>> \in WorkloadsOf(u)
    <3>1. PICK t \in WorkloadLists : t[1] = kind /\ t[2] = w /\ t[3] \in {u, "all"}
      <4>1. CASE kind = "ait"
        <5>1. <<"ait", w, u>> \in WorkloadLists
          BY <1>1 DEF WorkloadLists
        <5> QED
          BY <4>1, <5>1
      <4>2. CASE kind = "air"
        <5>1. <<"air", w, "all">> \in WorkloadLists
          BY <1>1 DEF WorkloadLists
        <5> QED
          BY <4>2, <5>1
      <4> QED
        BY <1>1, <4>1, <4>2
    <3> QED
      BY <2>2, <3>1 DEF WorkloadsOf
  <2> QED
    BY <2>1, <2>2
<1> QED
  BY <1>1 DEF WorkloadsInv

LEMMA LogsHold == LogsInv => LogsAreIts
<1> SUFFICES ASSUME LogsInv, looking = "logs", NEW p \in LogProfiles,
                    seen[p] \in {"logs", "nothing"}, NEW q \in LogProfiles, q > p
             PROVE  seen[q] = "unasked"
  BY DEF LogsInv, LogsAreIts
<1>1. p < q
  BY DEF LogProfiles
<1> QED
  BY <1>1 DEF LogsInv

LEMMA EventsHold == AuditInv => EventHasItsUser
BY DEF AuditInv, EventHasItsUser, ToldBy, UserOfEvent

LEMMA UsersHold == UserInv => UsersAreTrue
BY PermissionsHold, MembersHold, WorkloadsHold, LogsHold, EventsHold
   DEF UserInv, UsersAreTrue, FindInv, UserIsMeant
-----------------------------------------------------------------------------
(***************************************************************************)
(* The VCs of a profile: when the total that the server gives has stayed   *)
(* the same, and VCs were created or deleted but not both, nothing has     *)
(* changed since the first page.                                           *)
(***************************************************************************)
ServerInv ==
  /\ live \subseteq VCs /\ steady \subseteq live /\ clusters \subseteq VCs
  /\ created \in Nat /\ deleted \in Nat
  /\ total \in Nat
  /\ ~totals => total = NoTotal

KnownVCs ==
  result = "listing" /\ totals =>
    /\ total = NoTotal => clusters = {}
    /\ deleted = 0 => clusters \subseteq live
    /\ created = 0 /\ total # NoTotal =>
         /\ Cardinality(live) <= total
         /\ Cardinality(live) = total => clusters \subseteq live

InventoryInv ==
  /\ ServerInv /\ KnownVCs /\ NothingMissing /\ CountedOnce
  /\ result = "listing" => skip = received

LEMMA SomeVCs ==
  ASSUME NEW S \in SUBSET VCs
  PROVE  /\ IsFiniteSet(S) /\ Cardinality(S) \in Nat /\ Cardinality(S) < NoTotal /\ NoTotal \in Nat
         /\ (Cardinality(S) = 0 <=> S = {})
<1>1. IsFiniteSet(VCs)
  BY InventoryAssumption
<1>2. IsFiniteSet(S) /\ Cardinality(S) <= Cardinality(VCs)
  BY <1>1, FS_Subset
<1>3. Cardinality(S) \in Nat /\ Cardinality(VCs) \in Nat
  BY <1>1, <1>2, FS_CardinalityType
<1> QED
  BY <1>2, <1>3, FS_EmptySet DEF NoTotal

\* A set of VCs within another is as large only if it is the same.
LEMMA SameCount ==
  ASSUME NEW S \in SUBSET VCs, NEW T \in SUBSET S
  PROVE  /\ Cardinality(T) <= Cardinality(S)
         /\ Cardinality(S) <= Cardinality(T) => S = T
<1>1. IsFiniteSet(S) /\ Cardinality(S) \in Nat /\ Cardinality(T) \in Nat
  BY SomeVCs
<1> QED
  BY <1>1, FS_Subset

LEMMA InventoryInitInv == InventoryInit => InventoryInv
<1> SUFFICES ASSUME InventoryInit PROVE InventoryInv
  OBVIOUS
<1>1. live \subseteq VCs /\ NoTotal \in Nat
  BY SomeVCs DEF InventoryInit
<1>2. Cardinality({}) = 0
  BY FS_EmptySet
<1> QED
  BY <1>1, <1>2 DEF InventoryInit, InventoryInv, ServerInv, KnownVCs, NothingMissing, CountedOnce

\* What the server sends, honest or not, is of VCs that are there.
LEMMA ItemsAreLive ==
  /\ Honest.items \subseteq live /\ Honest.total = IF totals THEN Cardinality(live) ELSE NoTotal
  /\ \A r \in BadResponses :
       r.items \subseteq live /\ r.total = IF totals THEN Cardinality(live) ELSE NoTotal
<1>1. \A s, t : Page(s, t) \subseteq live
  BY DEF Page
<1>2. \A items, n : /\ Response(items, n).items = items
                    /\ Response(items, n).total = IF totals THEN Cardinality(live) ELSE NoTotal
  BY DEF Response
<1> QED
  <2>1. Honest.items \subseteq live /\ Honest.total = IF totals THEN Cardinality(live) ELSE NoTotal
    <3>1. PICK items \in SUBSET live : items = Page(skip, token)
      BY <1>1
    <3>2. Honest = Response(items, TokenAfter(items))
      BY <3>1 DEF Honest
    <3> QED
      BY <1>2, <3>1, <3>2
  <2>2. ASSUME NEW r \in BadResponses
        PROVE  r.items \subseteq live /\ r.total = IF totals THEN Cardinality(live) ELSE NoTotal
    <3>1. PICK items \in SUBSET live : \E n : r = Response(items, n)
      <4>1. CASE r = Response(Page(0, 0), TokenAfter(Page(0, 0)))
        BY <1>1, <4>1
      <4>2. CASE \E n \in 0 .. Cardinality(live) :
                   r = Response({v \in Page(skip, token) : Rank(v) < n}, 0)
        <5>1. PICK n \in 0 .. Cardinality(live) :
                r = Response({v \in Page(skip, token) : Rank(v) < n}, 0)
          BY <4>2
        <5>2. {v \in Page(skip, token) : Rank(v) < n} \in SUBSET live
          BY <1>1
        <5> QED
          BY <5>1, <5>2
      <4> QED
        BY <2>2, <4>1, <4>2 DEF BadResponses
    <3> QED
      BY <1>2, <3>1
  <2> QED
    BY <2>1, <2>2

LEMMA ReceiveNext ==
  ASSUME InventoryInv, result = "listing", NEW r, r.items \subseteq live,
         r.total = IF totals THEN Cardinality(live) ELSE NoTotal, Receive(r)
  PROVE  InventoryInv'
<1> USE DEF InventoryInv, ServerInv
<1>1. /\ UNCHANGED <<live, created, deleted, steady, cursor, totals>>
      /\ result' = Verdict(r) /\ total' = TotalBefore(r)
      /\ clusters' = IF Verdict(r) = "incomplete" THEN {} ELSE clusters \cup r.items
      /\ received' = IF Verdict(r) = "incomplete" THEN 0 ELSE received + Cardinality(r.items)
      /\ Verdict(r) = "listing" => skip' = Count(r)
  BY DEF Receive, server
<1>2. Verdict(r) \in {"incomplete", "complete", "listing"}
  BY DEF Verdict
<1>3. /\ Cardinality(live) \in Nat /\ Cardinality(live) < NoTotal /\ NoTotal \in Nat
      /\ Cardinality(r.items) \in Nat /\ (Cardinality(r.items) = 0 <=> r.items = {})
      /\ Cardinality(clusters) \in Nat
  BY SomeVCs
<1>4. TotalBefore(r) = IF totals THEN Cardinality(live) ELSE NoTotal
  BY <1>3 DEF TotalBefore
<1>5. /\ Count(r) = Cardinality(clusters) + Cardinality(r.items)
  BY DEF Count, CountedOnce
<1>6. CASE Verdict(r) = "incomplete"
  <2>1. Cardinality({}) = 0
    BY FS_EmptySet
  <2> QED
    BY <1>1, <1>3, <1>4, <1>6, <2>1 DEF KnownVCs, NothingMissing, CountedOnce
<1>7. CASE Verdict(r) # "incomplete"
  <2>1. ~ TotalWrong(r)
    BY <1>7 DEF Verdict
  <2>2. r.items \cap clusters = {}
    BY <1>7 DEF Verdict, Repeats
  <2>3. Cardinality(clusters \cup r.items) = Cardinality(clusters) + Cardinality(r.items)
    <3>1. IsFiniteSet(clusters) /\ IsFiniteSet(r.items)
      BY SomeVCs
    <3>2. Cardinality(clusters \cap r.items) = 0
      BY <2>2, FS_EmptySet
    <3> QED
      <4>1. Cardinality(clusters \cup r.items)
              = Cardinality(clusters) + Cardinality(r.items) - Cardinality(clusters \cap r.items)
        BY <3>1, FS_Union, Zenon
      <4> QED
        BY <1>3, <3>2, <4>1
  <2>4. /\ clusters' = clusters \cup r.items /\ received' = Cardinality(clusters')
        /\ received' = Count(r) /\ clusters' \subseteq VCs
    BY <1>1, <1>5, <1>7, <2>3 DEF CountedOnce
  <2>5. totals => /\ total = NoTotal \/ total = Cardinality(live)
                  /\ Count(r) <= Cardinality(live)
    BY <1>3, <1>4, <1>5, <2>1 DEF TotalWrong
  \* What has been received is still there, as long as the total is what it was.
  <2>6. totals /\ (created = 0 \/ deleted = 0) => clusters' \subseteq live
    BY <2>4, <2>5, <1>3 DEF KnownVCs
  <2>7. CASE Verdict(r) = "complete"
    <3>1. ~ More(r)
      BY <2>7 DEF Verdict, Stops
    <3>2. totals => Count(r) = Cardinality(live)
      BY <1>3, <1>4, <1>5, <2>5, <3>1 DEF More
    <3>3. totals /\ (created = 0 \/ deleted = 0) => clusters' = live
      <4>1. ASSUME totals, created = 0 \/ deleted = 0  PROVE clusters' = live
        <5>1. PICK S \in SUBSET VCs, T \in SUBSET VCs : T \subseteq S /\ S = live /\ T = clusters'
          BY <2>6, <4>1
        <5>2. Cardinality(S) <= Cardinality(T)
          BY <1>3, <2>4, <3>2, <4>1, <5>1
        <5> QED
          BY <5>1, <5>2, SameCount
      <4> QED
        BY <4>1
    <3>4. NothingMissing'
      BY <1>1, <3>3 DEF NothingMissing
    <3>5. CountedOnce'
      BY <1>1, <1>4, <2>4, <3>2 DEF CountedOnce
    <3> QED
      BY <1>1, <1>3, <1>4, <2>4, <2>7, <3>4, <3>5 DEF KnownVCs
  <2>8. CASE Verdict(r) = "listing"
    <3>1. KnownVCs'
      BY <1>1, <1>3, <1>4, <2>6 DEF KnownVCs
    <3>2. CountedOnce' /\ NothingMissing'
      BY <1>1, <2>4, <2>8 DEF CountedOnce, NothingMissing
    <3> QED
      BY <1>1, <1>3, <1>4, <2>4, <2>8, <3>1, <3>2
  <2> QED
    BY <1>2, <1>7, <2>7, <2>8
<1> QED
  BY <1>6, <1>7

LEMMA InventoryPreserved == InventoryInv /\ [InventoryNext]_inventoryVars => InventoryInv'
<1> SUFFICES ASSUME InventoryInv, [InventoryNext]_inventoryVars PROVE InventoryInv'
  OBVIOUS
<1> USE DEF InventoryInv, ServerInv
<1>1. CASE NextPage \/ BadPage
  <2>1. PICK r \in BadResponses \cup {Honest} : Receive(r)
    BY <1>1 DEF NextPage, BadPage
  <2>2. r.items \subseteq live /\ r.total = IF totals THEN Cardinality(live) ELSE NoTotal
    BY <2>1, ItemsAreLive
  <2>3. result = "listing"
    BY <1>1 DEF NextPage, BadPage
  <2> QED
    BY <2>1, <2>2, <2>3, ReceiveNext
<1>2. CASE Refused
  <2>1. Cardinality({}) = 0
    BY FS_EmptySet
  <2> QED
    BY <1>2, <2>1 DEF Refused, server, KnownVCs, NothingMissing, CountedOnce
<1>3. ASSUME NEW v \in VCs, Create(v)
      PROVE  InventoryInv'
  <2>1. /\ UNCHANGED <<deleted, steady, totals, skip, total, clusters, received, result>>
        /\ live' = live \cup {v} /\ created' = created + 1 /\ result = "listing"
    BY <1>3 DEF Create
  <2>2. created' # 0 /\ created' \in Nat
    BY <2>1
  <2> QED
    BY <1>3, <2>1, <2>2 DEF KnownVCs, NothingMissing, CountedOnce, NoTotal
<1>4. ASSUME NEW v \in VCs, Delete(v)
      PROVE  InventoryInv'
  <2>1. /\ UNCHANGED <<created, totals, skip, total, clusters, received, result>>
        /\ live' = live \ {v} /\ steady' = steady \ {v} /\ deleted' = deleted + 1
        /\ result = "listing" /\ v \in live
    BY <1>4 DEF Delete
  <2>2. deleted' # 0 /\ deleted' \in Nat
    BY <2>1
  <2>3. Cardinality(live') = Cardinality(live) - 1 /\ Cardinality(live) \in Nat
    BY <2>1, SomeVCs, FS_RemoveElement
  <2>4. KnownVCs'
    BY <2>1, <2>2, <2>3 DEF KnownVCs, NoTotal
  <2> QED
    BY <2>1, <2>2, <2>4 DEF NothingMissing, CountedOnce, NoTotal
<1>5. CASE UNCHANGED inventoryVars
  BY <1>5 DEF inventoryVars, server, KnownVCs, NothingMissing, CountedOnce, NoTotal
<1> QED
  BY <1>1, <1>2, <1>3, <1>4, <1>5 DEF InventoryNext

(***************************************************************************)
(* The lists of the IAM.  With totals: two changes would have to cancel    *)
(* out.  Without: a page that is short is the last one.                    *)
(***************************************************************************)
ScanServerInv ==
  /\ live \subseteq VCs /\ steady \subseteq live /\ clusters \subseteq VCs
  /\ total \in Nat /\ totals \in BOOLEAN /\ (~totals => total = NoTotal)
  /\ hints \in {"next", "none", "echo"} /\ numbered \in BOOLEAN
  /\ pass \in {1, 2} /\ page \in Nat \ {0}
  /\ unstable \in BOOLEAN /\ changes \in Nat

\* One change, and the total that was announced before tells of it, or it has not
\* touched what was received.
KnownByTotals ==
  result = "listing" /\ totals =>
    /\ changes = 0 => clusters \subseteq live /\ (clusters # {} => total = Cardinality(live))
    /\ changes = 1 /\ ~unstable =>
         clusters \subseteq live \/ (total # NoTotal /\ Cardinality(live) # total)

Before0(k) == {v \in live : Rank(v) < k}

KnownByPages ==
  result = "listing" /\ ~totals /\ changes = 0 /\ faults = 0 => clusters = Before0((page - 1) * Size)

IAMInv == ScanServerInv /\ KnownByTotals /\ KnownByPages /\ NoEntryIsMissing

LEMMA DivIs ==
  \A a \in Nat, s \in Nat \ {0}, q \in Nat : a \div s = q <=> q * s <= a /\ a < q * s + s
BY Z3

LEMMA RankIs ==
  ASSUME live \subseteq VCs
  PROVE  /\ \A v \in live : v \in Nat
         /\ \A v \in live : Rank(v) \in Nat /\ Rank(v) < Cardinality(live)
         /\ \A u, v \in live : u < v => Rank(u) < Rank(v)
<1>1. \A v \in live : v \in Nat
  BY InventoryAssumption
<1>2. ASSUME NEW S \in SUBSET live, NEW v \in live, v \notin S
      PROVE  Cardinality(S) \in Nat /\ Cardinality(live) \in Nat /\ Cardinality(S) < Cardinality(live)
  <2>1. Cardinality(S) \in Nat /\ Cardinality(live) \in Nat
    BY SomeVCs
  <2>2. Cardinality(S) <= Cardinality(live) /\ (Cardinality(live) <= Cardinality(S) => live = S)
    BY SameCount
  <2> QED
    BY <1>2, <2>1, <2>2
<1>3. ASSUME NEW v \in live
      PROVE  Rank(v) \in Nat /\ Rank(v) < Cardinality(live)
  <2>1. {w \in live : w < v} \in SUBSET live /\ v \notin {w \in live : w < v}
    BY <1>1
  <2> QED
    BY <1>2, <2>1 DEF Rank
<1>4. ASSUME NEW u \in live, NEW v \in live, u < v
      PROVE  Rank(u) < Rank(v)
  <2> DEFINE S == {w \in live : w < v}
             T == {w \in live : w < u}
  <2>1. S \in SUBSET VCs /\ T \in SUBSET S /\ u \in S /\ u \notin T
    BY <1>1, <1>4
  <2> HIDE DEF S, T
  <2>2. Cardinality(S) \in Nat /\ Cardinality(T) \in Nat
    <3>1. T \in SUBSET VCs
      BY <2>1
    <3> QED
      BY <2>1, <3>1, SomeVCs
  <2>3. Cardinality(T) <= Cardinality(S) /\ (Cardinality(S) <= Cardinality(T) => S = T)
    BY <2>1, SameCount
  <2>4. Cardinality(T) < Cardinality(S)
    BY <2>1, <2>2, <2>3
  <2> QED
    BY <2>4 DEF Rank, S, T
<1> QED
  BY <1>1, <1>3, <1>4

\* The ranks leave no gap.
LEMMA RanksAreDense ==
  ASSUME live \subseteq VCs, NEW k \in Nat, k <= Cardinality(live)
  PROVE  Cardinality(Before0(k)) = k
<1> DEFINE Gaps == {n \in 0 .. Cardinality(live) : Cardinality(Before0(n)) # n}
<1>0. Cardinality(live) \in Nat /\ \A n : Before0(n) \in SUBSET VCs /\ Before0(n) \subseteq live
  BY SomeVCs DEF Before0
<1>1. ASSUME Gaps # {}  PROVE FALSE
  <2>1. PICK n \in Gaps : \A m \in Gaps : n <= m
    <3>1. Gaps \in SUBSET Nat
      BY <1>0
    <3> HIDE DEF Gaps
    <3> QED
      BY <1>1, <3>1, SmallestOf
  <2>2. n \in Nat /\ n <= Cardinality(live) /\ Cardinality(Before0(n)) # n
    BY <1>0, <2>1
  <2>3. n # 0
    <3>1. Before0(0) = {}
      BY RankIs DEF Before0
    <3> QED
      BY <2>2, <3>1, FS_EmptySet
  <2>4. PICK j \in Nat : n = j + 1 /\ j < Cardinality(live)
    <3>1. n - 1 \in Nat /\ n = (n - 1) + 1 /\ n - 1 < Cardinality(live)
      BY <1>0, <2>2, <2>3
    <3> QED
      BY <3>1
  <2>5. Cardinality(Before0(j)) = j
    BY <1>0, <2>1, <2>4
  <2>6. live \ Before0(j) # {}
    BY <1>0, <2>4, <2>5
  <2>7. PICK v \in live \ Before0(j) : \A w \in live \ Before0(j) : v <= w
    <3>1. live \ Before0(j) \in SUBSET Nat
      BY RankIs
    <3> QED
      BY <2>6, <3>1, SmallestOf
  <2>8. v \in live /\ Rank(v) \in Nat /\ v \in Nat /\ Rank(v) >= j
    BY <2>4, <2>7, RankIs DEF Before0
  <2>9. Rank(v) <= j
    <3> DEFINE S == {w \in live : w < v}
    <3>1. S \in SUBSET Before0(j)
      <4>1. ASSUME NEW w \in live, w < v, w \notin Before0(j)  PROVE FALSE
        <5>1. w \in Nat /\ v <= w
          BY <2>7, <4>1, RankIs
        <5> QED
          BY <2>8, <4>1, <5>1
      <4> QED
        BY <4>1
    <3>2. Cardinality(S) <= Cardinality(Before0(j))
      BY <1>0, <3>1, SameCount
    <3> QED
      BY <2>5, <3>2 DEF Rank
  <2>10. Rank(v) = j
    BY <2>4, <2>8, <2>9
  <2>11. \A u \in live : Rank(u) = j => u = v
    <3>1. ASSUME NEW u \in live, Rank(u) = j, u # v  PROVE FALSE
      <4>1. u \in Nat /\ (u < v \/ v < u)
        BY <2>8, <3>1, RankIs
      <4> QED
        BY <2>8, <2>10, <3>1, <4>1, RankIs
    <3> QED
      BY <3>1
  <2>12. Before0(n) = Before0(j) \cup {v}
    <3>1. \A u \in live : Rank(u) \in Nat /\ (Rank(u) < n <=> Rank(u) < j \/ Rank(u) = j)
      BY <2>4, RankIs
    <3> QED
      BY <2>8, <2>10, <2>11, <3>1 DEF Before0
  <2>13. v \notin Before0(j) /\ IsFiniteSet(Before0(j))
    BY <1>0, <2>7, SomeVCs
  <2>14. Cardinality(Before0(n)) = j + 1
    BY <2>5, <2>12, <2>13, FS_AddElement
  <2> QED
    BY <2>2, <2>4, <2>14
<1> QED
  BY <1>0, <1>1

LEMMA OnlyTheSecond ==
  ASSUME NEW a, NEW b \in Nat, NEW c, NEW u, NEW k \in Nat, NEW s \in Nat,
         a = k, c = 0, u = a + b - c, u = k + s
  PROVE  b = s
OBVIOUS

LEMMA FirstPage ==
  ASSUME NEW s \in Nat, NEW n, n = 1
  PROVE  (n - 1) * s = 0
<1>1. n - 1 = 0
  OBVIOUS
<1>2. 0 * s = 0
  BY Z3
<1> QED
  BY <1>1, <1>2

\* A numbered page holds what its number says, and is full unless it is the last.
LEMMA PageHolds ==
  ASSUME live \subseteq VCs, page \in Nat \ {0}, pass \in {1, 2}
  PROVE  /\ Size \in Nat \ {0}
         /\ Numbered(page) \subseteq live
         /\ Numbered(page) \cap Before0((page - 1) * Size) = {}
         /\ Before0((page - 1) * Size) \cup Numbered(page) = Before0(page * Size)
         /\ (\E v \in live : Rank(v) >= page * Size) => Cardinality(Numbered(page)) = Size
<1>1. Size \in Nat \ {0}
  BY InventoryAssumption, RetryAssumption DEF Size
<1>2. PICK K \in Nat : K = (page - 1) * Size /\ page * Size = K + Size
  <2>1. \A n \in Nat \ {0}, s \in Nat : (n - 1) * s \in Nat /\ n * s = (n - 1) * s + s
    BY Z3
  <2> QED
    BY <1>1, <2>1
<1>3. \A v \in live : Rank(v) \in Nat /\ Rank(v) < Cardinality(live)
  BY RankIs
<1>4. Numbered(page) = {v \in live : K <= Rank(v) /\ Rank(v) < K + Size}
  <2>1. ASSUME NEW v \in live
        PROVE  Rank(v) \div Size = page - 1 <=> K <= Rank(v) /\ Rank(v) < K + Size
    <3>1. page - 1 \in Nat
      OBVIOUS
    <3> QED
      BY <1>1, <1>2, <1>3, <2>1, <3>1, DivIs
  <2> QED
    BY <2>1 DEF Numbered
<1>5. /\ Numbered(page) \cap Before0(K) = {}
      /\ Before0(K) \cup Numbered(page) = Before0(K + Size)
  BY <1>1, <1>3, <1>4 DEF Before0
<1>6. ASSUME NEW v \in live, Rank(v) >= K + Size
      PROVE  Cardinality(Numbered(page)) = Size
  <2>1. Cardinality(live) \in Nat /\ K <= Cardinality(live) /\ K + Size <= Cardinality(live)
    BY <1>1, <1>3, <1>6, SomeVCs
  <2>2. Cardinality(Before0(K)) = K /\ Cardinality(Before0(K + Size)) = K + Size
    BY <1>1, <2>1, RanksAreDense
  <2>3. IsFiniteSet(Before0(K)) /\ IsFiniteSet(Numbered(page)) /\ Cardinality(Numbered(page)) \in Nat
    <3>1. Before0(K) \in SUBSET VCs /\ Numbered(page) \in SUBSET VCs
      BY <1>4 DEF Before0
    <3> QED
      BY <3>1, SomeVCs
  <2>4. Cardinality(Before0(K) \cap Numbered(page)) = 0
    BY <1>5, FS_EmptySet
  <2>5. Cardinality(Before0(K) \cup Numbered(page))
          = Cardinality(Before0(K)) + Cardinality(Numbered(page))
            - Cardinality(Before0(K) \cap Numbered(page))
    BY <2>3, FS_Union, Zenon
  <2>6. Cardinality(Before0(K) \cup Numbered(page)) = K + Size
    BY <1>5, <2>2
  <2> QED
    BY <1>1, <2>2, <2>3, <2>4, <2>5, <2>6, OnlyTheSecond
<1> QED
  BY <1>1, <1>2, <1>4, <1>5, <1>6

LEMMA ScanInitInv == InventoryInit /\ ScanInit => IAMInv
<1> SUFFICES ASSUME InventoryInit, ScanInit PROVE IAMInv
  OBVIOUS
<1>1. ScanServerInv
  <2>1. live \subseteq VCs /\ NoTotal \in Nat
    BY SomeVCs DEF InventoryInit
  <2>2. /\ live = steady /\ clusters = {} /\ total = NoTotal /\ totals \in BOOLEAN
        /\ pass = 1 /\ page = 1 /\ changes = 0 /\ unstable = FALSE
        /\ hints \in {"next", "none", "echo"} /\ numbered \in BOOLEAN
    BY DEF InventoryInit, ScanInit
  <2>3. pass \in {1, 2} /\ page \in Nat \ {0} /\ changes \in Nat
    BY <2>2
  <2> QED
    BY <2>1, <2>2, <2>3 DEF ScanServerInv
<1>2. Before0((page - 1) * Size) = {}
  <2>1. (page - 1) * Size = 0
    <3>1. Size \in Nat
      BY InventoryAssumption, RetryAssumption DEF Size
    <3>2. page = 1
      BY DEF ScanInit
    <3> QED
      BY <3>1, <3>2, FirstPage
  <2> QED
    BY <1>1, <2>1, RankIs DEF Before0, ScanServerInv
<1> QED
  BY <1>1, <1>2 DEF IAMInv, KnownByTotals, KnownByPages, NoEntryIsMissing, InventoryInit, ScanInit

\* What a page makes of the scan: it goes on, is repeated, or ends.
LEMMA FetchNext ==
  ASSUME IAMInv, NEW items \in SUBSET live, FetchPage(items), faults' \in {0, 1},
         faults' = 0 => faults = 0 /\ items = Numbered(page)
  PROVE  IAMInv'
<1> USE DEF IAMInv
<1>s. ScanServerInv /\ result = "listing"
  BY DEF FetchPage
<1>0. /\ UNCHANGED <<live, totals, hints, numbered>>
      /\ Cardinality(live) \in Nat /\ Cardinality(live) < NoTotal /\ NoTotal \in Nat
      /\ (Cardinality(live) = 0 <=> live = {})
      /\ UNCHANGED NoTotal
  BY <1>s, SomeVCs DEF FetchPage, ScanServerInv, NoTotal
<1>e. Expected \in Nat /\ (totals /\ live # {} => Announced = Cardinality(live) /\ Expected = Announced)
      /\ (~totals => Announced = NoTotal /\ Expected = NoTotal)
  BY <1>s, <1>0 DEF Expected, Announced, ScanServerInv
<1>r. /\ \A v \in live : Rank(v) \in Nat /\ Rank(v) < Cardinality(live)
      /\ \A v : Rank(v)' = Rank(v)
  BY <1>s, <1>0, RankIs DEF ScanServerInv, Rank
<1>p. /\ Size \in Nat \ {0}
      /\ Numbered(page) \subseteq live
      /\ Numbered(page) \cap Before0((page - 1) * Size) = {}
      /\ Before0((page - 1) * Size) \cup Numbered(page) = Before0(page * Size)
      /\ (\E v \in live : Rank(v) >= page * Size) => Cardinality(Numbered(page)) = Size
  BY <1>s, PageHolds DEF ScanServerInv
<1>h. HintAfter(page) \in {0, page, page + 1}
      /\ (HintAfter(page) = page + 1 => hints = "next")
      /\ (HintAfter(page) = page => hints = "echo")
      /\ (HintAfter(page) = 0 => hints = "none" \/ (hints = "next" /\ ~ (Cardinality(live) > page * Size)))
  BY <1>s DEF HintAfter, ScanServerInv
<1>f. Follows(items, HintAfter(page)) \in {0, page + 1}
      /\ (Follows(items, HintAfter(page)) # 0 => items # {})
  BY <1>s, <1>h DEF Follows, ScanServerInv
<1>1. CASE Follows(items, HintAfter(page)) # 0
  <2>1. /\ page' = page + 1 /\ clusters' = clusters \cup items /\ total' = Expected
        /\ unstable' = (unstable \/ Drifts)
        /\ UNCHANGED <<pass, result, changes, steady>>
    BY <1>1, <1>f DEF FetchPage
  <2>2. ScanServerInv'
    BY <1>s, <1>0, <1>e, <2>1 DEF ScanServerInv, Drifts
  <2>3. live # {} /\ items # {}
    BY <1>1, <1>f
  <2>4. KnownByTotals'
    <3>1. CASE totals /\ changes = 1 /\ ~unstable'
      <4>1. ~ Drifts /\ ~ unstable /\ Announced = Cardinality(live)
        BY <1>e, <2>1, <2>3, <3>1
      <4>2. clusters \subseteq live
        BY <1>s, <1>0, <3>1, <4>1 DEF KnownByTotals, Drifts
      <4> QED
        BY <1>0, <2>1, <3>1, <4>2 DEF KnownByTotals
    <3>2. CASE totals /\ changes = 0
      BY <1>s, <1>0, <1>e, <2>1, <2>3, <3>2 DEF KnownByTotals
    <3> QED
      BY <1>0, <2>1, <3>1, <3>2 DEF KnownByTotals
  <2>5. KnownByPages'
    <3>1. UNCHANGED Size /\ page' - 1 = page
      BY <1>s, <2>1 DEF Size, ScanServerInv
    <3>2. Before0((page' - 1) * Size') = Before0(page * Size)
      BY <3>1
    <3>3. \A k : Before0(k)' = Before0(k)
      BY <1>0, <1>r DEF Before0
    <3> QED
      BY <1>s, <1>0, <1>p, <2>1, <3>2, <3>3 DEF KnownByPages
  <2>6. NoEntryIsMissing'
    BY <1>s, <2>1 DEF NoEntryIsMissing
  <2> QED
    BY <2>2, <2>4, <2>5, <2>6
<1>2. CASE Follows(items, HintAfter(page)) = 0
  <2>1. CASE EndScan("incomplete", items)
    BY <1>s, <1>0, <2>1 DEF EndScan, scan, ScanServerInv, KnownByTotals, KnownByPages, NoEntryIsMissing
  <2>2. CASE Rescan
    <3>1. ScanServerInv'
      <4>1. /\ pass' = 2 /\ page' = 1 /\ unstable' = FALSE /\ changes' = 0
            /\ clusters' = {} /\ total' = NoTotal /\ steady' = live
        BY <2>2 DEF Rescan
      <4>2. pass' \in {1, 2} /\ page' \in Nat \ {0} /\ changes' \in Nat
        BY <4>1
      <4> QED
        BY <1>s, <1>0, <4>1, <4>2 DEF ScanServerInv
    <3>2. Before0((page - 1) * Size)' = {}
      <4>1. (page' - 1) * Size' = 0
        <5>1. Size' \in Nat
          BY InventoryAssumption, RetryAssumption DEF Size
        <5>2. page' = 1
          BY <2>2 DEF Rescan
        <5> QED
          BY <5>1, <5>2, FirstPage
      <4> QED
        BY <1>0, <1>r, <4>1 DEF Before0
    <3> QED
      BY <1>s, <1>0, <2>2, <3>1, <3>2 DEF Rescan, KnownByTotals, KnownByPages, NoEntryIsMissing
  <2>3. CASE /\ EndScan("complete", items)
             /\ ~ Echoes(items, HintAfter(page)) /\ ~ Untrusted(items)
    <3>1. /\ result' = "complete" /\ clusters' = clusters \cup items
          /\ UNCHANGED <<scan, total, changes, steady>>
      BY <2>3 DEF EndScan
    <3>2. ScanServerInv'
      BY <1>s, <1>0, <3>1 DEF scan, ScanServerInv
    <3>3. ASSUME totals, ~ (changes > 1), live # {}
          PROVE  steady \subseteq clusters \cup items
      <4>1. ~ unstable /\ ~ Drifts /\ ~ (Cardinality(clusters \cup items) < Cardinality(live))
        BY <1>0, <1>e, <2>3, <3>3 DEF Untrusted
      <4>2. changes \in {0, 1}
        BY <1>s, <3>3 DEF ScanServerInv
      <4>3. clusters \subseteq live
        BY <1>s, <1>0, <1>e, <3>3, <4>1, <4>2 DEF KnownByTotals, Drifts
      <4>4. live = clusters \cup items
        <5>1. PICK S \in SUBSET VCs, T \in SUBSET VCs :
                T \subseteq S /\ S = live /\ T = clusters \cup items
          BY <1>s, <4>3 DEF ScanServerInv
        <5>2. Cardinality(T) \in Nat
          BY SomeVCs
        <5>3. Cardinality(S) <= Cardinality(T)
          BY <1>0, <4>1, <5>1, <5>2
        <5> QED
          BY <5>1, <5>3, SameCount
      <4> QED
        BY <1>s, <4>4 DEF ScanServerInv
    <3>4. ASSUME ~ totals, changes = 0, faults' = 0, ~ (hints = "none" /\ ~ numbered)
          PROVE  live \subseteq clusters \cup items
      <4>1. clusters = Before0((page - 1) * Size) /\ items = Numbered(page)
        BY <1>s, <3>4 DEF KnownByPages
      <4>2. clusters \cup items = Before0(page * Size) /\ items \cap clusters = {}
        BY <1>p, <4>1
      <4>3. ASSUME NEW v \in live, Rank(v) >= page * Size  PROVE FALSE
        <5>1. Cardinality(items) = Size
          BY <1>p, <4>1, <4>3
        <5>2. items # {}
          BY <1>p, <5>1, FS_EmptySet
        <5>3. ~ (items \subseteq clusters)
          BY <4>2, <5>2
        <5>4. HintAfter(page) # page
          BY <1>2, <1>e, <2>3, <3>4, <5>3 DEF Echoes
        <5>5. /\ HintAfter(page) = 0
              /\ ~ (numbered /\ Cardinality(items) >= Size)
          <6>1. page + 1 # 0
            BY <1>s DEF ScanServerInv
          <6> QED
            BY <1>2, <1>e, <3>4, <5>2, <5>3, <5>4, <6>1 DEF Follows
        <5>6. ~ (Cardinality(live) > page * Size)
          BY <1>h, <1>p, <3>4, <5>1, <5>5
        <5>7. page * Size \in Nat
          BY <1>s, <1>p DEF ScanServerInv
        <5> QED
          BY <1>0, <1>r, <4>3, <5>6, <5>7
      <4>4. \A v \in live : Rank(v) < page * Size
        <5>1. page * Size \in Nat
          BY <1>s, <1>p DEF ScanServerInv
        <5> QED
          BY <1>r, <4>3, <5>1
      <4> QED
        BY <4>2, <4>4 DEF Before0
    <3>5. NoEntryIsMissing'
      <4>1. steady \subseteq live
        BY <1>s DEF ScanServerInv
      <4>2. CASE totals
        BY <1>0, <3>1, <3>3, <4>1, <4>2 DEF NoEntryIsMissing
      <4>3. CASE ~ totals
        <5>1. changes = 0 \/ changes > 0
          BY <1>s DEF ScanServerInv
        <5>2. faults' = 0 \/ faults' > 0
          OBVIOUS
        <5> QED
          BY <1>0, <3>1, <3>4, <4>1, <4>3, <5>1, <5>2 DEF NoEntryIsMissing
      <4> QED
        BY <1>s, <4>2, <4>3 DEF ScanServerInv
    <3> QED
      BY <3>1, <3>2, <3>5 DEF KnownByTotals, KnownByPages
  <2> QED
    BY <1>2, <2>1, <2>2, <2>3 DEF FetchPage
<1> QED
  BY <1>1, <1>2

LEMMA IAMPreserved ==
  IAMInv /\ faults \in {0, 1} /\ [IAMNext]_iamVars => IAMInv' /\ faults' \in {0, 1}
<1> SUFFICES ASSUME IAMInv, faults \in {0, 1}, [IAMNext]_iamVars PROVE IAMInv' /\ faults' \in {0, 1}
  OBVIOUS
<1>1. CASE IAMPage
  <2>1. Numbered(page) \in SUBSET live
    BY DEF Numbered
  <2> QED
    BY <1>1, <2>1, FetchNext DEF IAMPage
<1>2. CASE TiedPage
  <2>1. PICK items \in SUBSET live : FetchPage(items)
    BY <1>2 DEF TiedPage, Overlapping
  <2>2. faults' = 1
    BY <1>2 DEF TiedPage
  <2> QED
    BY <2>1, <2>2, FetchNext
<1>3. CASE IAMRefused
  <2>1. /\ UNCHANGED <<live, steady, totals, faults, total, hints, numbered, pass, page, unstable, changes>>
        /\ result' = "incomplete" /\ clusters' = {}
    BY <1>3 DEF IAMRefused, Refused, server, scan
  <2> QED
    BY <2>1 DEF IAMInv, ScanServerInv, KnownByTotals, KnownByPages, NoEntryIsMissing, NoTotal
<1>4. CASE IAMChange
  <2>1. /\ UNCHANGED <<totals, faults, total, hints, numbered, pass, page, unstable, clusters, result>>
        /\ changes' = changes + 1 /\ result = "listing"
    BY <1>4 DEF IAMChange, Create, Delete, scan
  <2>2. changes' \in Nat \ {0} /\ (changes' = 1 => changes = 0)
    BY <2>1 DEF IAMInv, ScanServerInv
  <2>3. PICK v \in VCs : Create(v) \/ Delete(v)
    BY <1>4 DEF IAMChange
  <2>4. live' \subseteq VCs /\ steady' \subseteq live'
    BY <2>3 DEF Create, Delete, IAMInv, ScanServerInv
  <2>5. ScanServerInv'
    BY <2>1, <2>2, <2>4 DEF IAMInv, ScanServerInv, NoTotal
  <2>6. ASSUME totals, changes = 0
        PROVE  clusters \subseteq live' \/ (total # NoTotal /\ Cardinality(live') # total)
    <3>1. clusters \subseteq live /\ (clusters # {} => total = Cardinality(live)) /\ live \subseteq VCs
      BY <2>1, <2>6 DEF IAMInv, ScanServerInv, KnownByTotals
    <3>2. CASE Create(v)
      BY <3>1, <3>2 DEF Create
    <3>3. CASE Delete(v) /\ clusters # {}
      <4>1. Cardinality(live') = Cardinality(live) - 1
        BY <3>1, <3>3, SomeVCs, FS_RemoveElement DEF Delete
      <4>2. Cardinality(live) \in Nat /\ Cardinality(live) < NoTotal /\ NoTotal \in Nat
        BY <3>1, SomeVCs
      <4> QED
        BY <3>1, <3>3, <4>1, <4>2
    <3> QED
      BY <2>3, <3>2, <3>3
  <2>7. KnownByTotals'
    BY <2>1, <2>2, <2>6 DEF KnownByTotals, NoTotal
  <2>8. KnownByPages' /\ NoEntryIsMissing'
    BY <2>1, <2>2 DEF KnownByPages, NoEntryIsMissing
  <2> QED
    BY <2>1, <2>5, <2>7, <2>8 DEF IAMInv
<1>5. CASE UNCHANGED iamVars
  <2>1. UNCHANGED <<live, steady, totals, faults, total, hints, numbered, pass, page, unstable, changes,
                    clusters, result>>
    BY <1>5 DEF iamVars, inventoryVars, server, scan
  <2>2. UNCHANGED Size /\ \A k : Before0(k)' = Before0(k)
    BY <2>1 DEF Size, Before0, Rank
  <2>3. KnownByPages'
    BY <2>1, <2>2 DEF IAMInv, KnownByPages
  <2> QED
    BY <2>1, <2>3 DEF IAMInv, ScanServerInv, KnownByTotals, NoEntryIsMissing, NoTotal
<1> QED
  BY <1>1, <1>2, <1>3, <1>4, <1>5 DEF IAMNext
-----------------------------------------------------------------------------
\* With each other reading, the variables of one stand still; with this one, the
\* steps are its own.
LEMMA ReadingsReadUsage == ReadingsSpec => UsageInit /\ [][UsageNext]_usageVars
<1>1. ReadingsInit => UsageInit
  BY DEF ReadingsInit
<1>2. [ReadingsNext]_allVars => [UsageNext]_usageVars
  BY DEF ReadingsNext, allVars, others, listing, OnlyOthers, ReadJob, ReadVCs, ReadIAM, ReadProfiles,
         ReadNewest, ReadGet, ReadUsageOfQueue, ReadNodes, ReadMetrics, ReadViews, ReadUsers
<1>3. QED
  BY <1>1, <1>2, PTL DEF ReadingsSpec

LEMMA ReadingsReadNodes == ReadingsSpec => NodeInit /\ [][NodeNext]_nodeVars
<1>1. ReadingsInit => NodeInit
  BY DEF ReadingsInit
<1>2. [ReadingsNext]_allVars => [NodeNext]_nodeVars
  BY DEF ReadingsNext, allVars, others, listing, OnlyOthers, ReadJob, ReadVCs, ReadIAM, ReadProfiles,
         ReadNewest, ReadGet, ReadUsageOfQueue, ReadNodes, ReadMetrics, ReadViews, ReadUsers
<1>3. QED
  BY <1>1, <1>2, PTL DEF ReadingsSpec

LEMMA ReadingsReadViews == ReadingsSpec => ViewInit /\ [][ViewNext]_viewVars
<1>1. ReadingsInit => ViewInit
  BY DEF ReadingsInit
<1>2. [ReadingsNext]_allVars => [ViewNext]_viewVars
  BY DEF ReadingsNext, allVars, others, listing, OnlyOthers, ReadJob, ReadVCs, ReadIAM, ReadProfiles,
         ReadNewest, ReadGet, ReadUsageOfQueue, ReadNodes, ReadMetrics, ReadViews, ReadUsers
<1>3. QED
  BY <1>1, <1>2, PTL DEF ReadingsSpec

LEMMA ReadingsReadProfiles == ReadingsSpec => QueryInit /\ [][QueryNext]_queryVars
<1>1. ReadingsInit => QueryInit
  BY DEF ReadingsInit
<1>2. [ReadingsNext]_allVars => [QueryNext]_queryVars
  BY DEF ReadingsNext, allVars, others, listing, OnlyOthers, ReadJob, ReadVCs, ReadIAM, ReadProfiles,
         ReadNewest, ReadGet, ReadUsageOfQueue, ReadNodes, ReadMetrics, ReadViews, ReadUsers
<1>3. QED
  BY <1>1, <1>2, PTL DEF ReadingsSpec

LEMMA ReadingsReadGet == ReadingsSpec => GetInit /\ [][GetNext]_getVars
<1>1. ReadingsInit => GetInit
  BY DEF ReadingsInit
<1>2. [ReadingsNext]_allVars => [GetNext]_getVars
  BY DEF ReadingsNext, allVars, others, listing, OnlyOthers, ReadJob, ReadVCs, ReadIAM, ReadProfiles,
         ReadNewest, ReadGet, ReadUsageOfQueue, ReadNodes, ReadMetrics, ReadViews, ReadUsers
<1>3. QED
  BY <1>1, <1>2, PTL DEF ReadingsSpec

LEMMA ReadingsReadNewest == ReadingsSpec => NewestInit /\ [][NewestNext]_listVars
<1>1. ReadingsInit => NewestInit
  BY DEF ReadingsInit
<1>2. [ReadingsNext]_allVars => [NewestNext]_listVars
  BY DEF ReadingsNext, allVars, others, listing, OnlyOthers, ReadJob, ReadVCs, ReadIAM, ReadProfiles,
         ReadNewest, ReadGet, ReadUsageOfQueue, ReadNodes, ReadMetrics, ReadViews, ReadUsers
<1>3. QED
  BY <1>1, <1>2, PTL DEF ReadingsSpec

LEMMA ReadingsReadMetrics == ReadingsSpec => MetricsInit /\ [][MetricsNext]_metricsVars
<1>1. ReadingsInit => MetricsInit
  BY DEF ReadingsInit
<1>2. [ReadingsNext]_allVars => [MetricsNext]_metricsVars
  BY DEF ReadingsNext, allVars, others, listing, OnlyOthers, ReadJob, ReadVCs, ReadIAM, ReadProfiles,
         ReadNewest, ReadGet, ReadUsageOfQueue, ReadNodes, ReadMetrics, ReadViews, ReadUsers
<1>3. QED
  BY <1>1, <1>2, PTL DEF ReadingsSpec

LEMMA ReadingsReadUsers == ReadingsSpec => UserInit /\ [][UserNext]_userVars
<1>1. ReadingsInit => UserInit
  BY DEF ReadingsInit
<1>2. [ReadingsNext]_allVars => [UserNext]_userVars
  BY DEF ReadingsNext, allVars, others, listing, OnlyOthers, ReadJob, ReadVCs, ReadIAM, ReadProfiles,
         ReadNewest, ReadGet, ReadUsageOfQueue, ReadNodes, ReadMetrics, ReadViews, ReadUsers
<1>3. QED
  BY <1>1, <1>2, PTL DEF ReadingsSpec

\* The same variables are those of two readings.
LEMMA ReadingsListVCs == ReadingsSpec => [](reading = "vcs" => InventoryInv)
<1>1. ReadingsInit => (reading = "vcs" => InventoryInv)
  BY InventoryInitInv DEF ReadingsInit
<1>2. (reading = "vcs" => InventoryInv) /\ [ReadingsNext]_allVars => (reading = "vcs" => InventoryInv)'
  <2> SUFFICES ASSUME reading = "vcs" => InventoryInv, [ReadingsNext]_allVars, reading' = "vcs"
               PROVE  InventoryInv'
    OBVIOUS
  <2>1. reading = "vcs" /\ (ReadVCs \/ UNCHANGED inventoryVars)
    BY DEF ReadingsNext, allVars, listing, ReadJob, ReadIAM, ReadProfiles, ReadNewest, ReadGet,
           ReadUsageOfQueue, ReadNodes, ReadMetrics, ReadViews, ReadUsers
  <2> QED
    BY <2>1, InventoryPreserved DEF ReadVCs
<1>3. QED
  BY <1>1, <1>2, PTL DEF ReadingsSpec

LEMMA ReadingsListTheIAM == ReadingsSpec => [](reading = "iam" => IAMInv /\ faults \in {0, 1})
<1>1. ReadingsInit => (reading = "iam" => IAMInv /\ faults \in {0, 1})
  BY ScanInitInv DEF ReadingsInit, InventoryInit
<1>2. (reading = "iam" => IAMInv /\ faults \in {0, 1}) /\ [ReadingsNext]_allVars
      => (reading = "iam" => IAMInv /\ faults \in {0, 1})'
  <2> SUFFICES ASSUME reading = "iam" => IAMInv /\ faults \in {0, 1}, [ReadingsNext]_allVars,
                      reading' = "iam"
               PROVE  IAMInv' /\ faults' \in {0, 1}
    OBVIOUS
  <2>1. reading = "iam" /\ (ReadIAM \/ UNCHANGED iamVars)
    BY DEF ReadingsNext, allVars, listing, iamVars, ReadJob, ReadVCs, ReadProfiles, ReadNewest, ReadGet,
           ReadUsageOfQueue, ReadNodes, ReadMetrics, ReadViews, ReadUsers
  <2> QED
    BY <2>1, IAMPreserved DEF ReadIAM
<1>3. QED
  BY <1>1, <1>2, PTL DEF ReadingsSpec

\* vc_kubeconfig.go, iam_pagination_client.go, profile_inventory.go, job_list.go,
\* ssp_catalog_service.go, internal/metrics: no list of a profile's VCs, of the IAM,
\* of several profiles or of the newest jobs is taken for whole that is not, no sample
\* of a metric is lost, no restart counts twice, and no sample of memory does, unless
\* it is a container's and too near the next one; for any number of entries, any page
\* sizes, limits and clocks, however often the server repeats, cuts or reorders its
\* pages, and whatever is created and deleted meanwhile.
THEOREM ListsStayWhole == ReadingsSpec => []ListsAreWhole
<1>1. ReadingsSpec => []QueryInv
  BY ReadingsReadProfiles, QueryInitInv, QueryPreserved, PTL
<1>2. ReadingsSpec => []NewestInv
  BY ReadingsReadNewest, NewestInitInv, NewestPreserved, PTL
<1>3. ReadingsSpec => []SamplesInv
  BY ReadingsReadMetrics, SamplesInitInv, SamplesPreserved, PTL
<1>4. QueryInv /\ NewestInv /\ SamplesInv
      /\ (reading = "vcs" => InventoryInv) /\ (reading = "iam" => IAMInv /\ faults \in {0, 1})
      => ListsAreWhole
  <2> SUFFICES ASSUME QueryInv, NewestInv, SamplesInv, reading = "vcs" => InventoryInv,
                      reading = "iam" => IAMInv
               PROVE  ListsAreWhole
    OBVIOUS
  <2>1. ListIsWhole
    BY ListWhenSaid
  <2>2. reading = "vcs" => NothingMissing /\ CountedOnce
    BY DEF InventoryInv
  <2>3. reading = "iam" => NoEntryIsMissing
    BY DEF IAMInv
  <2>4. NewestAreListed
    BY DEF NewestInv
  <2>5. SamplesAreWhole
    BY SamplesAreCounted
  <2> QED
    BY <2>1, <2>2, <2>3, <2>4, <2>5, Zenon DEF ListsAreWhole
<1>5. QED
  BY <1>1, <1>2, <1>3, <1>4, ReadingsListVCs, ReadingsListTheIAM, PTL

\* profiles, workspaces, metrics, users: whatever is denied, cut short, cancelled,
\* late or changed meanwhile, what is found, missing, guessed or refused rests on
\* the answers that allow it, a metric is the workload's own, and what is shown of
\* users and groups is theirs, and whole (platform.Config's FanOut and its like,
\* ssp_job_service.go, metrics_resolver.go, user_service.go, auth_service.go).
THEOREM QueriesStayTrue == ReadingsSpec => []QueriesAreTrue
<1>1. ReadingsSpec => []QueryInv
  BY ReadingsReadProfiles, QueryInitInv, QueryPreserved, PTL
<1>2. ReadingsSpec => []GetInv
  BY ReadingsReadGet, GetInitInv, GetPreserved, PTL
<1>3. ReadingsSpec => []MetricsInv
  BY ReadingsReadMetrics, MetricsInitInv, MetricsPreserved, PTL
<1>4. ReadingsSpec => []UserInv
  BY ReadingsReadUsers, UserInitInv, UserPreserved, PTL
<1>5. QueryInv /\ GetInv /\ MetricsInv /\ UserInv => QueriesAreTrue
  BY QueriesHold, MetricsHold, UsersHold DEF QueriesAreTrue, GetInv
<1>6. QED
  BY <1>1, <1>2, <1>3, <1>4, <1>5, PTL

\* ssp_resource_service.go, ssp_usage_labels.go, node_service.go: whatever fails or
\* changes meanwhile, a queue's nodes are those of nobody else and none of its own is
\* hidden by a complete answer, a node's usage, queues and pods are its own, and a
\* queue is shown with its own workspace and VC.
THEOREM UsageStaysTrue == ReadingsSpec => []UsageIsTrue
<1>1. ReadingsSpec => []UsageInv
  BY ReadingsReadUsage, UsageInitInv, UsagePreserved, PTL
<1>2. ReadingsSpec => []NodeInv
  BY ReadingsReadNodes, NodeInitInv, NodePreserved, PTL
<1>3. ReadingsSpec => []ViewInv
  BY ReadingsReadViews, ViewInitInv, ViewPreserved, PTL
<1>4. UsageInv /\ NodeInv /\ ViewInv => UsageIsTrue
  BY UsageHolds, NodesHold, ViewsHold DEF UsageIsTrue
<1>5. QED
  BY <1>1, <1>2, <1>3, <1>4, PTL
================================================================================
