--------------------------- MODULE VCConfigUpdate ---------------------------
(***************************************************************************)
(* rayctl vc config update (internal/service/vc_config_update.go,          *)
(* vc_config_service.go, internal/platform/vc_config_client.go): updaters  *)
(* that change the flavor of one VC's control plane and wait until it has  *)
(* converged, while the platform, the controllers and other updaters       *)
(* change what they read.  The platform holds the desired flavor; its      *)
(* operator writes label and size to the VCluster2ControlPlane; that       *)
(* controller writes the Deployment; the Deployment controller rolls its   *)
(* pods and reports in status what it saw of which generation.             *)
(*                                                                         *)
(* A size stands for replicas, requests and limits of one replica.  Two    *)
(* flavors may have one size, and two sizes the same number of replicas.   *)
(***************************************************************************)
EXTENDS Naturals

CONSTANTS
  Updaters,      \* executions of the command
  Flavors,       \* minimum, small, medium, large
  Sizes,
  Replicas,      \* the number of replicas of a size
  InitialSize,   \* the definition of each flavor at first
  TargetOf,      \* --flavor of each updater
  MaxGeneration, \* bound on the changes of the Deployment
  MaxForeign     \* bound on the changes other clients make

ASSUME UpdateAssumption ==
  /\ Replicas \in [Sizes -> Nat \ {0}]
  /\ InitialSize \in [Flavors -> Sizes]
  /\ TargetOf \in [Updaters -> Flavors]
  /\ MaxGeneration \in Nat \ {0} /\ MaxForeign \in Nat

VARIABLES
  want,       \* the flavor the platform persists for the VC
  defs,       \* the size of each flavor
  foreign,    \* the changes other clients made
  cp,         \* VCluster2ControlPlane: label and size
  dep,        \* Deployment: size and generation
  status,     \* its status: observedGeneration, and the pods it counts
  running,    \* the size the pods really have
  flying,     \* PATCH requests sent and not yet applied
  applied,    \* updaters whose PATCH was applied
  pc, outcome,
  dry, yes, wait,  \* --dry-run, --yes, --wait
  shown,      \* result.Current.Desired
  target,     \* the size in result.Target
  seen        \* what the current round of waitForConfig has read

world == <<want, defs, foreign, cp, dep, status, running>>
options == <<dry, yes, wait>>
vars == <<world, flying, applied, pc, outcome, options, shown, target, seen>>

Nothing == [want |-> "", label |-> "", size |-> ""]

\* PrepareUpdate and ApplyUpdate give up when one of these is all they know.
Outcomes == {"", "dry-run", "declined", "refused", "same", "accepted",
             "unconfirmed", "converged", "not confirmed"}

Init ==
  /\ want \in Flavors
  /\ defs = InitialSize
  /\ foreign = 0
  /\ cp = [label |-> want, size |-> defs[want]]
  /\ dep = [size |-> cp.size, gen |-> 1]
  /\ status = [gen |-> 1, pods |-> Replicas[dep.size]]
  /\ running = dep.size
  /\ flying = {} /\ applied = {}
  /\ pc = [u \in Updaters |-> "read"]
  /\ outcome = [u \in Updaters |-> ""]
  /\ dry \in [Updaters -> BOOLEAN]
  /\ yes \in [Updaters -> BOOLEAN]
  /\ wait \in [Updaters -> BOOLEAN]
  /\ \A u \in Updaters : dry[u] => yes[u] /\ wait[u]  \* a dry run reads neither
  /\ shown = [u \in Updaters |-> ""]
  /\ target = [u \in Updaters |-> ""]
  /\ seen = [u \in Updaters |-> Nothing]

Changed(u) == shown[u] # TargetOf[u]

Goto(u, place) == pc' = [pc EXCEPT ![u] = place]
Finish(u, result) == /\ pc' = [pc EXCEPT ![u] = "done"]
                     /\ outcome' = [outcome EXCEPT ![u] = result]
-----------------------------------------------------------------------------
(***************************************************************************)
(* PrepareUpdate: the desired flavor, then the definition of the target.   *)
(***************************************************************************)
ReadDesired(u) ==
  /\ pc[u] = "read"
  /\ shown' = [shown EXCEPT ![u] = want]
  /\ Goto(u, "define")
  /\ UNCHANGED <<world, flying, applied, outcome, options, target, seen>>

\* A dry run ends here; a change that was not confirmed with --yes is asked for.
ReadDefinition(u) ==
  /\ pc[u] = "define"
  /\ target' = [target EXCEPT ![u] = defs[TargetOf[u]]]
  /\ IF dry[u] THEN Finish(u, "dry-run")
               ELSE /\ Goto(u, IF Changed(u) /\ ~yes[u] THEN "confirm"
                                                       ELSE "recheck")
                    /\ UNCHANGED outcome
  /\ UNCHANGED <<world, flying, applied, options, shown, seen>>

Answer(u) ==
  /\ pc[u] = "confirm"
  /\ \/ Goto(u, "recheck") /\ UNCHANGED outcome
     \/ Finish(u, "declined")
  /\ UNCHANGED <<world, flying, applied, options, shown, target, seen>>

\* Every read before the PATCH can fail, or run into the timeout.
Refuse(u) ==
  /\ pc[u] \in {"read", "define", "recheck", "redefine"}
  /\ Finish(u, "refused")
  /\ UNCHANGED <<world, flying, applied, options, shown, target, seen>>
-----------------------------------------------------------------------------
(***************************************************************************)
(* ApplyUpdate: both are read again, then the PATCH is sent once           *)
(* (MaxRetries(0)).  The API has no conditional write.                     *)
(***************************************************************************)
DesiredAssumed(u) == TRUE               \* mutant: the second read is dropped
StillDesired(u) == want = shown[u]
StillDefined(u) == defs[TargetOf[u]] = target[u]

AfterSubmit(u, result) ==
  IF wait[u] THEN Goto(u, "wait desired") /\ UNCHANGED outcome
             ELSE Finish(u, result)

Recheck(u) ==
  /\ pc[u] = "recheck"
  /\ CASE ~StillDesired(u) -> Finish(u, "refused")
       [] StillDesired(u) /\ Changed(u) ->
            Goto(u, "redefine") /\ UNCHANGED outcome
       [] StillDesired(u) /\ ~Changed(u) -> AfterSubmit(u, "same")
  /\ UNCHANGED <<world, flying, applied, options, shown, target, seen>>

Send(u) ==
  /\ pc[u] = "redefine"
  /\ IF StillDefined(u)
       THEN /\ flying' = flying \cup {u}
            /\ Goto(u, "patch")
            /\ UNCHANGED outcome
       ELSE /\ Finish(u, "refused")
            /\ UNCHANGED flying
  /\ UNCHANGED <<world, applied, options, shown, target, seen>>

\* The platform persists the flavor, perhaps long after the caller gave up.
Deliver(u) ==
  /\ u \in flying
  /\ flying' = flying \ {u}
  /\ applied' = applied \cup {u}
  /\ want' = TargetOf[u]
  /\ UNCHANGED <<defs, foreign, cp, dep, status, running, pc, outcome,
                 options, shown, target, seen>>

Accepted(u) ==
  /\ pc[u] = "patch" /\ u \in applied
  /\ AfterSubmit(u, "accepted")
  /\ UNCHANGED <<world, flying, applied, options, shown, target, seen>>

\* No answer, or one that is no confirmation; the request may still arrive.
FailedSubmitAsRefused == "refused"      \* mutant: an error means not applied
FailedSubmit == "unconfirmed"
Unanswered(u) ==
  /\ pc[u] = "patch"
  /\ Finish(u, FailedSubmit)
  /\ UNCHANGED <<world, flying, applied, options, shown, target, seen>>

\* The request never arrives.
Lose(u) ==
  /\ u \in flying
  /\ flying' = flying \ {u}
  /\ UNCHANGED <<world, applied, pc, outcome, options, shown, target, seen>>
-----------------------------------------------------------------------------
(***************************************************************************)
(* waitForConfig: Get reads the platform, the control plane and the        *)
(* Deployment one after the other, ConvergedFor compares them.             *)
(***************************************************************************)
WaitingForCluster(u) ==                 \* mutant: no deadline on the reads
  pc[u] \in {"wait cp", "wait deployment"} /\ seen[u].want = TargetOf[u]
Waiting(u) == pc[u] \in {"wait desired", "wait cp", "wait deployment"}

SeeDesired(u) ==
  /\ pc[u] = "wait desired"
  /\ seen' = [seen EXCEPT ![u].want = want]
  /\ Goto(u, "wait cp")
  /\ UNCHANGED <<world, flying, applied, outcome, options, shown, target>>

SeeControlPlane(u) ==
  /\ pc[u] = "wait cp"
  /\ seen' = [seen EXCEPT ![u].label = cp.label, ![u].size = cp.size]
  /\ Goto(u, "wait deployment")
  /\ UNCHANGED <<world, flying, applied, outcome, options, shown, target>>

RolledOutByCount(size) ==               \* mutant: generations not compared
  status.pods = Replicas[size]
RolledOut(size) == status.gen >= dep.gen /\ status.pods = Replicas[size]

ConvergedFor(u) ==
  /\ seen[u].want = TargetOf[u]
  /\ seen[u].label = TargetOf[u] /\ seen[u].size = target[u]
  /\ dep.size = target[u]
  /\ RolledOut(target[u])

SeeDeployment(u) ==
  /\ pc[u] = "wait deployment"
  /\ IF ConvergedFor(u) THEN Finish(u, "converged")
                        ELSE Goto(u, "wait desired") /\ UNCHANGED outcome
  /\ seen' = [seen EXCEPT ![u] = Nothing]
  /\ UNCHANGED <<world, flying, applied, options, shown, target>>

\* A read of the round fails: the next round starts after the interval.
SeeNothing(u) ==
  /\ pc[u] \in {"wait cp", "wait deployment"}
  /\ Goto(u, "wait desired")
  /\ seen' = [seen EXCEPT ![u] = Nothing]
  /\ UNCHANGED <<world, flying, applied, outcome, options, shown, target>>

\* --timeout, or Ctrl-C.
Expire(u) ==
  /\ Waiting(u)
  /\ Finish(u, "not confirmed")
  /\ seen' = [seen EXCEPT ![u] = Nothing]
  /\ UNCHANGED <<world, flying, applied, options, shown, target>>
-----------------------------------------------------------------------------
(***************************************************************************)
(* Other clients of the platform, the platform and the controllers.        *)
(***************************************************************************)
SetElsewhere ==
  /\ foreign < MaxForeign
  /\ want' \in Flavors \ {want}
  /\ foreign' = foreign + 1
  /\ UNCHANGED <<defs, cp, dep, status, running, flying, applied, pc, outcome,
                 options, shown, target, seen>>

Redefine(f) ==
  /\ foreign < MaxForeign
  /\ \E s \in Sizes \ {defs[f]} : defs' = [defs EXCEPT ![f] = s]
  /\ foreign' = foreign + 1
  /\ UNCHANGED <<want, cp, dep, status, running, flying, applied, pc, outcome,
                 options, shown, target, seen>>

Apply ==
  /\ cp # [label |-> want, size |-> defs[want]]
  /\ cp' = [label |-> want, size |-> defs[want]]
  /\ UNCHANGED <<want, defs, foreign, dep, status, running, flying, applied,
                 pc, outcome, options, shown, target, seen>>

Deploy ==
  /\ dep.size # cp.size /\ dep.gen < MaxGeneration
  /\ dep' = [size |-> cp.size, gen |-> dep.gen + 1]
  /\ UNCHANGED <<want, defs, foreign, cp, status, running, flying, applied,
                 pc, outcome, options, shown, target, seen>>

\* The new generation is observed; none of its pods is updated yet.
Observe ==
  /\ status.gen < dep.gen
  /\ status' = [gen |-> dep.gen,
                pods |-> IF running = dep.size THEN Replicas[dep.size] ELSE 0]
  /\ UNCHANGED <<want, defs, foreign, cp, dep, running, flying, applied, pc,
                 outcome, options, shown, target, seen>>

Roll ==
  /\ status.gen = dep.gen /\ running # dep.size
  /\ running' = dep.size
  /\ status' = [status EXCEPT !.pods = Replicas[dep.size]]
  /\ UNCHANGED <<want, defs, foreign, cp, dep, flying, applied, pc, outcome,
                 options, shown, target, seen>>

Step(u) ==
  \/ ReadDesired(u) \/ ReadDefinition(u) \/ Refuse(u) \/ Recheck(u) \/ Send(u)
  \/ Accepted(u) \/ Unanswered(u)
  \/ SeeDesired(u) \/ SeeControlPlane(u) \/ SeeDeployment(u) \/ SeeNothing(u)

Next ==
  \/ \E u \in Updaters : \/ Step(u) \/ Answer(u) \/ Expire(u)
                         \/ Deliver(u) \/ Lose(u)
  \/ SetElsewhere \/ \E f \in Flavors : Redefine(f)
  \/ Apply \/ Deploy \/ Observe \/ Roll

Spec == Init /\ [][Next]_vars

\* Requests end, the timer of --timeout runs; nobody else has to do anything.
FairSpec ==
  Spec /\ \A u \in Updaters : WF_vars(Step(u)) /\ WF_vars(Expire(u))
-----------------------------------------------------------------------------
TypeOK ==
  /\ want \in Flavors /\ defs \in [Flavors -> Sizes]
  /\ cp \in [label : Flavors, size : Sizes]
  /\ dep \in [size : Sizes, gen : 1 .. MaxGeneration]
  /\ status.gen \in 1 .. dep.gen /\ running \in Sizes
  /\ flying \subseteq Updaters /\ applied \subseteq Updaters
  /\ outcome \in [Updaters -> Outcomes]

\* What the command reports about its PATCH is true, now and for good: an
\* update reported as not submitted neither is nor will be applied, and one
\* reported as accepted or converged was applied, or was not needed.
OutcomeIsHonest ==
  \A u \in Updaters :
    /\ outcome[u] \in {"dry-run", "declined", "refused", "same"} =>
         u \notin applied \cup flying
    /\ outcome[u] \in {"accepted", "converged"} =>
         u \in applied \/ ~Changed(u)

\* ApplyUpdate: a flavor somebody set while the question was on the screen is
\* not overwritten unseen; what is sent was read again and found as shown.
SendsOnlyWhatWasShown ==
  [][\A u \in Updaters :
       /\ pc[u] = "recheck" /\ pc'[u] = "redefine" => want = shown[u]
       /\ u \in flying' \ flying =>
            /\ shown[u] # TargetOf[u] /\ ~dry[u]
            /\ defs[TargetOf[u]] = target[u]]_vars

\* "The control plane has converged" is only said when every pod has the size
\* of the target, also when pods of another size are as many and all ready.
ConvergedIsReal ==
  [][\A u \in Updaters :
       outcome'[u] = "converged" /\ outcome[u] # "converged" =>
         /\ running = target[u] /\ dep.size = target[u]
         /\ status.gen = dep.gen]_vars

\* An update that does not wait for its user ends, whatever the platform does.
UpdatesEnd ==
  \A u \in Updaters : pc[u] \notin {"confirm", "done"} ~>
                        pc[u] \in {"confirm", "done"}
=============================================================================
