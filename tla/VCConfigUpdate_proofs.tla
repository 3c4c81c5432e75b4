------------------------- MODULE VCConfigUpdate_proofs -------------------------
(***************************************************************************)
(* Theorems about VCConfigUpdate, for any updaters, flavors, sizes and any *)
(* number of changes by others: what the command reports about its PATCH,  *)
(* what it sends, and what "converged" means for the running pods.         *)
(***************************************************************************)
EXTENDS VCConfigUpdate, TLAPS

Places == {"read", "define", "confirm", "recheck", "redefine", "patch",
           "wait desired", "wait cp", "wait deployment", "done"}

BeforePatch == {"read", "define", "confirm", "recheck", "redefine"}
Unsent == {"dry-run", "declined", "refused", "same"}

WorldTypes ==
  /\ want \in Flavors /\ defs \in [Flavors -> Sizes]
  /\ cp \in [label : Flavors, size : Sizes]
  /\ dep \in [size : Sizes, gen : 1 .. MaxGeneration]
  /\ status \in [gen : Nat, pods : Nat] /\ status.gen \in 1 .. dep.gen
  /\ running \in Sizes

UpdaterTypes ==
  /\ flying \subseteq Updaters /\ applied \subseteq Updaters
  /\ pc \in [Updaters -> Places]
  /\ outcome \in [Updaters -> Outcomes]
  /\ dry \in [Updaters -> BOOLEAN]
  /\ shown \in [Updaters -> Flavors \cup {""}]

(***************************************************************************)
(* The strengthening of OutcomeIsHonest.  Up to the PATCH nothing was sent *)
(* and nothing is said; a command that waits has its change, or needs none;*)
(* only a change that is wanted gets as far as the second look.            *)
(***************************************************************************)
UpdaterInv(u) ==
  /\ pc[u] \in BeforePatch \/ outcome[u] \in Unsent => u \notin applied \cup flying
  /\ pc[u] # "done" => outcome[u] = ""
  /\ Waiting(u) \/ outcome[u] \in {"accepted", "converged"} =>
       u \in applied \/ ~Changed(u)
  /\ pc[u] \in {"confirm", "recheck", "redefine"} => ~dry[u]
  /\ pc[u] = "redefine" => Changed(u)

(***************************************************************************)
(* The Deployment's status speaks of its generation or of an older one,    *)
(* and if of its own, it counts the pods of the Deployment's size or none. *)
(***************************************************************************)
StatusInv ==
  status.gen = dep.gen =>
    status.pods = IF running = dep.size THEN Replicas[dep.size] ELSE 0

WorldInv == WorldTypes /\ StatusInv
UpdatersInv == UpdaterTypes /\ \A u \in Updaters : UpdaterInv(u)
UpdateInv == WorldInv /\ UpdatersInv

LEMMA InitUpdate == Init => UpdateInv
<1> SUFFICES ASSUME Init  PROVE UpdateInv
  OBVIOUS
<1> USE UpdateAssumption
<1>1. /\ want \in Flavors /\ defs \in [Flavors -> Sizes]
      /\ cp \in [label : Flavors, size : Sizes]
  BY DEF Init
<1>2. dep \in [size : Sizes, gen : 1 .. MaxGeneration] /\ dep.gen = 1 /\ running \in Sizes
  <2>1. dep = [size |-> cp.size, gen |-> 1] /\ running = dep.size /\ cp.size \in Sizes
    BY <1>1 DEF Init
  <2>2. QED
    BY <2>1
<1>3. status \in [gen : Nat, pods : Nat] /\ status.gen \in 1 .. dep.gen
  <2>1. status = [gen |-> 1, pods |-> Replicas[dep.size]] /\ Replicas[dep.size] \in Nat
    BY <1>2 DEF Init
  <2>2. QED
    BY <1>2, <2>1
<1>4. UpdaterTypes
  BY DEF Init, UpdaterTypes, Places, Outcomes
<1>5. StatusInv
  BY DEF Init, StatusInv
<1>6. \A u \in Updaters : UpdaterInv(u)
  BY DEF Init, UpdaterInv, BeforePatch, Unsent, Waiting
<1>7. QED
  BY <1>1, <1>2, <1>3, <1>4, <1>5, <1>6 DEF UpdateInv, WorldInv, WorldTypes, UpdatersInv

\* An updater goes to place p and says r, and nothing else that counts changes.
Moves(u, p, r) ==
  /\ pc' = [pc EXCEPT ![u] = p] /\ outcome' = [outcome EXCEPT ![u] = r]
  /\ UNCHANGED <<flying, applied, dry, shown>>

\* When such a move keeps the invariant.
Allowed(u, p, r) ==
  /\ pc[u] # "done" /\ p \in Places /\ r \in Outcomes
  /\ p \in BeforePatch \/ r \in Unsent => u \notin applied \cup flying
  /\ p # "done" => r = ""
  /\ p \in {"wait desired", "wait cp", "wait deployment"} \/ r \in {"accepted", "converged"} =>
       u \in applied \/ ~Changed(u)
  /\ p \in {"confirm", "recheck", "redefine"} => ~dry[u]
  /\ p = "redefine" => Changed(u)

LEMMA AllowedMoves ==
  ASSUME UpdatersInv, NEW u \in Updaters, NEW p, NEW r, Moves(u, p, r), Allowed(u, p, r)
  PROVE  UpdatersInv'
<1> USE DEF UpdatersInv, UpdaterTypes, Moves, Allowed
<1>1. UpdaterTypes'
  OBVIOUS
<1>2. ASSUME NEW v \in Updaters, v # u
      PROVE  UpdaterInv(v)'
  <2>1. pc'[v] = pc[v] /\ outcome'[v] = outcome[v]
    BY <1>2
  <2>2. QED
    BY <2>1, <1>2 DEF UpdaterInv, Waiting, Changed
<1>3. UpdaterInv(u)'
  <2>1. pc'[u] = p /\ outcome'[u] = r
    OBVIOUS
  <2>2. QED
    BY <2>1 DEF UpdaterInv, Waiting, Changed
<1>4. QED
  BY <1>1, <1>2, <1>3

\* Finishing says r; going on says nothing.
LEMMA FinishMoves ==
  ASSUME NEW u \in Updaters, NEW r, Finish(u, r), UNCHANGED <<flying, applied, options, shown>>
  PROVE  Moves(u, "done", r)
BY DEF Finish, Moves, options

LEMMA GotoMoves ==
  ASSUME UpdatersInv, NEW u \in Updaters, NEW p, pc[u] # "done", Goto(u, p),
         UNCHANGED <<outcome, flying, applied, options, shown>>
  PROVE  Moves(u, p, "")
<1>1. outcome[u] = "" /\ outcome \in [Updaters -> Outcomes]
  BY DEF UpdatersInv, UpdaterTypes, UpdaterInv
<1>2. outcome = [outcome EXCEPT ![u] = ""]
  BY <1>1
<1>3. QED
  BY <1>2 DEF Goto, Moves, options

\* The updaters, one step of one of them at a time.
LEMMA UpdatersNext == WorldInv /\ UpdatersInv /\ [Next]_vars => UpdatersInv'
<1> SUFFICES ASSUME WorldInv, UpdatersInv, [Next]_vars
             PROVE  UpdatersInv'
  OBVIOUS
<1>0. \A u \in Updaters : UpdaterInv(u)
  BY DEF UpdatersInv
<1> DEFINE Idle == UNCHANGED <<flying, applied, options, shown>>
           MayGo(u, p) == Idle /\ Allowed(u, p, "") /\ Goto(u, p) /\ UNCHANGED outcome
           MayEnd(u, r) == Idle /\ Allowed(u, "done", r) /\ Finish(u, r)
<1>g. ASSUME NEW u \in Updaters, NEW p, MayGo(u, p)
      PROVE  UpdatersInv'
  BY <1>g, GotoMoves, AllowedMoves DEF Allowed
<1>e. ASSUME NEW u \in Updaters, NEW r, MayEnd(u, r)
      PROVE  UpdatersInv'
  BY <1>e, FinishMoves, AllowedMoves
<1> HIDE DEF MayGo, MayEnd
<1>1. ASSUME NEW u \in Updaters, ReadDesired(u)
      PROVE  UpdatersInv'
  <2>1. /\ pc[u] = "read" /\ pc' = [pc EXCEPT ![u] = "define"] /\ shown' = [shown EXCEPT ![u] = want]
        /\ UNCHANGED <<flying, applied, outcome, dry>>
    BY <1>1 DEF ReadDesired, Goto, options
  <2>2. want \in Flavors
    BY DEF WorldInv, WorldTypes
  <2>3. UpdaterTypes'
    BY <2>1, <2>2 DEF UpdatersInv, UpdaterTypes, Places
  <2>4. ASSUME NEW v \in Updaters
        PROVE  UpdaterInv(v)'
    BY <2>1, <1>0 DEF UpdatersInv, UpdaterTypes, UpdaterInv, BeforePatch, Unsent, Waiting, Changed
  <2>5. QED
    BY <2>3, <2>4 DEF UpdatersInv
<1> USE <1>0 DEF UpdaterInv, Allowed, BeforePatch, Unsent, Places, Outcomes, Waiting
<1>2. ASSUME NEW u \in Updaters, ReadDefinition(u)
      PROVE  UpdatersInv'
  <2>1. CASE dry[u]
    <3>1. MayEnd(u, "dry-run")
      BY <1>2, <2>1 DEF ReadDefinition, MayEnd, world
    <3>2. QED
      BY <3>1, <1>e
  <2>2. CASE ~dry[u]
    <3>1. PICK p \in {"confirm", "recheck"} : Goto(u, p)
      BY <1>2, <2>2 DEF ReadDefinition
    <3>2. MayGo(u, p)
      BY <1>2, <2>2, <3>1 DEF ReadDefinition, MayGo, world
    <3>3. QED
      BY <3>2, <1>g
  <2>3. QED
    BY <2>1, <2>2
<1>3. ASSUME NEW u \in Updaters, Answer(u)
      PROVE  UpdatersInv'
  <2>1. MayGo(u, "recheck") \/ MayEnd(u, "declined")
    BY <1>3 DEF Answer, MayGo, MayEnd
  <2>2. QED
    BY <2>1, <1>g, <1>e
<1>4. ASSUME NEW u \in Updaters, Refuse(u)
      PROVE  UpdatersInv'
  <2>1. MayEnd(u, "refused")
    BY <1>4 DEF Refuse, MayEnd
  <2>2. QED
    BY <2>1, <1>e
<1>5. ASSUME NEW u \in Updaters, Recheck(u)
      PROVE  UpdatersInv'
  <2>1. CASE ~StillDesired(u)
    <3>1. MayEnd(u, "refused")
      BY <1>5, <2>1 DEF Recheck, MayEnd
    <3>2. QED
      BY <3>1, <1>e
  <2>2. CASE StillDesired(u) /\ Changed(u)
    <3>1. MayGo(u, "redefine")
      BY <1>5, <2>2 DEF Recheck, MayGo
    <3>2. QED
      BY <3>1, <1>g
  <2>3. CASE StillDesired(u) /\ ~Changed(u)
    <3>1. MayGo(u, "wait desired") \/ MayEnd(u, "same")
      BY <1>5, <2>3 DEF Recheck, AfterSubmit, MayGo, MayEnd
    <3>2. QED
      BY <3>1, <1>g, <1>e
  <2>4. QED
    BY <2>1, <2>2, <2>3
<1>6. ASSUME NEW u \in Updaters, Send(u)
      PROVE  UpdatersInv'
  <2>1. CASE ~StillDefined(u)
    <3>1. MayEnd(u, "refused")
      BY <1>6, <2>1 DEF Send, MayEnd
    <3>2. QED
      BY <3>1, <1>e
  <2>2. CASE StillDefined(u)
    <3>1. /\ pc[u] = "redefine" /\ pc' = [pc EXCEPT ![u] = "patch"] /\ flying' = flying \cup {u}
          /\ UNCHANGED <<applied, outcome, dry, shown>>
      BY <1>6, <2>2 DEF Send, Goto, options
    <3>2. UpdaterTypes'
      BY <3>1 DEF UpdatersInv, UpdaterTypes
    <3>3. ASSUME NEW v \in Updaters
          PROVE  UpdaterInv(v)'
      BY <3>1 DEF UpdatersInv, UpdaterTypes, Changed
    <3>4. QED
      BY <3>2, <3>3 DEF UpdatersInv
  <2>3. QED
    BY <2>1, <2>2
<1>7. ASSUME NEW u \in Updaters, Deliver(u)
      PROVE  UpdatersInv'
  BY <1>7 DEF Deliver, UpdatersInv, UpdaterTypes, Changed, options
<1>8. ASSUME NEW u \in Updaters, Accepted(u)
      PROVE  UpdatersInv'
  <2>1. MayGo(u, "wait desired") \/ MayEnd(u, "accepted")
    BY <1>8 DEF Accepted, AfterSubmit, MayGo, MayEnd
  <2>2. QED
    BY <2>1, <1>g, <1>e
<1>9. ASSUME NEW u \in Updaters, Unanswered(u)
      PROVE  UpdatersInv'
  <2>1. MayEnd(u, "unconfirmed")
    BY <1>9 DEF Unanswered, FailedSubmit, MayEnd
  <2>2. QED
    BY <2>1, <1>e
<1>10. ASSUME NEW u \in Updaters, Lose(u)
       PROVE  UpdatersInv'
  BY <1>10 DEF Lose, UpdatersInv, UpdaterTypes, Changed, options
<1>11. ASSUME NEW u \in Updaters, SeeDesired(u) \/ SeeControlPlane(u) \/ SeeNothing(u)
       PROVE  UpdatersInv'
  <2>1. \E p \in {"wait desired", "wait cp", "wait deployment"} : MayGo(u, p)
    BY <1>11 DEF SeeDesired, SeeControlPlane, SeeNothing, MayGo
  <2>2. QED
    BY <2>1, <1>g
<1>12. ASSUME NEW u \in Updaters, SeeDeployment(u)
       PROVE  UpdatersInv'
  <2>1. CASE ConvergedFor(u)
    <3>1. MayEnd(u, "converged")
      BY <1>12, <2>1 DEF SeeDeployment, MayEnd
    <3>2. QED
      BY <3>1, <1>e
  <2>2. CASE ~ConvergedFor(u)
    <3>1. MayGo(u, "wait desired")
      BY <1>12, <2>2 DEF SeeDeployment, MayGo
    <3>2. QED
      BY <3>1, <1>g
  <2>3. QED
    BY <2>1, <2>2
<1>13. ASSUME NEW u \in Updaters, Expire(u)
       PROVE  UpdatersInv'
  <2>1. MayEnd(u, "not confirmed")
    BY <1>13 DEF Expire, MayEnd
  <2>2. QED
    BY <2>1, <1>e
<1>14. CASE UNCHANGED <<flying, applied, pc, outcome, options, shown, target, seen>>
  BY <1>14 DEF UpdatersInv, UpdaterTypes, Changed, options
<1> QED
  BY <1>1, <1>2, <1>3, <1>4, <1>5, <1>6, <1>7, <1>8, <1>9, <1>10, <1>11, <1>12, <1>13, <1>14
  DEF Next, Step, SetElsewhere, Redefine, Apply, Deploy, Observe, Roll, vars

\* The platform and its controllers.
LEMMA WorldNext == WorldInv /\ [Next]_vars => WorldInv'
<1> SUFFICES ASSUME WorldInv, [Next]_vars
             PROVE  WorldInv'
  OBVIOUS
<1> USE UpdateAssumption DEF WorldInv, WorldTypes, StatusInv
<1>1. ASSUME NEW u \in Updaters, Deliver(u)
      PROVE  WorldInv'
  BY <1>1 DEF Deliver
<1>2. CASE SetElsewhere
  BY <1>2 DEF SetElsewhere
<1>3. ASSUME NEW f \in Flavors, Redefine(f)
      PROVE  WorldInv'
  BY <1>3 DEF Redefine
<1>4. CASE Apply
  BY <1>4 DEF Apply
<1>5. CASE Deploy
  <2>1. dep' \in [size : Sizes, gen : 1 .. MaxGeneration] /\ dep'.gen = dep.gen + 1
    BY <1>5 DEF Deploy
  <2>2. status'.gen \in 1 .. dep'.gen /\ status'.gen # dep'.gen
    BY <1>5, <2>1 DEF Deploy
  <2>3. QED
    BY <1>5, <2>1, <2>2 DEF Deploy
<1>6. CASE Observe
  <2>1. /\ status'.gen = dep.gen
        /\ status'.pods = IF running = dep.size THEN Replicas[dep.size] ELSE 0
        /\ status' \in [gen : Nat, pods : Nat]
    BY <1>6 DEF Observe
  <2>2. QED
    BY <1>6, <2>1 DEF Observe
<1>7. CASE Roll
  <2>1. /\ status'.gen = status.gen /\ status'.pods = Replicas[dep.size]
        /\ status' \in [gen : Nat, pods : Nat] /\ running' = dep.size
    BY <1>7 DEF Roll
  <2>2. QED
    BY <1>7, <2>1 DEF Roll
<1>8. CASE UNCHANGED world
  BY <1>8 DEF world
<1> QED
  BY <1>1, <1>2, <1>3, <1>4, <1>5, <1>6, <1>7, <1>8
  DEF Next, Step, ReadDesired, ReadDefinition, Answer, Refuse, Recheck, Send, Accepted,
      Unanswered, Lose, SeeDesired, SeeControlPlane, SeeDeployment, SeeNothing, Expire, vars

(***************************************************************************)
(* UpdateInv holds throughout, for any updates, flavors and platform.      *)
(***************************************************************************)
THEOREM UpdateInvariance == Spec => []UpdateInv
BY InitUpdate, UpdatersNext, WorldNext, PTL DEF Spec, UpdateInv

(***************************************************************************)
(* What is said of the PATCH is true now and for good: nothing was sent    *)
(* behind a refusal, and nothing called accepted or converged was lost.    *)
(***************************************************************************)
THEOREM OutcomesAreHonest == Spec => []OutcomeIsHonest
<1>1. UpdateInv => OutcomeIsHonest
  BY DEF UpdateInv, UpdatersInv, UpdaterInv, OutcomeIsHonest, Unsent
<1>2. QED
  BY <1>1, UpdateInvariance, PTL

(***************************************************************************)
(* A PATCH is only sent for a change the user has seen, after both reads   *)
(* have been repeated with the same result, and never by a dry run.        *)
(***************************************************************************)
THEOREM SendsWhatWasShown == Spec => SendsOnlyWhatWasShown
<1> DEFINE Sends ==
      \A u \in Updaters :
        /\ pc[u] = "recheck" /\ pc'[u] = "redefine" => want = shown[u]
        /\ u \in flying' \ flying =>
             /\ shown[u] # TargetOf[u] /\ ~dry[u]
             /\ defs[TargetOf[u]] = target[u]
<1>1. ASSUME UpdateInv, Next
      PROVE  Sends
  <2> USE <1>1 DEF UpdateInv, UpdatersInv, UpdaterTypes, Goto, Finish
  <2>1. ASSUME NEW u \in Updaters, Recheck(u)
        PROVE  Sends
    BY <2>1 DEF Recheck, StillDesired, AfterSubmit
  <2>2. ASSUME NEW u \in Updaters, Send(u)
        PROVE  Sends
    <3>1. pc[u] = "redefine" /\ shown[u] # TargetOf[u] /\ ~dry[u]
      BY <2>2 DEF Send, UpdaterInv, Changed
    <3>2. \A v \in Updaters : pc'[v] # "redefine" \/ pc'[v] = pc[v]
      BY <2>2 DEF Send
    <3>3. \A v \in Updaters : v \in flying' \ flying => v = u /\ defs[TargetOf[u]] = target[u]
      BY <2>2, ZenonT(30) DEF Send, StillDefined
    <3>4. QED
      BY <3>1, <3>2, <3>3
  <2>3. CASE flying' \subseteq flying /\ \A u \in Updaters : pc[u] = "recheck" => pc'[u] # "redefine"
    BY <2>3
  <2>4. QED
    BY <2>1, <2>2, <2>3, ZenonT(30)
    DEF Next, Step, ReadDesired, ReadDefinition, Answer, Refuse, Accepted, AfterSubmit, Unanswered,
        Lose, Deliver, SeeDesired, SeeControlPlane, SeeDeployment, SeeNothing, Expire, SetElsewhere,
        Redefine, Apply, Deploy, Observe, Roll
<1>2. UpdateInv /\ [Next]_vars => [Sends]_vars
  BY <1>1
<1>3. QED
  BY <1>2, UpdateInvariance, PTL DEF Spec, SendsOnlyWhatWasShown

\* Whoever counts as many pods as the target has for the generation that was
\* seen, counts those of the Deployment's size: no size has zero replicas.
LEMMA CountedForTheTarget ==
  ASSUME WorldInv, NEW u \in Updaters, ConvergedFor(u)
  PROVE  running = target[u] /\ dep.size = target[u] /\ status.gen = dep.gen
<1>1. dep.size = target[u] /\ status.gen >= dep.gen /\ status.pods = Replicas[dep.size]
  BY DEF ConvergedFor, RolledOut
<1>2. dep.size \in Sizes /\ dep.gen \in Nat /\ status.gen \in 1 .. dep.gen
  BY UpdateAssumption DEF WorldInv, WorldTypes
<1>3. status.gen = dep.gen
  BY <1>1, <1>2
<1>4. Replicas[dep.size] \in Nat \ {0}
  BY <1>2, UpdateAssumption
<1>5. running = dep.size
  BY <1>1, <1>3, <1>4 DEF WorldInv, StatusInv
<1>6. QED
  BY <1>1, <1>3, <1>5

(***************************************************************************)
(* "Converged" means that the pods which run have the size of the target:  *)
(* replicas are positive, so the pods that are counted for the generation  *)
(* that was seen can only be those of the Deployment's own size.           *)
(***************************************************************************)
THEOREM ConvergedMeansReal == Spec => ConvergedIsReal
<1> DEFINE Real ==
      \A u \in Updaters :
        outcome'[u] = "converged" /\ outcome[u] # "converged" =>
          /\ running = target[u] /\ dep.size = target[u]
          /\ status.gen = dep.gen
<1>1. ASSUME UpdateInv, Next
      PROVE  Real
  <2>1. ASSUME NEW u \in Updaters, ConvergedFor(u)
        PROVE  running = target[u] /\ dep.size = target[u] /\ status.gen = dep.gen
    BY <1>1, <2>1, CountedForTheTarget DEF UpdateInv
  <2> USE <1>1 DEF UpdateInv, UpdatersInv, UpdaterTypes, Goto, Finish
  <2>2. ASSUME NEW u \in Updaters, SeeDeployment(u)
        PROVE  Real
    BY <2>1, <2>2 DEF SeeDeployment
  <2>3. ASSUME NEW u \in Updaters, NEW r, Finish(u, r), r # "converged"
        PROVE  Real
    BY <2>3
  <2>4. CASE UNCHANGED outcome
    BY <2>4
  <2>5. ASSUME NEW u \in Updaters, Recheck(u) \/ Accepted(u)
        PROVE  Real
    BY <2>3, <2>4, <2>5 DEF Recheck, Accepted, AfterSubmit
  <2>6. ASSUME NEW u \in Updaters,
               ReadDefinition(u) \/ Answer(u) \/ Refuse(u) \/ Send(u) \/ Unanswered(u) \/ Expire(u)
        PROVE  Real
    <3> HIDE DEF Finish, Goto, Real
    <3>1. UNCHANGED outcome \/ \E r \in Outcomes \ {"converged"} : Finish(u, r)
      BY <2>6 DEF ReadDefinition, Answer, Refuse, Send, Unanswered, FailedSubmit, Expire, Outcomes
    <3>2. QED
      BY <3>1, <2>3, <2>4
  <2>7. QED
    <3> HIDE DEF Real
    <3>1. QED
      BY <2>2, <2>4, <2>5, <2>6
      DEF Next, Step, ReadDesired, Lose, Deliver, SeeDesired, SeeControlPlane, SeeNothing,
          SetElsewhere, Redefine, Apply, Deploy, Observe, Roll
<1>2. UpdateInv /\ [Next]_vars => [Real]_vars
  BY <1>1
<1>3. QED
  BY <1>2, UpdateInvariance, PTL DEF Spec, ConvergedIsReal
================================================================================
