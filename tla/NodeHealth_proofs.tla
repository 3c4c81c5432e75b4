--------------------------- MODULE NodeHealth_proofs ---------------------------
(***************************************************************************)
(* Proofs about the executor (NodeExec), for any callers, nodes, contexts  *)
(* and pods, and about the pool that uses it (NodeHealth), for any list of *)
(* nodes, any number of workers and any checks.                            *)
(***************************************************************************)
EXTENDS NodeHealth, TLAPS

(***************************************************************************)
(* The inductive invariant.  The table and the callers agree on who looks  *)
(* up what, in both directions; a node that is being looked up has no      *)
(* cached pod; and an answer that is on its way to a caller is a pod of    *)
(* that caller's node, or an error.                                        *)
(***************************************************************************)
Found(c) == pod[c] # NoPod => pod[c] \in everLive[NodeOf[c]]

TableInv(n) ==
    lookups[n] # NoCaller => NodeOf[lookups[n]] = n /\ LookingUp(lookups[n])

CallerInv(c) ==
    /\ LookingUp(c) => podByNode[NodeOf[c]] = NoPod
    /\ at[c] = "publishing" => Found(c)
    /\ at[c] = "following" /\ waitsFor[c] = NoCaller => Found(c)
    /\ at[c] = "exec" => pod[c] # NoPod
    /\ waitsFor[c] # NoCaller => at[c] = "following"

LiveInv(n) == live[n] # NoPod => live[n] \in everLive[n]

ExecInv ==
    /\ ExecTypeOK
    /\ SharedLookup
    /\ RunsWhereItWasFound
    /\ \A n \in Nodes : TableInv(n) /\ LiveInv(n)
    /\ \A c \in Callers : CallerInv(c)

LEMMA InitExec == ExecInit => ExecInv
BY ExecAssumption
   DEF ExecInit, ExecInv, ExecTypeOK, SharedLookup, RunsWhereItWasFound, TableInv, CallerInv,
       LiveInv, Found, LookingUp, Places

LEMMA NextExec == ExecInv /\ [ExecNext]_execVars => ExecInv'
<1> SUFFICES ASSUME ExecInv, [ExecNext]_execVars
             PROVE  ExecInv'
  OBVIOUS
<1> USE ExecAssumption
    DEF ExecInv, ExecTypeOK, SharedLookup, RunsWhereItWasFound, TableInv, CallerInv,
        LiveInv, Found, LookingUp, Places, Move, Told
<1>1. ASSUME NEW c \in Callers, CacheHit(c)
      PROVE  ExecInv'
  BY <1>1 DEF CacheHit
<1>2. ASSUME NEW c \in Callers, Follow(c)
      PROVE  ExecInv'
  BY <1>2 DEF Follow
<1>3. ASSUME NEW c \in Callers, Lead(c)
      PROVE  ExecInv'
  BY <1>3 DEF Lead
<1>4. ASSUME NEW c \in Callers, Discover(c)
      PROVE  ExecInv'
  BY <1>4 DEF Discover
<1>5. ASSUME NEW c \in Callers, Publish(c)
      PROVE  ExecInv'
  BY <1>5 DEF Publish, FollowersOf, After
<1>6. ASSUME NEW c \in Callers, Wake(c)
      PROVE  ExecInv'
  BY <1>6 DEF Wake, After
<1>7. ASSUME NEW c \in Callers, GiveUp(c)
      PROVE  ExecInv'
  BY <1>7 DEF GiveUp
<1>8. ASSUME NEW c \in Callers, Exec(c)
      PROVE  ExecInv'
  BY <1>8 DEF Exec
<1>9. ASSUME NEW c \in Callers, Again(c)
      PROVE  ExecInv'
  BY <1>9 DEF Again
<1>10. ASSUME NEW x \in Contexts, Cancel(x)
       PROVE  ExecInv'
  BY <1>10 DEF Cancel
<1>11. ASSUME NEW n \in Nodes, Replace(n)
       PROVE  ExecInv'
  BY <1>11 DEF Replace
<1>12. CASE UNCHANGED execVars
  BY <1>12 DEF execVars
<1>13. QED
  BY <1>1, <1>2, <1>3, <1>4, <1>5, <1>6, <1>7, <1>8, <1>9, <1>10, <1>11, <1>12
  DEF ExecNext, Run

THEOREM ExecInvariance == ExecSpec => []ExecInv
BY InitExec, NextExec, PTL DEF ExecSpec

\* Every variable keeps its type.
THEOREM ExecTypeCorrect == ExecSpec => []ExecTypeOK
<1>1. ExecInv => ExecTypeOK
  BY DEF ExecInv
<1>2. QED
  BY <1>1, ExecInvariance, PTL

(***************************************************************************)
(* One caller at a time lists the pods of a node, and the followers wait   *)
(* for that one.                                                           *)
(***************************************************************************)
THEOREM LookupsAreShared == ExecSpec => []SharedLookup
<1>1. ExecInv => SharedLookup
  BY DEF ExecInv
<1>2. QED
  BY <1>1, ExecInvariance, PTL

(***************************************************************************)
(* A command goes only to a pod that discovery saw on the caller's node.   *)
(***************************************************************************)
THEOREM CommandsStayOnTheirNode == ExecSpec => []RunsWhereItWasFound
<1>1. ExecInv => RunsWhereItWasFound
  BY DEF ExecInv
<1>2. QED
  BY <1>1, ExecInvariance, PTL

(***************************************************************************)
(* The first pod found for a node stays its answer: a second lookup starts *)
(* only while there is none, and there is never a second one under way.    *)
(***************************************************************************)
THEOREM AnswersAreKept == ExecSpec => CacheIsWrittenOnce
<1> DEFINE Kept == \A n \in Nodes : podByNode[n] # NoPod => podByNode'[n] = podByNode[n]
<1>1. ASSUME ExecInv, ExecNext
      PROVE  Kept
  <2>1. ASSUME NEW c \in Callers, Publish(c)
        PROVE  Kept
    <3>1. podByNode[NodeOf[c]] = NoPod
      BY <1>1, <2>1 DEF ExecInv, CallerInv, LookingUp, Publish
    <3>2. QED
      BY <1>1, <2>1, <3>1, ExecAssumption DEF Publish, ExecInv, ExecTypeOK
  <2>2. CASE UNCHANGED podByNode
    BY <2>2
  <2>3. QED
    BY <1>1, <2>1, <2>2
    DEF ExecNext, Run, CacheHit, Follow, Lead, Discover, Wake, GiveUp, Exec, Again, Cancel, Replace
<1>2. ExecInv /\ [ExecNext]_execVars => [Kept]_execVars
  BY <1>1
<1>3. QED
  BY <1>2, ExecInvariance, PTL DEF ExecSpec, CacheIsWrittenOnce

(***************************************************************************)
(* The pool.  An index that was handed out is at a worker or reported; an  *)
(* index without an error is reported with all its checks done; a check    *)
(* that is under way belongs to a worker; and the channels are closed in   *)
(* the order jobs, results, return.                                        *)
(***************************************************************************)
Reported(i) == i \in queue \cup collected

HandedOut(i) == i <= fed => Reported(i) \/ \E w \in Workers : busy[w] = i

ReportIsRight(i) ==
    Reported(i) /\ i \notin nodeErr => \A c \in ChecksOf(i) : at[c] = "done"

UnderWay(c) == at[c] = "idle" \/ Ended(c) \/ Started(c)

ClosingOrder ==
    /\ \A w \in left : busy[w] = 0 /\ jobsClosed
    /\ jobsClosed => fed = Len(NodeList) \/ Cancelled
    /\ closedRes => left = Workers
    /\ outcome # "none" => closedRes /\ queue = {}
    /\ outcome = "ok" => collected = Indexes /\ collected \cap nodeErr = {}

PoolInv ==
    /\ ExecInv
    /\ PoolTypeOK
    /\ \A i \in Indexes : HandedOut(i) /\ ReportIsRight(i)
    /\ ReportedChecksAreFinal
    /\ \A c \in Callers : UnderWay(c)
    /\ ClosingOrder

LEMMA HealthSizes ==
    /\ Len(NodeList) \in Nat \ {0}
    /\ Width \in Nat \ {0}
    /\ Workers # {} /\ Indexes # {}
<1>1. Len(NodeList) \in Nat \ {0}
  BY HealthAssumption
<1>2. Width \in Nat \ {0}
  BY <1>1, HealthAssumption DEF Width
<1>3. 1 \in Workers /\ 1 \in Indexes
  BY <1>1, <1>2 DEF Workers, Indexes
<1>4. QED
  BY <1>1, <1>2, <1>3

LEMMA InitPool == Init => PoolInv
<1> SUFFICES ASSUME Init  PROVE PoolInv
  OBVIOUS
<1>1. ExecInv /\ ExecTypeOK
  BY InitExec DEF Init, ExecInv
<1>2. PoolTypeOK
  <2>1. fed \in 0 .. Len(NodeList) /\ busy \in [Workers -> 0 .. Len(NodeList)]
    BY HealthSizes DEF Init
  <2>2. QED
    BY <1>1, <2>1 DEF Init, PoolTypeOK
<1>3. \A i \in Indexes : HandedOut(i) /\ ReportIsRight(i)
  BY DEF Init, HandedOut, ReportIsRight, Reported, Indexes
<1>4. ReportedChecksAreFinal /\ ClosingOrder
  BY DEF Init, ReportedChecksAreFinal, ClosingOrder
<1>5. \A c \in Callers : UnderWay(c)
  BY DEF Init, ExecInit, UnderWay
<1>6. QED
  BY <1>1, <1>2, <1>3, <1>4, <1>5 DEF PoolInv

\* A check in the executor was not over, moves alone, and is not idle again.
LEMMA RunMoves ==
    ASSUME ExecTypeOK, NEW c \in Callers, Run(c)
    PROVE  /\ at[c] \notin {"done", "failed"} /\ at'[c] # "idle"
           /\ \A d \in Callers \ {c} : at'[d] = at[d]
           /\ ended' = ended
BY DEF ExecTypeOK, Run, CacheHit, Follow, Lead, Discover, Publish, Wake, GiveUp, Exec, Move,
       After, Places

LEMMA NextPool == PoolInv /\ [Next]_vars => PoolInv'
<1> SUFFICES ASSUME PoolInv, [Next]_vars
             PROVE  PoolInv'
  OBVIOUS
<1> USE HealthSizes
    DEF PoolInv, PoolTypeOK, HandedOut, ReportIsRight, ReportedChecksAreFinal, Reported,
        UnderWay, ClosingOrder, Ended, Started, Cancelled, Indexes, ChecksOf
<1>t. ExecTypeOK
  BY DEF ExecInv
<1>0. ASSUME UNCHANGED execVars
      PROVE  ExecInv' /\ ExecTypeOK' /\ UNCHANGED <<at, ended>>
  BY <1>0, NextExec DEF ExecInv, execVars
<1>1. ASSUME NEW w \in Workers, Feed(w)
      PROVE  PoolInv'
  BY <1>1, <1>0 DEF Feed
<1>2. ASSUME NEW w \in Workers, RunNodeReturns(w)
      PROVE  PoolInv'
  <2>1. /\ ExecInv' /\ ExecTypeOK' /\ UNCHANGED <<at, ended>>
        /\ UNCHANGED <<fed, jobsClosed, left, closedRes, collected, more, outcome>>
        /\ busy[w] \in Indexes /\ busy' = [busy EXCEPT ![w] = 0]
        /\ queue' = queue \cup {busy[w]}
        /\ nodeErr \subseteq nodeErr' /\ nodeErr' \subseteq nodeErr \cup {busy[w]}
    BY <1>2, <1>0 DEF RunNodeReturns
  <2>2. /\ \A c \in ChecksOf(busy[w]) : Ended(c)
        /\ busy[w] \notin nodeErr' => \A c \in ChecksOf(busy[w]) : at[c] = "done"
    BY <1>2 DEF RunNodeReturns
  <2>3. \A i \in Indexes : HandedOut(i)'
    BY <2>1
  <2>4. \A i \in Indexes : ReportIsRight(i)'
    BY <2>1, <2>2
  <2>5. ReportedChecksAreFinal'
    BY <2>1, <2>2
  <2>6. \A c \in Callers : UnderWay(c)'
    BY <2>1, <2>2
  <2>7. ClosingOrder'
    BY <1>2, <2>1 DEF RunNodeReturns
  <2>8. PoolTypeOK'
    <3>1. busy' \in [Workers -> 0 .. Len(NodeList)]
      BY <2>1
    <3>2. {jobsClosed, closedRes}' \subseteq BOOLEAN /\ outcome' \in {"none", "ok", "error"}
      BY <2>1
    <3>3. queue' \subseteq Indexes /\ nodeErr' \subseteq Indexes
      BY <2>1, ZenonT(30)
    <3>4. fed' \in 0 .. Len(NodeList) /\ left' \subseteq Workers /\ collected' \subseteq Indexes
          /\ more' \subseteq Twice
      BY <2>1
    <3>5. QED
      <4> HIDE DEF Indexes
      <4>1. QED
        BY <2>1, <3>1, <3>2, <3>3, <3>4, SMTT(30)
  <2>9. QED
    BY <2>1, <2>3, <2>4, <2>5, <2>6, <2>7, <2>8, SMTT(30)
<1>3. ASSUME NEW w \in Workers, Leave(w)
      PROVE  PoolInv'
  BY <1>3, <1>0 DEF Leave
<1>4. CASE CloseJobs
  BY <1>4, <1>0 DEF CloseJobs
<1>5. CASE CloseResults
  BY <1>5, <1>0 DEF CloseResults
<1>6. CASE Return
  <2>1. outcome' = "ok" => collected = Indexes /\ collected \cap nodeErr = {}
    <3>1. ASSUME outcome' = "ok"
          PROVE  collected \cap nodeErr = {} /\ (collected = Indexes \/ ~Cancelled)
      BY <1>6, <3>1 DEF Return, ReportsError
    <3>2. left = Workers /\ queue = {} /\ jobsClosed /\ \A w \in Workers : busy[w] = 0
      BY <1>6 DEF Return
    <3>3. CASE ~Cancelled
      <4>1. fed = Len(NodeList)
        BY <3>2, <3>3
      <4>2. \A i \in Indexes : i \in collected
        <5>1. \A i \in Indexes : i <= fed
          BY <4>1
        <5>2. \A i \in Indexes : Reported(i)
          BY <3>2, <5>1
        <5>3. QED
          BY <3>2, <5>2, ZenonT(30)
      <4>3. collected \subseteq Indexes
        OBVIOUS
      <4>4. collected = Indexes
        <5> HIDE DEF Indexes, PoolInv
        <5>1. QED
          BY <4>2, <4>3
      <4>5. QED
        <5> HIDE DEF PoolInv
        <5>1. QED
          BY <3>1, <4>4
    <3>4. QED
      BY <3>1, <3>3
  <2>2. /\ ExecInv' /\ ExecTypeOK' /\ UNCHANGED <<at, ended, more>>
        /\ UNCHANGED <<fed, jobsClosed, busy, left, queue, nodeErr, closedRes, collected>>
        /\ closedRes /\ queue = {} /\ outcome' \in {"ok", "error"}
    BY <1>6, <1>0 DEF Return
  <2>3. PoolTypeOK'
    BY <2>2
  <2>4. ReportedChecksAreFinal' /\ ClosingOrder'
    BY <2>1, <2>2
  <2>5. QED
    BY <2>2, <2>3, <2>4
<1>7. ASSUME NEW i \in Indexes, Collect(i)
      PROVE  PoolInv'
  BY <1>7, <1>0 DEF Collect
<1>8. ASSUME NEW c \in Callers, CheckStep(c)
      PROVE  PoolInv'
  <2>1. ExecInv' /\ ExecTypeOK'
    BY <1>8, NextExec DEF CheckStep, ExecNext, ExecInv
  <2>2. QED
    BY <1>8, <1>t, <2>1, RunMoves, SMTT(30) DEF CheckStep, poolVars
<1>9. ASSUME NEW c \in Callers, SecondCommand(c)
      PROVE  PoolInv'
  <2>1. ExecInv' /\ ExecTypeOK'
    BY <1>9, NextExec DEF SecondCommand, ExecNext, ExecInv
  <2>2. /\ at' = [at EXCEPT ![c] = "idle"] /\ at[c] = "done" /\ c \in more
        /\ more' = more \ {c} /\ ended' = ended
    BY <1>9 DEF SecondCommand, Again, Move
  <2>3. QED
    BY <1>9, <1>t, <2>1, <2>2 DEF SecondCommand, ExecTypeOK
<1>10. ASSUME NEW c \in Callers, Query(c)
       PROVE  PoolInv'
  <2>1. PICK p \in {"done", "failed"} : at' = [at EXCEPT ![c] = p]
    BY <1>10 DEF Query, Move
  <2>4. at[c] = "idle" /\ UNCHANGED <<pod, lookups, waitsFor, podByNode, ended, live, everLive>>
    BY <1>10 DEF Query, Asks
  <2>2. ExecInv' /\ ExecTypeOK'
    BY <2>1, <2>4, ExecAssumption
    DEF ExecInv, ExecTypeOK, SharedLookup, RunsWhereItWasFound, TableInv, CallerInv,
        LiveInv, Found, LookingUp, Places
  <2>3. QED
    BY <1>10, <1>t, <2>1, <2>2, <2>4 DEF Query, ExecTypeOK, poolVars
<1>11. CASE Interrupt
  <2>1. ExecInv' /\ ExecTypeOK'
    BY <1>11, NextExec DEF Interrupt, ExecNext, ExecInv
  <2>2. QED
    BY <1>11, <2>1 DEF Interrupt, Cancel, poolVars
<1>12. CASE PodReplaced
  <2>1. ExecInv' /\ ExecTypeOK'
    BY <1>12, NextExec, ExecAssumption, HealthAssumption DEF PodReplaced, ExecNext, ExecInv
  <2>2. QED
    BY <1>12, <2>1 DEF PodReplaced, Replace, poolVars
<1>13. CASE UNCHANGED vars
  <2>1. /\ ExecInv' /\ ExecTypeOK' /\ UNCHANGED <<at, ended, more, outcome>>
        /\ UNCHANGED <<fed, jobsClosed, busy, left, queue, nodeErr, closedRes, collected>>
    BY <1>13, <1>0 DEF vars, poolVars
  <2>2. PoolTypeOK'
    BY <2>1
  <2>3. ReportedChecksAreFinal' /\ ClosingOrder'
    BY <2>1
  <2>4. QED
    BY <2>1, <2>2, <2>3
<1>14. QED
  BY <1>1, <1>2, <1>3, <1>4, <1>5, <1>6, <1>7, <1>8, <1>9, <1>10, <1>11, <1>12, <1>13
  DEF Next, Pool, WorkerStep, Check

THEOREM PoolInvariance == Spec => []PoolInv
BY InitPool, NextPool, PTL DEF Spec

(***************************************************************************)
(* A success means that every node was checked and every check ended well. *)
(***************************************************************************)
THEOREM SuccessMeansComplete == Spec => []SuccessIsComplete
<1>1. PoolInv => SuccessIsComplete
  BY HealthAssumption, HealthSizes
  DEF PoolInv, ClosingOrder, ReportIsRight, Reported, SuccessIsComplete, ChecksOf, Indexes
<1>2. QED
  BY <1>1, PoolInvariance, PTL

(***************************************************************************)
(* When Run returns, no check, no lookup and no goroutine is left.         *)
(***************************************************************************)
THEOREM NothingIsLeftRunning == Spec => []NothingLeftRunning
<1>1. ASSUME PoolInv, outcome # "none"
      PROVE  NothingLeftRunning
  <2>1. left = Workers /\ queue = {} /\ jobsClosed /\ \A w \in Workers : busy[w] = 0
    BY <1>1, HealthSizes DEF PoolInv, ClosingOrder
  <2>2. \A c \in Callers : at[c] = "idle" \/ Ended(c)
    BY <1>1, <2>1 DEF PoolInv, UnderWay, Started
  <2>3. \A n \in Nodes : lookups[n] = NoCaller
    BY <1>1, <2>2 DEF PoolInv, ExecInv, ExecTypeOK, TableInv, LookingUp, Ended
  <2>4. QED
    BY <2>1, <2>2, <2>3 DEF NothingLeftRunning
<1>2. PoolInv => NothingLeftRunning
  BY <1>1 DEF NothingLeftRunning
<1>3. QED
  BY <1>2, PoolInvariance, PTL

(***************************************************************************)
(* The checks runNode has read for its report do not change any more.      *)
(***************************************************************************)
THEOREM ReportsAreFinal == Spec => []ReportedChecksAreFinal
<1>1. PoolInv => ReportedChecksAreFinal
  BY DEF PoolInv
<1>2. QED
  BY <1>1, PoolInvariance, PTL

(***************************************************************************)
(* The executor keeps its promises in the pool as well.                    *)
(***************************************************************************)
THEOREM PoolSharesLookups == Spec => [](SharedLookup /\ RunsWhereItWasFound)
<1>1. PoolInv => SharedLookup /\ RunsWhereItWasFound
  BY DEF PoolInv, ExecInv
<1>2. QED
  BY <1>1, PoolInvariance, PTL
===============================================================================
