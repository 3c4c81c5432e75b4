----------------------- MODULE PlatformTransport_proofs -----------------------
(***************************************************************************)
(* Proofs about PlatformTransport, for every set of callers and origins    *)
(* and every choice of the durations.                                      *)
(***************************************************************************)
EXTENDS PlatformTransport, FiniteSetTheorems, TLAPS

(***************************************************************************)
(* Arithmetic of the helpers of the clock.                                 *)
(***************************************************************************)
LEMMA ClockArithmetic ==
    /\ \A a, b \in Nat : AtLeast(a, b) \in Nat /\ AtLeast(a, b) >= a /\ AtLeast(a, b) >= b
    /\ \A t \in Nat : Less(t) \in Nat /\ Less(t) <= t
BY DEF AtLeast, Less

LEMMA ResponsesAreResults ==
    /\ HTTPResponses \subseteq Result
    /\ \A s \in Statuses, b \in BOOLEAN : Failure(s, b) \in Result
    /\ \A s \in Statuses, b \in BOOLEAN : Failure(s, b).status = s
BY DurationsAssumption DEF HTTPResponses, Result, Failure

\* The delay before a retry, and its jitter, are durations.
LEMMA RetryDelayIsDuration ==
    ASSUME NEW r \in Result, NEW k \in 0 .. MaxAttempt
    PROVE  /\ RetryDelay(r, k) \in Nat
           /\ Jitter(r, k) \subseteq Nat
<1>1. /\ r.hint \in Nat /\ BackoffUnit \in Nat /\ MinCooldown \in Nat
      /\ Shift(k) \in {1, 2}
  BY DurationsAssumption DEF Result, Shift
<1>2. BackoffUnit * Shift(k) \in Nat /\ MinCooldown * Shift(k) \in Nat
  BY <1>1
<1>3. RetryDelay(r, k) \in Nat
  BY <1>1, <1>2, ClockArithmetic DEF RetryDelay
<1>4. QED
  BY <1>3 DEF Jitter
-------------------------------------------------------------------------------
(***************************************************************************)
(* The inductive invariant.  A caller's requests are counted by its        *)
(* attempts, and one that comes back for another request is a GET whose    *)
(* last result may be retried.  An origin's embargo lies inside its        *)
(* cooldown, and while it recovers the time since its last request and the *)
(* time to the next one make up a PaceGap.                                 *)
(***************************************************************************)
BeforeSend == {"idle", "queue", "gate", "pause"}

MayRepeat(c) == c \in Getters /\ Retryable(result[c])

CallerInv(c) ==
    /\ sent[c] <= attempt[c] + (IF pc[c] \in BeforeSend THEN 0 ELSE 1)
    /\ pc[c] = "idle" => sent[c] = 0
    /\ pc[c] = "body" => HasBody(result[c])
    /\ pc[c] = "backoff" => attempt[c] < MaxAttempt /\ MayRepeat(c)
    /\ pc[c] \in BeforeSend /\ sent[c] > 0 => MayRepeat(c)

OriginInv(o) ==
    /\ embargo[o] <= cooldown[o]
    /\ cooldown[o] > 0 => slowUntil[o] = cooldown[o] + SlowWindow
    /\ slowUntil[o] > 0 => sinceSend[o] + AtLeast(cooldown[o], next[o]) >= PaceGap

IInv == /\ TypeOK
        /\ \A c \in Callers : CallerInv(c)
        /\ SlotsAreHeld
        /\ \A o \in Origins : OriginInv(o)

(***************************************************************************)
(* The steps of Next, with the responses and errors of the network apart.  *)
(***************************************************************************)
StepOf(c) ==
    \/ Begin(c) \/ Cancel(c)
    \/ \E r \in HTTPResponses : Respond(c, r)
    \/ \E s \in {"neterr", "ctxerr"}, pool \in BOOLEAN : RespondError(c, s, pool)
    \/ Program(c)

LEMMA NextSplits == Next => Tick \/ \E c \in Callers : StepOf(c)
BY DEF Next, StepOf, Network

(***************************************************************************)
(* Every step keeps the account of each caller's requests.                 *)
(***************************************************************************)
LEMMA CallerStep ==
    ASSUME IInv, [Next]_vars
    PROVE  \A d \in Callers : CallerInv(d)'
<1> USE DurationsAssumption, CallersAssumption
    DEF IInv, TypeOK, CallerInv, MayRepeat, BeforeSend, MaxAttempt, Retryable, Failure,
        HasBody, Result, Statuses, Goto, callerVars, budgetVars, observers
<1>1. CASE Tick
  BY <1>1 DEF Tick
<1>2. ASSUME NEW c \in Callers, StepOf(c)
      PROVE  \A d \in Callers : CallerInv(d)'
  <2>1. CASE Begin(c)
    BY <2>1 DEF Begin, EnterQueue
  <2>2. CASE AcquireSlot(c)
    BY <2>2 DEF AcquireSlot
  <2>3. CASE QueueExpired(c)
    BY <2>3, SMTT(60) DEF QueueExpired, Fail, Expired
  <2>4. CASE Admit(c)
    BY <2>4, SMTT(60) DEF Admit, Checking, ReadyIn
  <2>5. CASE HoldBack(c)
    BY <2>5 DEF HoldBack, Checking, ReadyIn
  <2>6. CASE GateExpired(c)
    BY <2>6, SMTT(60) DEF GateExpired, Fail, Release, Expired
  <2>7. CASE \E r \in HTTPResponses : Respond(c, r)
    BY <2>7 DEF Respond, Recovery
  <2>8. CASE \E s \in {"neterr", "ctxerr"}, pool \in BOOLEAN : RespondError(c, s, pool)
    BY <2>8 DEF RespondError, Fail, Release, Expired
  <2>9. CASE Return(c)
    BY <2>9 DEF Return, Final
  <2>10. CASE Backoff(c)
    BY <2>10 DEF Backoff, Release, Final
  <2>11. CASE Retry(c)
    BY <2>11, SMTT(60) DEF Retry, EnterQueue
  <2>12. CASE BackoffCancelled(c)
    BY <2>12 DEF BackoffCancelled
  <2>13. CASE CloseBody(c)
    BY <2>13 DEF CloseBody, Release
  <2>14. CASE Cancel(c)
    BY <2>14 DEF Cancel
  <2>15. QED
    BY <1>2, <2>1, <2>2, <2>3, <2>4, <2>5, <2>6, <2>7, <2>8, <2>9, <2>10, <2>11, <2>12,
       <2>13, <2>14 DEF StepOf, Program
<1>3. CASE UNCHANGED vars
  BY <1>3 DEF vars
<1>4. QED
  BY <1>1, <1>2, <1>3, NextSplits

LEMMA HoldersAreFinite ==
    ASSUME NEW o \in Origins
    PROVE  IsFiniteSet(Holders(o)) /\ IsFiniteSet(Holders(o)')
<1>1. Holders(o) \subseteq Callers /\ Holders(o)' \subseteq Callers
  BY DEF Holders
<1>2. QED
  BY <1>1, CallersAssumption, FS_Subset

\* A caller that holds a slot can give one back.
LEMMA HolderHasASlot ==
    ASSUME IInv, NEW c \in Callers, Holds(c)
    PROVE  slots[OriginOf[c]] \in 1 .. MaxInFlight
<1> DEFINE o == OriginOf[c]
<1>1. o \in Origins /\ IsFiniteSet(Holders(o)) /\ c \in Holders(o)
  BY CallersAssumption, HoldersAreFinite DEF Holders
<1>2. Cardinality(Holders(o)) # 0
  BY <1>1, FS_EmptySet
<1>3. slots[o] = Cardinality(Holders(o)) /\ slots[o] \in 0 .. MaxInFlight
  BY <1>1 DEF IInv, SlotsAreHeld, TypeOK
<1>4. QED
  BY <1>2, <1>3, DurationsAssumption

(***************************************************************************)
(* Every step keeps the types, the bound on an origin's slots and the      *)
(* bound on a caller's requests.                                           *)
(***************************************************************************)
LEMMA TypeStep ==
    ASSUME IInv, [Next]_vars
    PROVE  TypeOK'
<1> USE DurationsAssumption, CallersAssumption
    DEF TypeOK, Goto, SetTimer, Locations, MaxAttempt, callerVars, budgetVars, observers
<1>1. CASE Tick
  <2>1. /\ timer' \in [Callers -> Nat] /\ wake' \in [Callers -> Nat]
        /\ cooldown' \in [Origins -> Nat] /\ next' \in [Origins -> Nat]
        /\ slowUntil' \in [Origins -> Nat] /\ embargo' \in [Origins -> Nat]
    BY <1>1, ClockArithmetic DEF Tick, IInv
  <2>2. sinceSend' \in [Origins -> 0 .. PaceGap]
    BY <1>1 DEF Tick, IInv
  <2>3. QED
    BY <1>1, <2>1, <2>2 DEF Tick, IInv
<1>2. ASSUME NEW c \in Callers, StepOf(c)
      PROVE  TypeOK'
  <2>1. CASE Begin(c)
    BY <2>1 DEF Begin, EnterQueue, IInv
  <2>2. CASE AcquireSlot(c)
    BY <2>2, DurationsAssumption DEF AcquireSlot, IInv
  <2>3. CASE QueueExpired(c)
    BY <2>3, ResponsesAreResults DEF QueueExpired, Fail, Statuses, IInv
  <2>4. CASE Admit(c)
    BY <2>4 DEF Admit, IInv, CallerInv, BeforeSend, Checking
  <2>5. CASE HoldBack(c)
    BY <2>5, ClockArithmetic DEF HoldBack, ReadyIn, IInv
  <2>6. CASE GateExpired(c)
    <3>1. Holds(c)
      BY <2>6 DEF GateExpired, Holds
    <3>2. slots' \in [Origins -> 0 .. MaxInFlight]
      BY <2>6, <3>1, HolderHasASlot DEF GateExpired, Release, IInv
    <3>3. result' \in [Callers -> Result]
      BY <2>6, ResponsesAreResults DEF GateExpired, Fail, Statuses, IInv
    <3>4. QED
      BY <2>6, <3>2, <3>3 DEF GateExpired, Fail, IInv
  <2>7. CASE \E r \in HTTPResponses : Respond(c, r)
    <3>1. PICK r \in HTTPResponses : Respond(c, r)
      BY <2>7
    <3>2. r \in Result /\ r.hint \in Nat
      BY ResponsesAreResults DEF Result
    <3> DEFINE o == OriginOf[c]
               pause == AtLeast(r.hint, MinCooldown)
    <3>5. /\ AtLeast(cooldown[o], pause) \in Nat
          /\ Recovery(o, pause) \in Nat
          /\ AtLeast(embargo[o], r.hint) \in Nat
      BY <3>2 DEF AtLeast, Recovery, IInv
    <3>3. /\ cooldown' \in [Origins -> Nat]
          /\ slowUntil' \in [Origins -> Nat]
          /\ embargo' \in [Origins -> Nat]
      BY <3>1, <3>5 DEF Respond, IInv
    <3>4. QED
      BY <3>1, <3>2, <3>3 DEF Respond, IInv
  <2>8. CASE \E s \in {"neterr", "ctxerr"}, pool \in BOOLEAN : RespondError(c, s, pool)
    <3>1. Holds(c)
      BY <2>8 DEF RespondError, Holds
    <3>2. QED
      BY <2>8, <3>1, HolderHasASlot, ResponsesAreResults
      DEF RespondError, Fail, Release, Statuses, IInv
  <2>9. CASE Return(c)
    BY <2>9 DEF Return, IInv
  <2>10. CASE Backoff(c)
    <3>1. HasBody(result[c]) => slots[OriginOf[c]] \in 1 .. MaxInFlight
      BY <2>10, HolderHasASlot DEF Backoff, Holds
    <3>2. result[c] \in Result /\ attempt[c] \in 0 .. MaxAttempt
      BY DEF IInv
    <3>3. slots' \in [Origins -> 0 .. MaxInFlight]
      BY <2>10, <3>1 DEF Backoff, Release, IInv
    <3>4. timer' \in [Callers -> Nat]
      <4>1. PICK j \in Jitter(result[c], attempt[c]) :
              timer' = [timer EXCEPT ![c] = RetryDelay(result[c], attempt[c]) + j]
        BY <2>10 DEF Backoff
      <4>2. RetryDelay(result[c], attempt[c]) + j \in Nat
        BY <3>2, <4>1, RetryDelayIsDuration
      <4>3. QED
        BY <4>1, <4>2 DEF IInv
    <3>5. QED
      BY <2>10, <3>3, <3>4 DEF Backoff, IInv
  <2>11. CASE Retry(c)
    <3>1. attempt' \in [Callers -> 0 .. MaxAttempt]
      BY <2>11 DEF Retry, IInv, CallerInv
    <3>2. result' \in [Callers -> Result]
      BY <2>11, ResponsesAreResults DEF Retry, Statuses, IInv
    <3>3. timer' \in [Callers -> Nat] /\ pc' \in [Callers -> Locations]
      BY <2>11 DEF Retry, EnterQueue, IInv
    <3>4. QED
      BY <2>11, <3>1, <3>2, <3>3 DEF Retry, IInv
  <2>12. CASE BackoffCancelled(c)
    BY <2>12, ResponsesAreResults DEF BackoffCancelled, IInv, Statuses
  <2>13. CASE CloseBody(c)
    <3>1. HasBody(result[c])
      BY <2>13 DEF CloseBody, IInv, CallerInv
    <3>2. QED
      BY <2>13, <3>1, HolderHasASlot DEF CloseBody, Release, Holds, IInv
  <2>14. CASE Cancel(c)
    BY <2>14 DEF Cancel, IInv
  <2>15. QED
    BY <1>2, <2>1, <2>2, <2>3, <2>4, <2>5, <2>6, <2>7, <2>8, <2>9, <2>10, <2>11, <2>12,
       <2>13, <2>14 DEF StepOf, Program
<1>3. CASE UNCHANGED vars
  BY <1>3 DEF vars, IInv
<1>4. QED
  BY <1>1, <1>2, <1>3, NextSplits

(***************************************************************************)
(* Every step keeps the account of each origin's cooldown and pacing.      *)
(***************************************************************************)
LEMMA OriginStep ==
    ASSUME IInv, [Next]_vars
    PROVE  \A o \in Origins : OriginInv(o)'
<1> USE DurationsAssumption, CallersAssumption
    DEF IInv, TypeOK, OriginInv, AtLeast, Less, callerVars, budgetVars, observers
<1>1. CASE Tick
  <2>1. SUFFICES ASSUME NEW o \in Origins
                 PROVE  OriginInv(o)'
    OBVIOUS
  <2>2. /\ cooldown'[o] = Less(cooldown[o])
        /\ next'[o] = Less(next[o])
        /\ slowUntil'[o] = Less(slowUntil[o])
        /\ embargo'[o] = Less(embargo[o])
        /\ sinceSend'[o] = IF sinceSend[o] < PaceGap THEN sinceSend[o] + 1 ELSE PaceGap
    BY <1>1 DEF Tick
  <2>3. /\ cooldown[o] \in Nat /\ next[o] \in Nat /\ slowUntil[o] \in Nat
        /\ embargo[o] \in Nat /\ sinceSend[o] \in 0 .. PaceGap
        /\ OriginInv(o)
    BY DEF IInv
  <2>4. QED
    BY <2>2, <2>3
<1>2. ASSUME NEW c \in Callers, StepOf(c)
      PROVE  \A o \in Origins : OriginInv(o)'
  <2>1. CASE Begin(c)
    BY <2>1 DEF Begin, EnterQueue
  <2>2. CASE AcquireSlot(c)
    BY <2>2 DEF AcquireSlot
  <2>3. CASE QueueExpired(c)
    BY <2>3, SMTT(60) DEF QueueExpired, Fail, Expired
  <2>4. CASE Admit(c)
    BY <2>4, SMTT(60) DEF Admit, Checking, ReadyIn
  <2>5. CASE HoldBack(c)
    BY <2>5 DEF HoldBack, Checking, ReadyIn
  <2>6. CASE GateExpired(c)
    BY <2>6 DEF GateExpired, Fail, Release, Expired
  <2>7. CASE \E r \in HTTPResponses : Respond(c, r)
    <3>1. PICK r \in HTTPResponses : Respond(c, r)
      BY <2>7
    <3>2. r.hint \in Nat
      BY DEF HTTPResponses, Result
    <3>3. CASE r.status # "throttled"
      BY <3>1, <3>3 DEF Respond
    <3>4. CASE r.status = "throttled"
      <4> DEFINE o == OriginOf[c]
                 pause == AtLeast(r.hint, MinCooldown)
      <4>1. OriginInv(o)'
        BY <3>1, <3>2, <3>4 DEF Respond, Recovery
      <4>2. ASSUME NEW p \in Origins, p # o
            PROVE  OriginInv(p)'
        BY <3>1, <3>4, <4>2 DEF Respond
      <4>3. QED
        BY <4>1, <4>2
    <3>5. QED
      BY <3>3, <3>4
  <2>8. CASE \E s \in {"neterr", "ctxerr"}, pool \in BOOLEAN : RespondError(c, s, pool)
    BY <2>8 DEF RespondError, Fail, Release, Expired
  <2>9. CASE Return(c)
    BY <2>9 DEF Return, Final
  <2>10. CASE Backoff(c)
    BY <2>10 DEF Backoff, Release, Final
  <2>11. CASE Retry(c)
    BY <2>11, SMTT(60) DEF Retry, EnterQueue
  <2>12. CASE BackoffCancelled(c)
    BY <2>12 DEF BackoffCancelled
  <2>13. CASE CloseBody(c)
    BY <2>13 DEF CloseBody, Release
  <2>14. CASE Cancel(c)
    BY <2>14 DEF Cancel
  <2>15. QED
    BY <1>2, <2>1, <2>2, <2>3, <2>4, <2>5, <2>6, <2>7, <2>8, <2>9, <2>10, <2>11, <2>12,
       <2>13, <2>14 DEF StepOf, Program
<1>3. CASE UNCHANGED vars
  BY <1>3 DEF vars
<1>4. QED
  BY <1>1, <1>2, <1>3, NextSplits

(***************************************************************************)
(* The slot account: what a step does to one caller's holding, it does to  *)
(* the number of holders of that caller's origin.                          *)
(***************************************************************************)
OthersKeep(c) == \A d \in Callers \ {c} : Holds(d)' <=> Holds(d)

LEMMA HoldersGrow ==
    ASSUME NEW c \in Callers, NEW o \in Origins, OthersKeep(c), ~Holds(c), Holds(c)'
    PROVE  Cardinality(Holders(o)')
             = IF o = OriginOf[c] THEN Cardinality(Holders(o)) + 1 ELSE Cardinality(Holders(o))
<1>1. CASE o = OriginOf[c]
  <2>1. Holders(o)' = Holders(o) \cup {c} /\ c \notin Holders(o)
    BY <1>1 DEF Holders, OthersKeep
  <2>2. QED
    BY <1>1, <2>1, HoldersAreFinite, FS_AddElement
<1>2. CASE o # OriginOf[c]
  <2>1. Holders(o)' = Holders(o)
    BY <1>2 DEF Holders, OthersKeep
  <2>2. QED
    BY <1>2, <2>1
<1>3. QED
  BY <1>1, <1>2

LEMMA HoldersShrink ==
    ASSUME NEW c \in Callers, NEW o \in Origins, OthersKeep(c), Holds(c), ~Holds(c)'
    PROVE  Cardinality(Holders(o)')
             = IF o = OriginOf[c] THEN Cardinality(Holders(o)) - 1 ELSE Cardinality(Holders(o))
<1>1. CASE o = OriginOf[c]
  <2>1. Holders(o)' = Holders(o) \ {c} /\ c \in Holders(o)
    BY <1>1 DEF Holders, OthersKeep
  <2>2. QED
    BY <1>1, <2>1, HoldersAreFinite, FS_RemoveElement
<1>2. CASE o # OriginOf[c]
  <2>1. Holders(o)' = Holders(o)
    BY <1>2 DEF Holders, OthersKeep
  <2>2. QED
    BY <1>2, <2>1
<1>3. QED
  BY <1>1, <1>2

LEMMA HoldersStay ==
    ASSUME NEW c \in Callers, OthersKeep(c), Holds(c)' <=> Holds(c)
    PROVE  \A o \in Origins : Holders(o)' = Holders(o)
BY DEF Holders, OthersKeep

(***************************************************************************)
(* Every step keeps an origin's channel and its holders in agreement.      *)
(***************************************************************************)
LEMMA SlotsStep ==
    ASSUME IInv, [Next]_vars
    PROVE  SlotsAreHeld'
<1> USE DurationsAssumption, CallersAssumption
    DEF IInv, TypeOK, Goto, Holds, HasBody, Failure, OthersKeep, callerVars, budgetVars, observers
<1>1. CASE Tick
  <2>1. slots' = slots /\ \A o \in Origins : Holders(o)' = Holders(o)
    BY <1>1 DEF Tick, Holders
  <2>2. QED
    BY <2>1 DEF SlotsAreHeld
<1>2. ASSUME NEW c \in Callers, StepOf(c)
      PROVE  SlotsAreHeld'
  <2>1. CASE Begin(c)
    <3>1. (Holds(c)' <=> Holds(c)) /\ OthersKeep(c)
      BY <2>1 DEF Begin, EnterQueue
    <3>2. slots' = slots
      BY <2>1 DEF Begin, EnterQueue
    <3>3. QED
      BY <3>1, <3>2, HoldersStay DEF SlotsAreHeld
  <2>2. CASE AcquireSlot(c)
    <3>1. ~Holds(c) /\ Holds(c)' /\ OthersKeep(c)
      BY <2>2 DEF AcquireSlot
    <3>2. QED
      BY <2>2, <3>1, HoldersGrow DEF AcquireSlot, SlotsAreHeld
  <2>3. CASE QueueExpired(c)
    <3>1. (Holds(c)' <=> Holds(c)) /\ OthersKeep(c)
      BY <2>3 DEF QueueExpired, Fail
    <3>2. slots' = slots
      BY <2>3 DEF QueueExpired, Fail
    <3>3. QED
      BY <3>1, <3>2, HoldersStay DEF SlotsAreHeld
  <2>4. CASE Admit(c)
    <3>1. (Holds(c)' <=> Holds(c)) /\ OthersKeep(c)
      BY <2>4 DEF Admit, Checking
    <3>2. slots' = slots
      BY <2>4 DEF Admit
    <3>3. QED
      BY <3>1, <3>2, HoldersStay DEF SlotsAreHeld
  <2>5. CASE HoldBack(c)
    <3>1. (Holds(c)' <=> Holds(c)) /\ OthersKeep(c)
      BY <2>5 DEF HoldBack, Checking
    <3>2. slots' = slots
      BY <2>5 DEF HoldBack
    <3>3. QED
      BY <3>1, <3>2, HoldersStay DEF SlotsAreHeld
  <2>6. CASE GateExpired(c)
    <3>1. Holds(c) /\ ~Holds(c)' /\ OthersKeep(c)
      BY <2>6 DEF GateExpired, Fail
    <3>2. slots' = [slots EXCEPT ![OriginOf[c]] = @ - 1]
      BY <2>6 DEF GateExpired, Release
    <3>3. QED
      BY <3>1, <3>2, HoldersShrink DEF SlotsAreHeld
  <2>7. CASE \E r \in HTTPResponses : Respond(c, r)
    <3>1. (Holds(c)' <=> Holds(c)) /\ OthersKeep(c)
      BY <2>7 DEF Respond, HTTPResponses
    <3>2. slots' = slots
      BY <2>7 DEF Respond
    <3>3. QED
      BY <3>1, <3>2, HoldersStay DEF SlotsAreHeld
  <2>8. CASE \E s \in {"neterr", "ctxerr"}, pool \in BOOLEAN : RespondError(c, s, pool)
    <3>1. Holds(c) /\ ~Holds(c)' /\ OthersKeep(c)
      BY <2>8 DEF RespondError, Fail
    <3>2. slots' = [slots EXCEPT ![OriginOf[c]] = @ - 1]
      BY <2>8 DEF RespondError, Release
    <3>3. QED
      BY <3>1, <3>2, HoldersShrink DEF SlotsAreHeld
  <2>9. CASE Return(c)
    <3>1. (Holds(c)' <=> Holds(c)) /\ OthersKeep(c)
      BY <2>9 DEF Return
    <3>2. slots' = slots
      BY <2>9 DEF Return
    <3>3. QED
      BY <3>1, <3>2, HoldersStay DEF SlotsAreHeld
  <2>10. CASE Backoff(c)
    <3>1. CASE HasBody(result[c])
      <4>1. Holds(c) /\ ~Holds(c)' /\ OthersKeep(c)
        BY <2>10, <3>1 DEF Backoff
      <4>2. slots' = [slots EXCEPT ![OriginOf[c]] = @ - 1]
        BY <2>10, <3>1 DEF Backoff, Release
      <4>3. QED
        BY <4>1, <4>2, HoldersShrink DEF SlotsAreHeld
    <3>2. CASE ~HasBody(result[c])
      <4>1. (Holds(c)' <=> Holds(c)) /\ OthersKeep(c)
        BY <2>10, <3>2 DEF Backoff
      <4>2. slots' = slots
        BY <2>10, <3>2 DEF Backoff
      <4>3. QED
        BY <4>1, <4>2, HoldersStay DEF SlotsAreHeld
    <3>3. QED
      BY <3>1, <3>2
  <2>11. CASE Retry(c)
    <3>1. (Holds(c)' <=> Holds(c)) /\ OthersKeep(c)
      BY <2>11 DEF Retry, EnterQueue
    <3>2. slots' = slots
      BY <2>11 DEF Retry, EnterQueue
    <3>3. QED
      BY <3>1, <3>2, HoldersStay DEF SlotsAreHeld
  <2>12. CASE BackoffCancelled(c)
    <3>1. (Holds(c)' <=> Holds(c)) /\ OthersKeep(c)
      BY <2>12 DEF BackoffCancelled
    <3>2. slots' = slots
      BY <2>12 DEF BackoffCancelled
    <3>3. QED
      BY <3>1, <3>2, HoldersStay DEF SlotsAreHeld
  <2>13. CASE CloseBody(c)
    <3>1. Holds(c) /\ ~Holds(c)' /\ OthersKeep(c)
      BY <2>13 DEF CloseBody, CallerInv
    <3>2. slots' = [slots EXCEPT ![OriginOf[c]] = @ - 1]
      BY <2>13 DEF CloseBody, Release
    <3>3. QED
      BY <3>1, <3>2, HoldersShrink DEF SlotsAreHeld
  <2>14. CASE Cancel(c)
    <3>1. (Holds(c)' <=> Holds(c)) /\ OthersKeep(c)
      BY <2>14 DEF Cancel
    <3>2. slots' = slots
      BY <2>14 DEF Cancel
    <3>3. QED
      BY <3>1, <3>2, HoldersStay DEF SlotsAreHeld
  <2>15. QED
    BY <1>2, <2>1, <2>2, <2>3, <2>4, <2>5, <2>6, <2>7, <2>8, <2>9, <2>10, <2>11, <2>12,
       <2>13, <2>14 DEF StepOf, Program
<1>3. CASE UNCHANGED vars
  <2>1. slots' = slots /\ \A o \in Origins : Holders(o)' = Holders(o)
    BY <1>3 DEF vars, Holders
  <2>2. QED
    BY <2>1 DEF SlotsAreHeld
<1>4. QED
  BY <1>1, <1>2, <1>3, NextSplits

-------------------------------------------------------------------------------
LEMMA InitInv == Init => IInv
<1> SUFFICES ASSUME Init
             PROVE  IInv
  OBVIOUS
<1> USE DurationsAssumption, CallersAssumption DEF Init
<1>1. TypeOK
  <2>1. Failure("none", FALSE) \in Result
    BY ResponsesAreResults DEF Statuses
  <2>2. result \in [Callers -> Result]
    BY <2>1
  <2>3. /\ slots \in [Origins -> 0 .. MaxInFlight]
        /\ sent \in [Callers -> 0 .. MaxAttempt + 1]
        /\ attempt \in [Callers -> 0 .. MaxAttempt]
        /\ sinceSend \in [Origins -> 0 .. PaceGap]
    BY DEF MaxAttempt
  <2>4. QED
    BY <2>2, <2>3 DEF TypeOK, Locations
<1>2. \A c \in Callers : CallerInv(c)
  BY DEF CallerInv, BeforeSend, MaxAttempt
<1>3. SlotsAreHeld
  <2>1. \A o \in Origins : Holders(o) = {}
    BY DEF Holders, Holds
  <2>2. QED
    BY <2>1, FS_EmptySet DEF SlotsAreHeld
<1>4. \A o \in Origins : OriginInv(o)
  BY DEF OriginInv, AtLeast
<1>5. QED
  BY <1>1, <1>2, <1>3, <1>4 DEF IInv

LEMMA NextInv == IInv /\ [Next]_vars => IInv'
BY TypeStep, CallerStep, SlotsStep, OriginStep DEF IInv

THEOREM Invariance == Spec => []IInv
BY InitInv, NextInv, PTL DEF Spec

(***************************************************************************)
(* Every variable stays in its type: in particular no origin ever has more *)
(* than MaxInFlight requests, and no call sends more than three.           *)
(***************************************************************************)
THEOREM TypeCorrect == Spec => []TypeOK
<1>1. IInv => TypeOK
  BY DEF IInv
<1>2. QED
  BY <1>1, Invariance, PTL

(***************************************************************************)
(* RoundTrip and budgetResponseBody.Close neither leak nor double-release  *)
(* a slot, for any number of callers and any schedule.                     *)
(***************************************************************************)
THEOREM SlotAccounting == Spec => []SlotsAreHeld
<1>1. IInv => SlotsAreHeld
  BY DEF IInv
<1>2. QED
  BY <1>1, Invariance, PTL

(***************************************************************************)
(* The recovery window always starts where the shared cooldown ends.       *)
(***************************************************************************)
THEOREM RecoveryWindow == Spec => []RecoveryFollowsCooldown
<1>1. IInv => RecoveryFollowsCooldown
  BY DEF IInv, OriginInv, RecoveryFollowsCooldown
<1>2. QED
  BY <1>1, Invariance, PTL

(***************************************************************************)
(* Only Admit sends, and it sends one request of one caller, whose origin  *)
(* is ready.                                                               *)
(***************************************************************************)
LEMMA OnlyAdmitSends ==
    ASSUME IInv, [Next]_vars, NEW c \in Callers, Sends(c)
    PROVE  Admit(c)
<1>1. CASE Tick
  BY <1>1 DEF Tick, Sends
<1>2. ASSUME NEW d \in Callers, StepOf(d)
      PROVE  Admit(c)
  <2>1. CASE Admit(d)
    BY <2>1 DEF Admit, Sends, IInv, TypeOK
  <2>2. CASE ~Admit(d)
    <3>1. sent' = sent
      BY <1>2, <2>2
      DEF StepOf, Program, Begin, AcquireSlot, QueueExpired, HoldBack, GateExpired, Respond,
          RespondError, Return, Backoff, Retry, BackoffCancelled, CloseBody, Cancel, observers
    <3>2. QED
      BY <3>1 DEF Sends
  <2>3. QED
    BY <2>1, <2>2
<1>3. CASE UNCHANGED vars
  BY <1>3 DEF vars, Sends
<1>4. QED
  BY <1>1, <1>2, <1>3, NextSplits

(***************************************************************************)
(* A Retry-After binds every caller of its origin.                         *)
(***************************************************************************)
THEOREM EmbargoIsKept == Spec => NoSendDuringEmbargo
<1>1. ASSUME IInv, [Next]_vars, NEW c \in Callers, Sends(c)
      PROVE  embargo[OriginOf[c]] = 0
  <2>1. Admit(c)
    BY <1>1, OnlyAdmitSends
  <2> DEFINE o == OriginOf[c]
  <2>2. /\ o \in Origins
        /\ cooldown[o] \in Nat /\ next[o] \in Nat /\ embargo[o] \in Nat
        /\ embargo[o] <= cooldown[o]
    BY <1>1, CallersAssumption DEF IInv, OriginInv, TypeOK
  <2>3. ReadyIn(o) = 0
    BY <2>1 DEF Admit
  <2>4. QED
    BY <2>2, <2>3 DEF ReadyIn, AtLeast
<1>2. IInv /\ [Next]_vars => [\A c \in Callers : Sends(c) => embargo[OriginOf[c]] = 0]_vars
  BY <1>1
<1>3. QED
  BY <1>2, Invariance, PTL DEF Spec, NoSendDuringEmbargo

(***************************************************************************)
(* A request is repeated only by a GET, at most twice, and only after a    *)
(* result that may be retried.                                             *)
(***************************************************************************)
THEOREM RetriesAreDisciplined == Spec => RetryDiscipline
<1> DEFINE Disciplined(c) ==
              /\ sent[c] <= (IF c \in Getters THEN MaxAttempt ELSE 0)
              /\ sent[c] > 0 => Temporary(result[c])
<1>1. ASSUME IInv, [Next]_vars, NEW c \in Callers, Sends(c)
      PROVE  Disciplined(c)
  <2>1. Admit(c)
    BY <1>1, OnlyAdmitSends
  <2>2. pc[c] \in BeforeSend /\ CallerInv(c)
    BY <1>1, <2>1 DEF Admit, Checking, BeforeSend, IInv
  <2>3. sent[c] \in Nat /\ attempt[c] \in 0 .. MaxAttempt
    BY <1>1 DEF IInv, TypeOK, MaxAttempt
  <2>4. QED
    BY <2>2, <2>3 DEF CallerInv, MayRepeat, MaxAttempt, Retryable, Temporary
<1>2. IInv /\ [Next]_vars => [\A c \in Callers : Sends(c) => Disciplined(c)]_vars
  BY <1>1
<1>3. QED
  BY <1>2, Invariance, PTL DEF Spec, RetryDiscipline

(***************************************************************************)
(* While an origin recovers, its requests leave PaceGap apart.             *)
(***************************************************************************)
THEOREM RecoveryPacing == Spec => RecoveryIsPaced
<1>1. ASSUME IInv, [Next]_vars, NEW c \in Callers, Sends(c), slowUntil[OriginOf[c]] > 0
      PROVE  sinceSend[OriginOf[c]] = PaceGap
  <2> DEFINE o == OriginOf[c]
  <2>1. Admit(c) /\ o \in Origins
    BY <1>1, OnlyAdmitSends, CallersAssumption
  <2>2. AtLeast(cooldown[o], next[o]) = 0
    BY <1>1, <2>1 DEF Admit, ReadyIn
  <2>3. sinceSend[o] + AtLeast(cooldown[o], next[o]) >= PaceGap /\ sinceSend[o] \in 0 .. PaceGap
    BY <1>1, <2>1 DEF IInv, OriginInv, TypeOK
  <2>4. QED
    BY <2>2, <2>3, DurationsAssumption
<1>2. IInv /\ [Next]_vars
        => [\A c \in Callers : (Sends(c) /\ slowUntil[OriginOf[c]] > 0)
               => sinceSend[OriginOf[c]] = PaceGap]_vars
  BY <1>1
<1>3. QED
  BY <1>2, Invariance, PTL DEF Spec, RecoveryIsPaced
===============================================================================
