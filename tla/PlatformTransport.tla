-------------------------- MODULE PlatformTransport --------------------------
(***************************************************************************)
(* The HTTP transport every platform call of rayctl goes through:          *)
(* internal/platform/http_throttle.go (one budget of slots, cooldown and   *)
(* pacing per origin) and the retry loop of internal/platform/             *)
(* http_client.go.  Any number of callers run at once; each performs one   *)
(* doSignedRequest, that is, one doPlatformRequest and the read of the     *)
(* response body.                                                          *)
(*                                                                         *)
(* Instants are countdowns: the code's `x := now + d` is x' = d, Tick      *)
(* takes one from each, and `!now.Before(x)` is x = 0.  The code only      *)
(* compares instants with now and with each other, so nothing is lost.     *)
(***************************************************************************)
EXTENDS Integers, FiniteSets

CONSTANTS
    Callers,        \* goroutines, each performing one request
    Origins,        \* the keys of platformTransport.hosts
    OriginOf,       \* the origin each caller's URL names
    Getters,        \* the callers whose method is GET
    MaxInFlight,    \* platformMaxInFlight
    QueueTimeout,   \* platformTransport.queueTimeout
    RequestTimeout, \* platformTransport.requestTimeout
    MinCooldown,    \* the one second a 429 costs at least
    SlowWindow,     \* the five seconds of paced recovery after a cooldown
    PaceGap,        \* the 250ms between two paced requests
    BackoffUnit,    \* the 100ms of the first retry delay
    MaxHint,        \* the 30s above which Retry-After is not waited for
    Hints           \* the Retry-After delays a server may send, 0 for none

ASSUME CallersAssumption ==
    /\ IsFiniteSet(Callers)
    /\ OriginOf \in [Callers -> Origins]
    /\ Getters \subseteq Callers

ASSUME DurationsAssumption ==
    /\ MaxInFlight \in Nat \ {0}
    /\ {QueueTimeout, RequestTimeout, MinCooldown, SlowWindow, PaceGap,
        BackoffUnit, MaxHint} \subseteq Nat \ {0}
    /\ PaceGap <= MinCooldown
    /\ 0 \in Hints
    /\ Hints \subseteq Nat

VARIABLES
    pc,         \* where each caller is
    attempt,    \* the attempt counter of doPlatformRequest
    timer,      \* what is left of the queue, the request or the backoff delay
    wake,       \* what is left of the sleep inside budget.wait
    ctxDone,    \* the caller's own context is cancelled or past its deadline
    result,     \* what the last attempt returned
    slots,      \* len(budget.slots)
    cooldown,   \* budget.cooldown
    next,       \* budget.next
    slowUntil,  \* budget.slowUntil
    sent,       \* observer: requests handed to the network, per caller
    embargo,    \* observer: longest Retry-After still to run, per origin
    sinceSend   \* observer: time since the last request, up to PaceGap

callerVars == <<pc, attempt, timer, wake, ctxDone, result>>
budgetVars == <<slots, cooldown, next, slowUntil>>
vars == <<pc, attempt, timer, wake, ctxDone, result,
          slots, cooldown, next, slowUntil, sent, embargo, sinceSend>>
observers == <<sent, embargo, sinceSend>>

MaxAttempt == 2

Locations == {"idle", "queue", "gate", "pause", "flight", "decide",
              "backoff", "body", "done"}

Statuses == {"none", "ok", "throttled", "gateway", "neterr", "ctxerr"}

(***************************************************************************)
(* What an attempt returns.  "throttled" is 429, "gateway" 502, 503 or     *)
(* 504, "ok" every status that is never retried; "ctxerr" is an error that *)
(* wraps context.Canceled or DeadlineExceeded and "neterr" any other.      *)
(* `pool` says that platformPoolExhausted or poolExhaustionMessage holds.  *)
(* http.DefaultTransport gives every response a body, so RoundTrip's       *)
(* `resp.Body == nil` never holds in the program.                          *)
(***************************************************************************)
Result == [status : Statuses, hint : Hints, pool : BOOLEAN]

HasBody(r) == r.status \in {"ok", "throttled", "gateway"}

\* An "ok" response is never asked for its hint or its overload headers.
HTTPResponses ==
    {r \in Result : HasBody(r) /\ (r.status = "ok" => r.hint = 0 /\ ~r.pool)}

Failure(status, pool) == [status |-> status, hint |-> 0, pool |-> pool]

AtLeast(a, b) == IF a < b THEN b ELSE a
Less(t) == IF t = 0 THEN 0 ELSE t - 1

\* Mutant: an exhausted pool is retried like any other failure.
RetryableWhenPoolExhausted(r) == r.status \in {"throttled", "gateway", "neterr"}

\* retryableGETResult
Retryable(r) == r.status \in {"throttled", "gateway", "neterr"} /\ ~r.pool

\* 1 << attempt, for the two attempts that can be followed by another
Shift(k) == IF k = 0 THEN 1 ELSE 2

\* platformRetryDelay before its jitter
RetryDelay(r, k) ==
    LET hinted == AtLeast(BackoffUnit * Shift(k), r.hint)
    IN  IF r.status = "throttled"
        THEN AtLeast(hinted, MinCooldown * Shift(k))
        ELSE hinted

Jitter(r, k) == IF r.status = "throttled" THEN 0 .. (RetryDelay(r, k) \div 4)
                                          ELSE {0}

\* Mutants: the pacing forgets the cooldown, or is forgotten itself.
ReadyInNextOnly(o) == IF slowUntil[o] > 0 THEN next[o] ELSE cooldown[o]
ReadyInUnpaced(o) == cooldown[o]

\* The instant budget.wait lets the next request of an origin go.
ReadyIn(o) ==
    IF slowUntil[o] > 0 THEN AtLeast(cooldown[o], next[o]) ELSE cooldown[o]

-----------------------------------------------------------------------------
Init ==
    /\ pc = [c \in Callers |-> "idle"]
    /\ attempt = [c \in Callers |-> 0]
    /\ timer = [c \in Callers |-> 0]
    /\ wake = [c \in Callers |-> 0]
    /\ ctxDone = [c \in Callers |-> FALSE]
    /\ result = [c \in Callers |-> Failure("none", FALSE)]
    /\ slots = [o \in Origins |-> 0]
    /\ cooldown = [o \in Origins |-> 0]
    /\ next = [o \in Origins |-> 0]
    /\ slowUntil = [o \in Origins |-> 0]
    /\ sent = [c \in Callers |-> 0]
    /\ embargo = [o \in Origins |-> 0]
    /\ sinceSend = [o \in Origins |-> PaceGap]

Goto(c, l) == pc' = [pc EXCEPT ![c] = l]
SetTimer(c, d) == timer' = [timer EXCEPT ![c] = d]
Release(c) == slots' = [slots EXCEPT ![OriginOf[c]] = @ - 1]
\* Mutant: the transport relies on the caller's context alone.
ExpiredWithoutBudgets(c) == ctxDone[c]

Expired(c) == timer[c] = 0 \/ ctxDone[c]

\* RoundTrip starts waiting for a slot, under a queue budget of its own.
EnterQueue(c) == Goto(c, "queue") /\ SetTimer(c, QueueTimeout)

\* Every error of RoundTrip ends the attempt and cancels its context.
Fail(c, status, pool) ==
    /\ Goto(c, "decide")
    /\ SetTimer(c, 0)
    /\ result' = [result EXCEPT ![c] = Failure(status, pool)]

Begin(c) ==
    /\ pc[c] = "idle"
    /\ EnterQueue(c)
    /\ UNCHANGED <<attempt, wake, ctxDone, result, budgetVars, observers>>

AcquireSlot(c) ==
    /\ pc[c] = "queue"
    /\ slots[OriginOf[c]] < MaxInFlight
    /\ slots' = [slots EXCEPT ![OriginOf[c]] = @ + 1]
    /\ Goto(c, "gate")
    /\ UNCHANGED <<attempt, timer, wake, ctxDone, result,
                   cooldown, next, slowUntil, observers>>

\* Go's select may take either branch when a slot and queueCtx are ready.
QueueExpired(c) ==
    /\ pc[c] = "queue"
    /\ Expired(c)
    /\ Fail(c, "ctxerr", FALSE)
    /\ UNCHANGED <<attempt, wake, ctxDone, budgetVars, observers>>

\* One turn of budget.wait's loop: at its start, or after its timer fired.
Checking(c) == pc[c] = "gate" \/ (pc[c] = "pause" /\ wake[c] = 0)

Admit(c) ==
    LET o == OriginOf[c] IN
    /\ Checking(c)
    /\ ReadyIn(o) = 0
    /\ next' = IF slowUntil[o] > 0 THEN [next EXCEPT ![o] = PaceGap] ELSE next
    /\ Goto(c, "flight")
    /\ SetTimer(c, RequestTimeout)
    /\ sent' = [sent EXCEPT ![c] = @ + 1]
    /\ sinceSend' = [sinceSend EXCEPT ![o] = 0]
    /\ UNCHANGED <<attempt, wake, ctxDone, result,
                   slots, cooldown, slowUntil, embargo>>

HoldBack(c) ==
    /\ Checking(c)
    /\ ReadyIn(OriginOf[c]) > 0
    /\ wake' = [wake EXCEPT ![c] = ReadyIn(OriginOf[c])]
    /\ Goto(c, "pause")
    /\ UNCHANGED <<attempt, timer, ctxDone, result, budgetVars, observers>>

\* Mutant: the slot is not given back when the wait at the gate fails.
GateExpiredLeaking(c) ==
    /\ pc[c] = "pause"
    /\ Expired(c)
    /\ wake' = [wake EXCEPT ![c] = 0]
    /\ Fail(c, "ctxerr", FALSE)
    /\ UNCHANGED <<attempt, ctxDone, budgetVars, observers>>

GateExpired(c) ==
    /\ pc[c] = "pause"
    /\ Expired(c)
    /\ wake' = [wake EXCEPT ![c] = 0]  \* timer.Stop()
    /\ Release(c)
    /\ Fail(c, "ctxerr", FALSE)
    /\ UNCHANGED <<attempt, ctxDone, cooldown, next, slowUntil, observers>>

\* Mutant: the recovery starts at the end of this 429's own pause.
RecoveryOfLatest(o, pause) == pause + SlowWindow

\* The recovery starts where the cooldown, moved by this pause, ends.
Recovery(o, pause) == AtLeast(cooldown[o], pause) + SlowWindow

\* base.RoundTrip returned a response; a 429 moves the shared cooldown.  The
\* request's deadline now only bounds the read of the body, which CloseBody
\* takes to end either way, so its countdown is dropped.
Respond(c, r) ==
    LET o == OriginOf[c]
        pause == AtLeast(r.hint, MinCooldown)
    IN
    /\ pc[c] = "flight"
    /\ Goto(c, "decide")
    /\ result' = [result EXCEPT ![c] = r]
    /\ IF r.status = "throttled"
       THEN /\ cooldown' = [cooldown EXCEPT ![o] = AtLeast(@, pause)]
            /\ slowUntil' = [slowUntil EXCEPT ![o] = Recovery(o, pause)]
            /\ embargo' = [embargo EXCEPT ![o] = AtLeast(@, r.hint)]
       ELSE UNCHANGED <<cooldown, slowUntil, embargo>>
    /\ SetTimer(c, 0)
    /\ UNCHANGED <<attempt, wake, ctxDone, slots, next, sent, sinceSend>>

\* base.RoundTrip returned an error, of the network or of requestCtx.
RespondError(c, status, pool) ==
    /\ pc[c] = "flight"
    /\ status = "ctxerr" => (Expired(c) /\ ~pool)
    /\ Release(c)
    /\ Fail(c, status, pool)
    /\ UNCHANGED <<attempt, wake, ctxDone,
                   cooldown, next, slowUntil, observers>>

\* doPlatformRequest keeps the result: not a GET, out of attempts, not
\* retryable, or asked to wait longer than it is willing to.
Final(c) == \/ c \notin Getters
            \/ attempt[c] >= MaxAttempt
            \/ ~Retryable(result[c])
            \/ result[c].hint > MaxHint

Return(c) ==
    /\ pc[c] = "decide"
    /\ Final(c)
    /\ Goto(c, IF HasBody(result[c]) THEN "body" ELSE "done")
    /\ UNCHANGED <<attempt, timer, wake, ctxDone, result,
                   budgetVars, observers>>

Backoff(c) ==
    /\ pc[c] = "decide"
    /\ ~Final(c)
    /\ IF HasBody(result[c]) THEN Release(c) ELSE UNCHANGED slots
    /\ Goto(c, "backoff")
    /\ \E j \in Jitter(result[c], attempt[c]) :
          SetTimer(c, RetryDelay(result[c], attempt[c]) + j)
    /\ UNCHANGED <<attempt, wake, ctxDone, result,
                   cooldown, next, slowUntil, observers>>

\* The pause is over; the loop checks the context before the next attempt.
Retry(c) ==
    /\ pc[c] = "backoff"
    /\ timer[c] = 0
    /\ attempt' = [attempt EXCEPT ![c] = @ + 1]
    /\ IF ctxDone[c]
       THEN /\ Goto(c, "done")
            /\ result' = [result EXCEPT ![c] = Failure("ctxerr", FALSE)]
            /\ UNCHANGED timer
       ELSE EnterQueue(c) /\ UNCHANGED result
    /\ UNCHANGED <<wake, ctxDone, budgetVars, observers>>

BackoffCancelled(c) ==
    /\ pc[c] = "backoff"
    /\ ctxDone[c]
    /\ Goto(c, "done")
    /\ SetTimer(c, 0)  \* pause.Stop()
    /\ result' = [result EXCEPT ![c] = Failure("ctxerr", FALSE)]
    /\ UNCHANGED <<attempt, wake, ctxDone, budgetVars, observers>>

\* doSignedRequest reads the body to its end or its error, then closes it.
CloseBody(c) ==
    /\ pc[c] = "body"
    /\ Release(c)
    /\ Goto(c, "done")
    /\ UNCHANGED <<attempt, timer, wake, ctxDone, result,
                   cooldown, next, slowUntil, observers>>

\* The command is interrupted, or its deadline passes, while c is at work.
Cancel(c) ==
    /\ pc[c] \notin {"idle", "done"}
    /\ ~ctxDone[c]
    /\ ctxDone' = [ctxDone EXCEPT ![c] = TRUE]
    /\ UNCHANGED <<pc, attempt, timer, wake, result, budgetVars, observers>>

Waiting ==
    \/ \E c \in Callers : timer[c] > 0 \/ wake[c] > 0
    \/ \E o \in Origins : cooldown[o] + next[o] + slowUntil[o] + embargo[o] > 0
    \/ \E o \in Origins : sinceSend[o] < PaceGap

Tick ==
    /\ Waiting
    /\ timer' = [c \in Callers |-> Less(timer[c])]
    /\ wake' = [c \in Callers |-> Less(wake[c])]
    /\ cooldown' = [o \in Origins |-> Less(cooldown[o])]
    /\ next' = [o \in Origins |-> Less(next[o])]
    /\ slowUntil' = [o \in Origins |-> Less(slowUntil[o])]
    /\ embargo' = [o \in Origins |-> Less(embargo[o])]
    /\ sinceSend' = [o \in Origins |->
                        IF sinceSend[o] < PaceGap THEN sinceSend[o] + 1 ELSE PaceGap]
    /\ UNCHANGED <<pc, attempt, ctxDone, result, slots, sent>>

Network(c) == \/ \E r \in HTTPResponses : Respond(c, r)
              \/ \E pool \in BOOLEAN : RespondError(c, "neterr", pool)
              \/ RespondError(c, "ctxerr", FALSE)

Program(c) == \/ AcquireSlot(c) \/ QueueExpired(c)
              \/ Admit(c) \/ HoldBack(c) \/ GateExpired(c)
              \/ Return(c) \/ Backoff(c) \/ Retry(c) \/ BackoffCancelled(c)
              \/ CloseBody(c)

Next == Tick \/ \E c \in Callers : Begin(c) \/ Cancel(c) \/ Network(c) \/ Program(c)

Spec == Init /\ [][Next]_vars

(***************************************************************************)
(* Time passes, a runnable goroutine runs, and a request whose context has *)
(* ended comes back.  No server has to answer and nobody has to start or   *)
(* to cancel a request.                                                    *)
(***************************************************************************)
FairSpec ==
    /\ Spec
    /\ WF_vars(Tick)
    /\ \A c \in Callers : /\ WF_vars(Program(c))
                          /\ WF_vars(RespondError(c, "ctxerr", FALSE))
-----------------------------------------------------------------------------
TypeOK ==
    /\ pc \in [Callers -> Locations]
    /\ attempt \in [Callers -> 0 .. MaxAttempt]
    /\ timer \in [Callers -> Nat]
    /\ wake \in [Callers -> Nat]
    /\ ctxDone \in [Callers -> BOOLEAN]
    /\ result \in [Callers -> Result]
    /\ slots \in [Origins -> 0 .. MaxInFlight]
    /\ cooldown \in [Origins -> Nat]
    /\ next \in [Origins -> Nat]
    /\ slowUntil \in [Origins -> Nat]
    /\ sent \in [Callers -> 0 .. MaxAttempt + 1]
    /\ embargo \in [Origins -> Nat]
    /\ sinceSend \in [Origins -> 0 .. PaceGap]

\* A caller that owes its origin a slot: it has taken one and its error path,
\* its retry or the Close of its body has not given it back.
Holds(c) == \/ pc[c] \in {"gate", "pause", "flight"}
            \/ pc[c] \in {"decide", "body"} /\ HasBody(result[c])

Holders(o) == {c \in Callers : OriginOf[c] = o /\ Holds(c)}

(***************************************************************************)
(* RoundTrip, budgetResponseBody.Close: on every path, errors and retries  *)
(* included, an origin's channel holds exactly one token per caller that   *)
(* is between its admission and the close of its body.  A path that        *)
(* forgets to release leaks a slot for good; one that releases twice       *)
(* takes another caller's.                                                 *)
(***************************************************************************)
SlotsAreHeld == \A o \in Origins : slots[o] = Cardinality(Holders(o))

(***************************************************************************)
(* http_throttle.go: a 429 is followed by a paced recovery.  While an      *)
(* origin cools down, its paced window lies exactly SlowWindow past the    *)
(* end of the cooldown, whichever 429 came last, and the window of a 429   *)
(* never closes before the cooldown of an earlier one.                     *)
(***************************************************************************)
RecoveryFollowsCooldown ==
    \A o \in Origins : cooldown[o] > 0 => slowUntil[o] = cooldown[o] + SlowWindow

\* Caller c's request goes to the network in this step.
Sends(c) == sent'[c] # sent[c]

(***************************************************************************)
(* http_throttle.go: the server's Retry-After binds every caller of the    *)
(* origin, not only the one that was refused: no request leaves before the *)
(* longest Retry-After any 429 of that origin announced has run out.       *)
(***************************************************************************)
NoSendDuringEmbargo ==
    [][\A c \in Callers : Sends(c) => embargo[OriginOf[c]] = 0]_vars

\* A result after which another attempt may fare better.
Temporary(r) == r.status \notin {"none", "ok", "ctxerr"} /\ ~r.pool

(***************************************************************************)
(* doPlatformRequest: only a GET is repeated, at most twice, and never     *)
(* once an attempt was answered for good, met an exhausted connection pool *)
(* or the end of its own context.  A POST or DELETE reaches the network at *)
(* most once.                                                              *)
(***************************************************************************)
RetryDiscipline ==
    [][\A c \in Callers : Sends(c) =>
          /\ sent[c] <= (IF c \in Getters THEN MaxAttempt ELSE 0)
          /\ sent[c] > 0 => Temporary(result[c])]_vars

(***************************************************************************)
(* http_throttle.go: while an origin recovers from a 429, two of its       *)
(* requests never leave less than PaceGap apart, also when several callers *)
(* wake up together, another 429 arrives in between, or the earlier        *)
(* request left before the 429 was seen.                                   *)
(***************************************************************************)
RecoveryIsPaced ==
    [][\A c \in Callers : (Sends(c) /\ slowUntil[OriginOf[c]] > 0)
          => sinceSend[OriginOf[c]] = PaceGap]_vars

(***************************************************************************)
(* http_timeout.go: admission and network attempts have bounded budgets,   *)
(* so every call comes back, whatever the servers and the other callers    *)
(* do, and when all are back every slot is free again.                     *)
(***************************************************************************)
EveryCallReturns == \A c \in Callers : pc[c] = "queue" ~> pc[c] = "done"
=============================================================================
