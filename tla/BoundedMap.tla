------------------------------ MODULE BoundedMap ------------------------------
(***************************************************************************)
(* internal/concurrent/map.go: Map, the worker pool under queryProfiles,   *)
(* boundedMap and the service fan-outs.  The calling goroutine offers the  *)
(* indexes one by one over an unbuffered channel to a fixed number of      *)
(* workers, closes the channel, and waits for the workers.  The context is *)
(* only passed on: a call may fail early once it is cancelled, but Map     *)
(* itself never looks at it.                                               *)
(***************************************************************************)
EXTENDS Integers, FiniteSets

CONSTANTS
    Length,      \* len(values)
    MaxParallel  \* maxParallel, which may be below one

ASSUME LengthAssumption == Length \in Nat /\ MaxParallel \in Int

Inputs == 1 .. Length

\* The number of workers: maxParallel, but at least one and no more than inputs.
Width == IF Length = 0 THEN 0
         ELSE IF MaxParallel < 1 THEN 1
         ELSE IF MaxParallel > Length THEN Length ELSE MaxParallel

Workers == 1 .. Width

Outcomes == {"value", "error"}

VARIABLES
    index,     \* the index the calling goroutine offers next
    closed,    \* close(indexes)
    holding,   \* the input each worker is calling, 0 when it is at the range
    gone,      \* the workers that left their loop, i.e. called Done
    results,   \* "unset" is the zero value make gave the slot
    cancelled, \* the context
    returned,
    calls      \* observer: how often each input's call was started

vars == <<index, closed, holding, gone, results, cancelled, returned, calls>>

Init ==
    /\ index = 1
    /\ closed = FALSE
    /\ holding = [w \in Workers |-> 0]
    /\ gone = {}
    /\ results = [i \in Inputs |-> "unset"]
    /\ cancelled = FALSE
    /\ returned = FALSE
    /\ calls = [i \in Inputs |-> 0]

\* Mutant: the index is offered again after it was received.
HandWithoutAdvance(w) ==
    /\ index \in Inputs
    /\ w \notin gone
    /\ holding[w] = 0
    /\ holding' = [holding EXCEPT ![w] = index]
    /\ calls' = [calls EXCEPT ![index] = @ + 1]
    /\ \E i \in {index, index + 1} : index' = i
    /\ UNCHANGED <<closed, gone, results, cancelled, returned>>

\* The rendezvous `indexes <- index`: a worker at its range receives.
Hand(w) ==
    /\ index \in Inputs
    /\ w \notin gone
    /\ holding[w] = 0
    /\ holding' = [holding EXCEPT ![w] = index]
    /\ calls' = [calls EXCEPT ![index] = @ + 1]
    /\ index' = index + 1
    /\ UNCHANGED <<closed, gone, results, cancelled, returned>>

\* results[index] = call(ctx, values[index]).  A call may fail of itself or
\* because of the context, and may succeed after the context was cancelled.
Finish(w) ==
    /\ holding[w] # 0
    /\ \E r \in Outcomes : results' = [results EXCEPT ![holding[w]] = r]
    /\ holding' = [holding EXCEPT ![w] = 0]
    /\ UNCHANGED <<index, closed, gone, cancelled, returned, calls>>

\* Mutant: the feeder returns to Wait without close(indexes).
CloseForgotten ==
    /\ index > Length
    /\ FALSE
    /\ UNCHANGED vars

Close ==
    /\ index > Length
    /\ ~closed
    /\ Length > 0  \* an empty input returns before there is a channel
    /\ closed' = TRUE
    /\ UNCHANGED <<index, holding, gone, results, cancelled, returned, calls>>

Leave(w) ==
    /\ closed
    /\ holding[w] = 0
    /\ w \notin gone
    /\ gone' = gone \cup {w}
    /\ UNCHANGED <<index, closed, holding, results, cancelled, returned, calls>>

\* Mutant: Map returns once the channel is closed, without waiting.
ReturnWithoutWait ==
    /\ closed \/ Length = 0
    /\ ~returned
    /\ returned' = TRUE
    /\ UNCHANGED <<index, closed, holding, gone, results, cancelled, calls>>

\* workers.Wait()
Return ==
    /\ (closed /\ gone = Workers) \/ Length = 0
    /\ ~returned
    /\ returned' = TRUE
    /\ UNCHANGED <<index, closed, holding, gone, results, cancelled, calls>>

Cancel ==
    /\ ~cancelled
    /\ ~returned
    /\ cancelled' = TRUE
    /\ UNCHANGED <<index, closed, holding, gone, results, returned, calls>>

Worker(w) == Hand(w) \/ Finish(w) \/ Leave(w)

Next == Close \/ Return \/ Cancel \/ \E w \in Workers : Worker(w)

Spec == Init /\ [][Next]_vars
-------------------------------------------------------------------------------
TypeOK ==
    /\ index \in 1 .. Length + 1
    /\ closed \in BOOLEAN
    /\ holding \in [Workers -> 0 .. Length]
    /\ gone \subseteq Workers
    /\ results \in [Inputs -> Outcomes \cup {"unset"}]
    /\ cancelled \in BOOLEAN
    /\ returned \in BOOLEAN
    /\ calls \in [Inputs -> 0 .. 1]

(***************************************************************************)
(* map.go: "Every input is called, including after cancellation, so        *)
(* callers receive a result for every position."  When Map returns no      *)
(* position is left with its zero value, every input was called exactly    *)
(* once, and no call is still running behind the caller's back.            *)
(***************************************************************************)
EveryPositionHasItsResult ==
    returned => /\ \A i \in Inputs : results[i] # "unset" /\ calls[i] = 1
                /\ \A w \in Workers : holding[w] = 0

(***************************************************************************)
(* map.go: a position belongs to one worker.  Two calls never run for one  *)
(* input, and results[i] is written by its own call only.                  *)
(***************************************************************************)
OneWorkerPerInput ==
    \A v, w \in Workers : v # w /\ holding[v] # 0 => holding[v] # holding[w]

Called(i) == \E w \in Workers : holding[w] = i

Phase(i) == IF Called(i) THEN "running"
            ELSE IF results[i] = "unset" THEN "todo" ELSE "done"

Abstract == INSTANCE ParallelMap WITH
                Limit <- Width, phase <- [i \in Inputs |-> Phase(i)]

(***************************************************************************)
(* The worker pool is a ParallelMap: at most Width calls at once, each     *)
(* input once, and the results only when they are complete.                *)
(***************************************************************************)
RefinesParallelMap == Abstract!Spec
===============================================================================
