----------------------------- MODULE ParallelMap -----------------------------
(***************************************************************************)
(* What concurrent.Map promises its callers: every input is called exactly *)
(* once, at most Limit calls run at a time, and the caller gets the        *)
(* results only when all of them are there.                                *)
(***************************************************************************)
EXTENDS Integers, FiniteSets

CONSTANTS
    Inputs,   \* the inputs of one Map
    Limit     \* the largest number of calls that may run at once

VARIABLES
    phase,    \* of each input's call
    returned  \* Map has returned its results

Running == {i \in Inputs : phase[i] = "running"}

Init ==
    /\ phase = [i \in Inputs |-> "todo"]
    /\ returned = FALSE

\* The call of input i moves on, and nothing else does.
Becomes(i, from, to) ==
    /\ phase[i] = from
    /\ phase'[i] = to
    /\ phase' = [phase EXCEPT ![i] = to]
    /\ UNCHANGED returned

Start(i) == Becomes(i, "todo", "running") /\ Cardinality(Running) < Limit

Finish(i) == Becomes(i, "running", "done")

Return ==
    /\ ~returned
    /\ \A i \in Inputs : phase[i] = "done"
    /\ returned' = TRUE
    /\ UNCHANGED phase

Next == Return \/ \E i \in Inputs : Start(i) \/ Finish(i)

Spec == Init /\ [][Next]_<<phase, returned>>
==============================================================================
