------------------------------ MODULE NodeHealth ------------------------------
(***************************************************************************)
(* internal/nodehealth/service.go: Service.Run checks many nodes on a few  *)
(* workers, and runNode starts all checks of its node at once.  The checks *)
(* that enter the node do it through the executor, so this module composes *)
(* the pool with NodeExec: its Callers are the checks of all nodes.        *)
(*                                                                         *)
(* The goroutines of Run are the feeder of the jobs channel (unbuffered),  *)
(* the workers, the one that closes `results` when the workers are gone,   *)
(* and the caller, who collects.  All checks share the command's context,  *)
(* the only member of Contexts.                                            *)
(***************************************************************************)
EXTENDS NodeExec, Sequences

CONSTANTS
    NodeList,    \* the nodes in their order: a sequence
    MaxParallel, \* options.MaxParallel after its defaults
    Entering,    \* the checks that enter their node; the others only query
    Twice        \* checkDevicePlugin: asks the API server for a plugin pod and its
                 \* log, and enters twice, one command after the other

Width == IF MaxParallel > Len(NodeList) THEN Len(NodeList) ELSE MaxParallel
Workers == 1 .. Width
Indexes == 1 .. Len(NodeList)

\* Run returns at once for no nodes, and sets a limit that is not positive to 4.
ASSUME HealthAssumption ==
    /\ NodeList \in Seq(Nodes) /\ NodeList # << >>
    /\ MaxParallel \in Nat \ {0}
    /\ Entering \subseteq Callers /\ Twice \subseteq Entering
    /\ \A c \in Callers : \E i \in Indexes : NodeOf[c] = NodeList[i]

VARIABLES
    fed,        \* how many indexes the feeder has handed out
    jobsClosed, \* the feeder closed jobs and returned
    busy,       \* the index each worker runs, 0 when it is at its range
    left,       \* workers that called Done
    queue,      \* the results channel, buffered for all nodes
    nodeErr,    \* the indexes whose runNode returned an error
    closedRes,  \* close(results)
    collected,  \* the indexes the caller has received
    more,       \* the checks whose second command is still to come
    outcome     \* what Run returned

poolVars == <<fed, jobsClosed, busy, left, queue, nodeErr, closedRes, collected, more, outcome>>
vars == <<execVars, poolVars>>

Cancelled == ended # {}

ChecksOf(i) == {c \in Callers : NodeOf[c] = NodeList[i]}
Ended(c) == at[c] = "failed" \/ (at[c] = "done" /\ c \notin more)

Init ==
    /\ ExecInit
    /\ fed = 0
    /\ jobsClosed = FALSE
    /\ busy = [w \in Workers |-> 0]
    /\ left = {}
    /\ queue = {}
    /\ nodeErr = {}
    /\ closedRes = FALSE
    /\ collected = {}
    /\ more = Twice
    /\ outcome = "none"

\* case jobs <- index: taken by a worker, cancelled context or not.
Feed(w) ==
    /\ ~jobsClosed
    /\ fed < Len(NodeList)
    /\ w \notin left
    /\ busy[w] = 0
    /\ busy' = [busy EXCEPT ![w] = fed + 1]
    /\ fed' = fed + 1
    /\ UNCHANGED <<execVars, jobsClosed, left, queue, nodeErr, closedRes, collected, more, outcome>>

\* The feeder is through, or stops because the context is cancelled.
CloseJobs ==
    /\ ~jobsClosed
    /\ fed = Len(NodeList) \/ Cancelled
    /\ jobsClosed' = TRUE
    /\ UNCHANGED <<execVars, fed, busy, left, queue, nodeErr, closedRes, collected, more, outcome>>

\* A goroutine of runNode at work: its check enters the node ...
Started(c) == \E w \in Workers : busy[w] # 0 /\ c \in ChecksOf(busy[w])

CheckStep(c) ==
    /\ Started(c)
    /\ c \in Entering
    /\ Run(c)
    /\ UNCHANGED poolVars

\* checkDevicePlugin reads the checkpoint, and after that the interfaces.
SecondCommand(c) ==
    /\ Started(c)
    /\ c \in more /\ at[c] = "done"
    /\ Again(c)
    /\ more' = more \ {c}
    /\ UNCHANGED <<fed, jobsClosed, busy, left, queue, nodeErr, closedRes, collected, outcome>>

\* Requests of a check other than the executor's.
Asks(c) == at[c] = "idle" /\ (c \notin Entering \/ c \in more)

\* ... or asks the API server or the metrics: that is all it does, or it fails
\* before it enters.
Query(c) ==
    /\ Started(c)
    /\ Asks(c)
    /\ \E p \in {"done", "failed"} :
          /\ p = "done" => c \notin Entering
          /\ Move(c, p)
    /\ UNCHANGED <<pod, lookups, waitsFor, podByNode, ended, live, everLive>>
    /\ UNCHANGED poolVars

\* Mutant: runNode does not wait for the checks once the command is cancelled.
RunNodeReturnsEarly(w) ==
    /\ busy[w] # 0
    /\ Cancelled \/ \A c \in ChecksOf(busy[w]) : Ended(c)
    /\ nodeErr' = IF \E c \in ChecksOf(busy[w]) : at[c] = "failed"
                  THEN nodeErr \cup {busy[w]} ELSE nodeErr
    /\ queue' = queue \cup {busy[w]}
    /\ busy' = [busy EXCEPT ![w] = 0]
    /\ UNCHANGED <<execVars, fed, jobsClosed, left, closedRes, collected, more, outcome>>

\* runNode has received the outcome of every check; its errors are joined.
RunNodeReturns(w) ==
    /\ busy[w] # 0
    /\ \A c \in ChecksOf(busy[w]) : Ended(c)
    /\ nodeErr' = IF \E c \in ChecksOf(busy[w]) : at[c] = "failed"
                  THEN nodeErr \cup {busy[w]} ELSE nodeErr
    /\ queue' = queue \cup {busy[w]}
    /\ busy' = [busy EXCEPT ![w] = 0]
    /\ UNCHANGED <<execVars, fed, jobsClosed, left, closedRes, collected, more, outcome>>

Leave(w) ==
    /\ jobsClosed
    /\ w \notin left
    /\ busy[w] = 0
    /\ left' = left \cup {w}
    /\ UNCHANGED <<execVars, fed, jobsClosed, busy, queue, nodeErr, closedRes, collected, more, outcome>>

\* Mutant: the results channel is closed when there are no more jobs.
CloseResultsAtOnce ==
    /\ jobsClosed
    /\ ~closedRes
    /\ closedRes' = TRUE
    /\ UNCHANGED <<execVars, fed, jobsClosed, busy, left, queue, nodeErr, collected, more, outcome>>

\* workers.Wait(); close(results)
CloseResults ==
    /\ left = Workers
    /\ ~closedRes
    /\ closedRes' = TRUE
    /\ UNCHANGED <<execVars, fed, jobsClosed, busy, left, queue, nodeErr, collected, more, outcome>>

Collect(i) ==
    /\ outcome = "none"
    /\ i \in queue
    /\ queue' = queue \ {i}
    /\ collected' = collected \cup {i}
    /\ UNCHANGED <<execVars, fed, jobsClosed, busy, left, nodeErr, closedRes, more, outcome>>

\* Mutant: only the errors of nodes that were checked are reported.
ReportsErrorOfNodes == collected \cap nodeErr # {}

ReportsError ==
    \/ collected \cap nodeErr # {}
    \/ collected # Indexes /\ Cancelled

Return ==
    /\ closedRes
    /\ queue = {}
    /\ outcome = "none"
    /\ outcome' = IF ReportsError THEN "error" ELSE "ok"
    /\ UNCHANGED <<execVars, fed, jobsClosed, busy, left, queue, nodeErr, closedRes, collected, more>>

Interrupt ==
    /\ outcome = "none"
    /\ \E x \in Contexts : Cancel(x)
    /\ UNCHANGED poolVars

PodReplaced ==
    /\ outcome = "none"
    /\ \E c \in Entering : Replace(NodeOf[c])
    /\ UNCHANGED poolVars

Pool == CloseJobs \/ CloseResults \/ Return \/ \E i \in Indexes : Collect(i)

WorkerStep(w) == Feed(w) \/ RunNodeReturns(w) \/ Leave(w)

Check(c) == CheckStep(c) \/ SecondCommand(c) \/ Query(c)

Next == \/ Pool \/ Interrupt \/ PodReplaced
        \/ \E w \in Workers : WorkerStep(w)
        \/ \E c \in Callers : Check(c)

Spec == Init /\ [][Next]_vars

(***************************************************************************)
(* A request of the check waits for its answer: neither the clients nor    *)
(* the context have a deadline, so nobody owes it one.  Once the command   *)
(* is interrupted, a list, a get and a query of the metrics end with their *)
(* context; an exec whose connection is being upgraded is not assumed to.  *)
(***************************************************************************)
Unanswered(c) ==
    /\ Started(c)
    /\ Asks(c) \/ at[c] \in {"leading", "exec"}
    /\ Cancelled => at[c] = "exec"

\* Goroutines run; nobody answers or interrupts by duty.  No step can be repeated
\* for ever, so it is enough that the command goes on while it can.
FairSpec ==
    /\ Spec
    /\ WF_vars(\/ Pool
               \/ \E w \in Workers : WorkerStep(w)
               \/ \E c \in Callers : ~Unanswered(c) /\ Check(c))
-------------------------------------------------------------------------------
PoolTypeOK ==
    /\ ExecTypeOK
    /\ fed \in 0 .. Len(NodeList)
    /\ busy \in [Workers -> 0 .. Len(NodeList)]
    /\ left \subseteq Workers
    /\ queue \subseteq Indexes /\ nodeErr \subseteq Indexes /\ collected \subseteq Indexes
    /\ more \subseteq Twice
    /\ {jobsClosed, closedRes} \subseteq BOOLEAN
    /\ outcome \in {"none", "ok", "error"}

(***************************************************************************)
(* Service.Run: a success means that every node was checked and every one  *)
(* of its checks ended well.  An interrupted run, which leaves the results *)
(* of the remaining nodes empty, is never reported as a success.           *)
(***************************************************************************)
SuccessIsComplete ==
    outcome = "ok" => /\ collected = Indexes
                      /\ \A c \in Callers : at[c] = "done"

(***************************************************************************)
(* Service.Run, runNode: when Run returns, nothing it started is still at  *)
(* work: no check waits in a lookup, no lookup is left in the executor's   *)
(* table, no worker and no feeder is blocked on a channel.                 *)
(***************************************************************************)
NothingLeftRunning ==
    outcome # "none" =>
        /\ \A c \in Callers : at[c] = "idle" \/ Ended(c)
        /\ \A n \in Nodes : lookups[n] = NoCaller
        /\ jobsClosed /\ left = Workers /\ queue = {}

(***************************************************************************)
(* runNode's report of a node is final: the checks it reads do not change  *)
(* any more once the node is in the results channel or collected.          *)
(***************************************************************************)
ReportedChecksAreFinal ==
    \A i \in queue \cup collected : \A c \in ChecksOf(i) : Ended(c)

(***************************************************************************)
(* Service.Run, runNode, podForNode: Run comes back, interrupted or not,   *)
(* unless one request that it sent is never answered.  Nobody waits for    *)
(* ever on a channel or for a lookup that has ended; and after an          *)
(* interrupt only a command that was sent to a node can still hold it up.  *)
(***************************************************************************)
RunReturns == <>(outcome # "none") \/ \E c \in Callers : <>[]Unanswered(c)
===============================================================================
