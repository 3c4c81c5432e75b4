------------------------------- MODULE NodeExec -------------------------------
(***************************************************************************)
(* internal/nodeexec/executor.go: finding the privileged csi pod of a node *)
(* and running a command in it.  Lookups of one node are shared: the first *)
(* caller lists the pods, those that come meanwhile wait for its answer,   *)
(* and a found pod is kept for the life of the process.  Pods come and go  *)
(* under the executor's feet, and any caller's context may end.            *)
(***************************************************************************)
EXTENDS Integers, FiniteSets

CONSTANTS
    Callers,   \* goroutines that call Run, one command after another
    Nodes,
    NodeOf,    \* the node each caller works on
    Contexts,
    ContextOf, \* callers of one command share its context
    Pods,      \* names of csi pods
    NoPod,     \* ""
    NoCaller   \* nil in e.lookups

ASSUME ExecAssumption ==
    /\ NodeOf \in [Callers -> Nodes]
    /\ ContextOf \in [Callers -> Contexts]
    /\ NoPod \notin Pods
    /\ NoCaller \notin Callers

VARIABLES
    at,         \* where each caller is
    pod,        \* the pod it was told, NoPod when it was told an error
    lookups,    \* e.lookups: the caller whose lookup is under way
    waitsFor,   \* the caller whose lookup a follower found there
    podByNode,  \* e.podByNode
    ended,      \* the contexts that are cancelled or past their deadline
    live,       \* external: the pod running on each node
    everLive    \* observer: the pods each node ever had

execVars == <<at, pod, lookups, waitsFor, podByNode, ended, live, everLive>>

Places == {"idle", "leading", "publishing", "following", "exec", "failed", "done"}

ExecInit ==
    /\ at = [c \in Callers |-> "idle"]
    /\ pod = [c \in Callers |-> NoPod]
    /\ lookups = [n \in Nodes |-> NoCaller]
    /\ waitsFor = [c \in Callers |-> NoCaller]
    /\ podByNode = [n \in Nodes |-> NoPod]
    /\ ended = {}
    /\ live \in [Nodes -> Pods \cup {NoPod}]
    /\ everLive = [n \in Nodes |-> {live[n]} \ {NoPod}]

Move(c, p) == at' = [at EXCEPT ![c] = p]
Told(c, p) == pod' = [pod EXCEPT ![c] = p]

\* podForNode, first critical section: the cache answers.
CacheHit(c) ==
    /\ at[c] = "idle"
    /\ podByNode[NodeOf[c]] # NoPod
    /\ Told(c, podByNode[NodeOf[c]])
    /\ Move(c, "exec")
    /\ UNCHANGED <<lookups, waitsFor, podByNode, ended, live, everLive>>

\* A lookup of the node is under way: wait for its done channel.
Follow(c) ==
    /\ at[c] = "idle"
    /\ podByNode[NodeOf[c]] = NoPod
    /\ lookups[NodeOf[c]] # NoCaller
    /\ waitsFor' = [waitsFor EXCEPT ![c] = lookups[NodeOf[c]]]
    /\ Move(c, "following")
    /\ UNCHANGED <<pod, lookups, podByNode, ended, live, everLive>>

Lead(c) ==
    /\ at[c] = "idle"
    /\ podByNode[NodeOf[c]] = NoPod
    /\ lookups[NodeOf[c]] = NoCaller
    /\ lookups' = [lookups EXCEPT ![NodeOf[c]] = c]
    /\ Move(c, "leading")
    /\ UNCHANGED <<pod, waitsFor, podByNode, ended, live, everLive>>

\* Mutant: the pods are not selected by the name of their node.
DiscoverAnywhere(c) ==
    /\ at[c] = "leading"
    /\ \E answer \in {live[n] : n \in Nodes} \cup {NoPod} : Told(c, answer)
    /\ Move(c, "publishing")
    /\ UNCHANGED <<lookups, waitsFor, podByNode, ended, live, everLive>>

\* discoverPodForNode: the list shows the running pod, or none; or it fails.
Discover(c) ==
    /\ at[c] = "leading"
    /\ \E answer \in {live[NodeOf[c]], NoPod} : Told(c, answer)
    /\ Move(c, "publishing")
    /\ UNCHANGED <<lookups, waitsFor, podByNode, ended, live, everLive>>

After(answer) == IF answer = NoPod THEN "failed" ELSE "exec"

\* The followers of c's lookup: its done channel is open as long as they are.
FollowersOf(c) == {d \in Callers : at[d] = "following" /\ waitsFor[d] = c}

\* Mutant: a failed lookup is left in the table.
PublishKeepingFailures(c) ==
    LET n == NodeOf[c] IN
    /\ at[c] = "publishing"
    /\ podByNode' = IF pod[c] # NoPod THEN [podByNode EXCEPT ![n] = pod[c]] ELSE podByNode
    /\ lookups' = IF pod[c] # NoPod THEN [lookups EXCEPT ![n] = NoCaller] ELSE lookups
    /\ pod' = [d \in Callers |-> IF d \in FollowersOf(c) THEN pod[c] ELSE pod[d]]
    /\ waitsFor' = [d \in Callers |-> IF d \in FollowersOf(c) THEN NoCaller ELSE waitsFor[d]]
    /\ Move(c, After(pod[c]))
    /\ UNCHANGED <<ended, live, everLive>>

(***************************************************************************)
(* podForNode, second critical section.  Closing done makes the answer     *)
(* readable by every follower; each still decides for itself when to look  *)
(* (Wake), and may find its own context ended instead.                     *)
(***************************************************************************)
Publish(c) ==
    LET n == NodeOf[c] IN
    /\ at[c] = "publishing"
    /\ podByNode' = IF pod[c] # NoPod THEN [podByNode EXCEPT ![n] = pod[c]] ELSE podByNode
    /\ lookups' = [lookups EXCEPT ![n] = NoCaller]
    /\ pod' = [d \in Callers |-> IF d \in FollowersOf(c) THEN pod[c] ELSE pod[d]]
    /\ waitsFor' = [d \in Callers |-> IF d \in FollowersOf(c) THEN NoCaller ELSE waitsFor[d]]
    /\ Move(c, After(pod[c]))
    /\ UNCHANGED <<ended, live, everLive>>

Wake(c) ==
    /\ at[c] = "following"
    /\ waitsFor[c] = NoCaller
    /\ Move(c, After(pod[c]))
    /\ UNCHANGED <<pod, lookups, waitsFor, podByNode, ended, live, everLive>>

GiveUp(c) ==
    /\ at[c] = "following"
    /\ ContextOf[c] \in ended
    /\ Move(c, "failed")
    /\ Told(c, NoPod)
    /\ waitsFor' = [waitsFor EXCEPT ![c] = NoCaller]
    /\ UNCHANGED <<lookups, podByNode, ended, live, everLive>>

\* StreamWithContext: it needs the pod to be there still, and may fail anyway.
Exec(c) ==
    /\ at[c] = "exec"
    /\ \E p \in {"done", "failed"} :
          /\ p = "done" => live[NodeOf[c]] = pod[c]
          /\ Move(c, p)
    /\ Told(c, NoPod)
    /\ UNCHANGED <<lookups, waitsFor, podByNode, ended, live, everLive>>

\* The caller runs its next command, as checkDevicePlugin does.
Again(c) ==
    /\ at[c] \in {"done", "failed"}
    /\ Move(c, "idle")
    /\ UNCHANGED <<pod, lookups, waitsFor, podByNode, ended, live, everLive>>

Cancel(x) ==
    /\ x \notin ended
    /\ ended' = ended \cup {x}
    /\ UNCHANGED <<at, pod, lookups, waitsFor, podByNode, live, everLive>>

\* The daemon set replaces the pod of a node, or loses it.
Replace(n) ==
    \E p \in (Pods \cup {NoPod}) \ {live[n]} :
        /\ live' = [live EXCEPT ![n] = p]
        /\ everLive' = [everLive EXCEPT ![n] = @ \cup ({p} \ {NoPod})]
        /\ UNCHANGED <<at, pod, lookups, waitsFor, podByNode, ended>>

Run(c) == \/ CacheHit(c) \/ Follow(c) \/ Lead(c) \/ Discover(c) \/ Publish(c)
          \/ Wake(c) \/ GiveUp(c) \/ Exec(c)

ExecNext == \/ \E c \in Callers : Run(c) \/ Again(c)
            \/ \E x \in Contexts : Cancel(x)
            \/ \E n \in Nodes : Replace(n)

ExecSpec == ExecInit /\ [][ExecNext]_execVars
-------------------------------------------------------------------------------
ExecTypeOK ==
    /\ at \in [Callers -> Places]
    /\ pod \in [Callers -> Pods \cup {NoPod}]
    /\ lookups \in [Nodes -> Callers \cup {NoCaller}]
    /\ waitsFor \in [Callers -> Callers \cup {NoCaller}]
    /\ podByNode \in [Nodes -> Pods \cup {NoPod}]
    /\ ended \subseteq Contexts
    /\ live \in [Nodes -> Pods \cup {NoPod}]
    /\ everLive \in [Nodes -> SUBSET Pods]

LookingUp(c) == at[c] \in {"leading", "publishing"}

(***************************************************************************)
(* podForNode: the pods of a node are listed by one caller at a time, the  *)
(* one e.lookups names, and nobody waits for a lookup that is no longer    *)
(* there to be finished.                                                   *)
(***************************************************************************)
SharedLookup ==
    /\ \A c \in Callers : LookingUp(c) <=> lookups[NodeOf[c]] = c
    /\ \A c \in Callers : at[c] = "following" /\ waitsFor[c] # NoCaller =>
          lookups[NodeOf[c]] = waitsFor[c]

(***************************************************************************)
(* podForNode, Run: a command is only ever sent to a pod that discovery    *)
(* saw on that caller's own node; an error is never kept as an answer, and *)
(* a follower of another node's lookup does not exist.                     *)
(***************************************************************************)
RunsWhereItWasFound ==
    /\ \A c \in Callers : at[c] = "exec" => pod[c] \in everLive[NodeOf[c]]
    /\ \A n \in Nodes : podByNode[n] # NoPod => podByNode[n] \in everLive[n]

(***************************************************************************)
(* podForNode: the pod of a node is decided once.  Later lookups, that may *)
(* have seen another pod, never replace an answer others already use.      *)
(***************************************************************************)
CacheIsWrittenOnce ==
    [][\A n \in Nodes : podByNode[n] # NoPod => podByNode'[n] = podByNode[n]]_execVars
===============================================================================
