------------------------------ MODULE NodeLists ------------------------------
(***************************************************************************)
(* What is said of the nodes (cmd/node.go; internal/service: node_service, *)
(* node_usage, node_workloads, ssp_resource_service): what a node is used  *)
(* for, which nodes the queues of a workspace have, and which pods run on  *)
(* a node, while the node moves from queue to queue and pods come and go.  *)
(* One node stands for all; the parts are read at the same time.           *)
(***************************************************************************)
EXTENDS Naturals, FiniteSets

CONSTANT Moves    \* of the node, or of its pods, while a command runs

ASSUME MovesAssumption == Moves \in Nat

VARIABLES
  view,     \* the command, and the usage that node list is asked for
  label,    \* how the node tells which VC it is in
  sources,  \* the SSP clusters that say they have the VC of this name
  standing, \* the queue the node is in, and what the cache of the VC says
  visited,  \* the queues it has been in since the command began
  pods,     \* namespaces in which a pod runs on it, has run, and has always run
  state,    \* of the command
  told,     \* by each queue or namespace: is the node, or the pod, there?
  moves

nodeVars == <<view, label, sources, standing, visited, pods, state, told, moves>>

\* The queues of the workspace; 3 is of another one, and 0 is none.
Queues == 1 .. 2
Elsewhere == 3
Namespaces0 == 1 .. 2

Views == {"list", "scope", "usage", "get"}
Targets == {"any", "SSP", "ECP"}

\* A cluster on this VC, on one that was deleted and had its name, or on another
\* tenant's; it may tell the UID of its VC, or only the name.
Clusters == [of : {"this", "deleted", "other"}, uid : BOOLEAN, active : BOOLEAN]

Still == [at |-> 0, cached |-> 0, crowd |-> {}, elastic |-> FALSE]

Scoped == view.command \in {"scope", "usage"}
OneNode == view.command = "get"

NodeInit ==
  /\ view \in [command : Views, target : Targets]
  /\ view.command # "list" => view.target = "any"
  /\ label \in {"uid", "name", "none"}
  /\ view.command = "list" => label # "none"
  /\ Scoped => label = "uid"
  /\ sources \in {S \in SUBSET Clusters : Cardinality(S) <= 2}
  /\ view.command # "list" => sources = {}
  /\ standing \in [at : 0 .. Elsewhere, cached : 0 .. Elsewhere,
                crowd : SUBSET Queues, elastic : BOOLEAN]
  /\ ~Scoped => standing = Still
  /\ \E run \in SUBSET Namespaces0 : pods = [now |-> run, ever |-> run, always |-> run]
  /\ view.command # "get" => pods.now = {}
  /\ visited = {standing.at, standing.cached}
  /\ state = "begin" /\ told = [q \in Queues |-> "open"] /\ moves = 0

Same == UNCHANGED <<view, label, sources, standing, visited, pods, moves>>

Fail == state' = "failed" /\ UNCHANGED told /\ Same
-----------------------------------------------------------------------------
(***************************************************************************)
(* EnrichNodeListUsage: the SSP clusters on the VC that the node is in.  A *)
(* name stands for a VC only if no two clusters mean different ones by it. *)
(***************************************************************************)
Active == {c \in sources : c.active}

\* nodeUsageAmbiguousSourceNames.
Identity(c) == IF c.uid THEN c.of ELSE IF c.of = "other" THEN "its profile" ELSE "this profile"

Ambiguous == Cardinality({Identity(c) : c \in Active}) > 1

\* A UID is authoritative, also if it differs; what is only called so is not.
Matches(c) ==
  \/ label = "uid" /\ c.uid /\ c.of = "this"
  \/ (label = "uid" => ~c.uid) /\ ~Ambiguous

UsageOfNode == IF \E c \in Active : Matches(c) THEN "SSP" ELSE "ECP"

\* Without the clusters the labels have to do, but not if the usage decides.
ListNodes ==
  /\ view.command = "list" /\ state = "begin"
  /\ \E clusters \in {"read", "failed"} :
       state' = CASE clusters = "read" -> UsageOfNode
                  [] clusters = "failed" /\ view.target # "any" -> "failed"
                  [] clusters = "failed" /\ view.target = "any" -> "guessed"
  /\ UNCHANGED told /\ Same

ListedAs == IF state \in {"SSP", "ECP"} /\ view.target \in {"any", state} THEN state ELSE "none"
-----------------------------------------------------------------------------
(***************************************************************************)
(* ListWorkspaceNodes, ListClusterNodes, GetWorkspaceNodeUsage.            *)
(***************************************************************************)
\* The queues are required.  Where they are is not: without it an elastic queue
\* has no pool.
QueuesOfWorkspace ==
  /\ Scoped /\ state = "begin"
  /\ state' \in {"parts", "parts, not located"}
  /\ UNCHANGED told /\ Same

\* The VC's own nodes come from its cache, unless it has none of this queue.
FromCache(q) ==
  IF standing.cached = q THEN {"here"} ELSE IF q \in standing.crowd THEN {"not here"} ELSE {}

FromPlatform(q) == {IF standing.at = q THEN "here" ELSE "not here", "failed"}

\* A pool is that of the whole VC.
Shares(q) == standing.elastic /\ q = 2 /\ state = "parts"

QueueAnswers(q) ==
  IF Shares(q) THEN {"here", "failed"}
  ELSE IF view.command = "scope" /\ FromCache(q) # {}
       THEN FromCache(q) \cup FromPlatform(q)    \* the VC may be out of reach
       ELSE FromPlatform(q)

ReadQueue(q) ==
  /\ Scoped /\ state \in {"parts", "parts, not located"} /\ told[q] = "open"
  /\ \E a \in QueueAnswers(q) : told' = [told EXCEPT ![q] = a]
  /\ UNCHANGED state /\ Same

AllTold == \A q \in DOMAIN told : told[q] # "open"

\* collectQueueNodes: what fails is left out with a warning, but an empty list is
\* none if something failed.
NothingLeft ==
  \A q \in Queues : told[q] = "failed" \/ (told[q] = "not here" /\ q \notin standing.crowd)

Collected ==
  CASE \A q \in Queues : told[q] # "failed" -> "whole"
    [] \A q \in Queues : told[q] = "failed" -> "failed"
    [] OTHER -> IF view.command = "scope" /\ NothingLeft THEN "failed" ELSE "warned"

CollectQueueNodes ==
  /\ Scoped /\ state \in {"parts", "parts, not located"} /\ AllTold
  /\ state' = Collected
  /\ UNCHANGED told /\ Same

\* The node moves, and the cache follows.
NodeMoves ==
  /\ Scoped /\ state \in {"begin", "parts", "parts, not located"} /\ moves < Moves
  /\ \/ \E q \in 0 .. Elsewhere :
          /\ standing' = [standing EXCEPT !.at = q]
          /\ moves' = moves + 1
     \/ standing' = [standing EXCEPT !.cached = standing.at] /\ UNCHANGED moves
  /\ standing' # standing
  /\ visited' = visited \cup {standing'.at}
  /\ UNCHANGED <<view, label, sources, pods, state, told>>
-----------------------------------------------------------------------------
(***************************************************************************)
(* Describe: the pods on the node, by the namespaces of its VC, or, if     *)
(* these are not known here, by all there are.                             *)
(***************************************************************************)
\* A node that tells its VC has users' pods, also if its namespaces cannot be read,
\* or if it tells nothing that leads to them.
HasUserWorkloadScope == label # "none"

NamespacesOfNode ==
  /\ OneNode /\ state = "begin"
  /\ state' \in (IF label = "name" THEN {"namespaces"} ELSE {})
                \cup {IF HasUserWorkloadScope THEN "visible" ELSE "whole"}
  /\ told' = [n \in Namespaces0 |-> IF state' = "whole" THEN "not here" ELSE "open"]
  /\ Same

PodsIn(n) == IF n \in pods.now THEN "here" ELSE "not here"

ReadNamespace(n) ==
  /\ OneNode /\ state = "namespaces" /\ told[n] = "open"
  /\ \E a \in {PodsIn(n), "failed"} : told' = [told EXCEPT ![n] = a]
  /\ UNCHANGED state /\ Same

ReadVisible ==
  /\ OneNode /\ state = "visible"
  /\ told' = [n \in Namespaces0 |-> PodsIn(n)] /\ state' = "whole"
  /\ Same

\* The namespaces are read at once, and all of them are waited for; one that fails
\* fails the command.
EndGet ==
  /\ OneNode /\ state = "namespaces" /\ AllTold
  /\ state' = IF \E n \in Namespaces0 : told[n] = "failed" THEN "failed" ELSE "whole"
  /\ UNCHANGED told /\ Same

PodChanges ==
  /\ OneNode /\ state \in {"begin", "namespaces", "visible"} /\ moves < Moves
  /\ \E n \in Namespaces0 :
       LET now == IF n \in pods.now THEN pods.now \ {n} ELSE pods.now \cup {n}
       IN pods' = [now |-> now, ever |-> pods.ever \cup now,
                   always |-> pods.always \cap now]
  /\ moves' = moves + 1
  /\ UNCHANGED <<view, label, sources, standing, visited, state, told>>
-----------------------------------------------------------------------------
\* A reading fails, or the command is interrupted.
Interrupted ==
  /\ state \in {"begin", "parts", "parts, not located", "namespaces", "visible"}
  /\ Fail

NodeStep ==
  \/ ListNodes \/ QueuesOfWorkspace \/ CollectQueueNodes
  \/ \E q \in Queues : ReadQueue(q)
  \/ NamespacesOfNode \/ ReadVisible \/ EndGet
  \/ \E n \in Namespaces0 : ReadNamespace(n)
  \/ Interrupted

NodeNext == NodeStep \/ NodeMoves \/ PodChanges
-----------------------------------------------------------------------------
\* "A source VC UID takes precedence over a name so a recreated VC cannot inherit
\* stale usage": where the UIDs are told, a node is used by SSP exactly if an
\* active cluster is on its VC, and nobody else's name makes it so; a name that
\* two VCs have decides nothing.
InUse == {c \in sources : c.active}

UsageIsItsOwn ==
  view.command = "list" /\ ListedAs # "none" =>
    /\ label = "uid" /\ (\A c \in InUse : c.uid) =>
         (ListedAs = "SSP" <=> \E c \in InUse : c.of = "this")
    /\ label = "name" /\ (\A c \in InUse : c.uid) /\ ListedAs = "SSP" =>
         Cardinality({c.of : c \in InUse}) = 1

\* A node is shown with the queues it has been in meanwhile, or whose pool it is in;
\* and one that was all the while in a queue of the workspace is hidden only with a
\* warning.
Row == {q \in Queues : told[q] = "here"}

QueuesAreItsOwn ==
  Scoped /\ state \in {"whole", "warned"} =>
    /\ \A q \in Row : q \in visited \/ (standing.elastic /\ q = 2)
    /\ state = "whole" /\ visited \subseteq Queues /\ Cardinality(visited) = 1 => Row # {}
    \* the empty list of a workspace that was not read is no answer
    /\ state = "warned" /\ view.command = "scope" => ~NothingLeft

\* The pods of a node are those that have run meanwhile, and no one is missing that
\* has run all the time.
PodsAreThere ==
  OneNode /\ state = "whole" /\ label # "none" =>
    pods.always \subseteq Row /\ Row \subseteq pods.ever
=============================================================================
