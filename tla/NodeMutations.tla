--------------------------- MODULE NodeMutations ---------------------------
(***************************************************************************)
(* rayctl node cordon and node uncordon (cmd/node.go,                      *)
(* internal/service/node_service.go): one merge patch per argument, up to  *)
(* four at a time, without a question.  Arguments that name the same node  *)
(* are a patch each.  A patch sets spec.unschedulable and the repair label *)
(* together; every argument has its own result.                            *)
(***************************************************************************)
EXTENDS Command

CONSTANTS
  K8sNodes,
  NodeArgs,    \* what the user may type
  NodeNamed,   \* the node name that is normalised to
  MaxArgs      \* bound on the arguments

ASSUME NodeMutationAssumption == NodeNamed \in [NodeArgs -> K8sNodes] /\ MaxArgs \in Nat

Node(unschedulable, repair) ==
  [is |-> "node", unschedulable |-> unschedulable, repair |-> repair]

MutationInit ==
  /\ command = "node mutate"
  /\ \E action \in {"cordon", "uncordon"}, count \in 1..MaxArgs :
       \E names \in [1..count -> NodeArgs] : args = [action |-> action, names |-> names]
  /\ store \in [K8sNodes -> {Absent, Node(TRUE, TRUE), Node(FALSE, FALSE)}]

Patched == Node(args.action = "cordon", args.action = "cordon")
Failed == [is |-> "error"]

\* The patch of the argument at a position.
Patch(i) == [op |-> "patch", as |-> i, node |-> NodeNamed[args.names[i]], to |-> Patched]

StartPatches ==
  /\ At("node mutate", "prepare")
  /\ Proceed({Patch(i) : i \in DOMAIN args.names}, << >>)

\* The answers, one per argument: the node as it was after the patch, or an error.
PatchNode ==
  /\ At("node mutate", "apply")
  /\ \E w \in plan.writes \ Range(sent) :
       LET answered(result) == plan' = [plan EXCEPT !.shown = With(@, w.as, result)]
       IN  /\ sent' = Append(sent, w)
           /\ \/ /\ store[w.node] # Absent
                 /\ store' = [store EXCEPT ![w.node] = w.to] /\ answered(w.to)
              \/ /\ store' \in {store, [store EXCEPT ![w.node] = IF @ = Absent THEN @ ELSE w.to]}
                 /\ answered(Failed)
  /\ UNCHANGED <<input, pc, touched, agreed, outcome>>

\* All workers have returned: the table of the nodes that answered, and the errors.
PatchesEnd ==
  /\ At("node mutate", "apply") /\ plan.writes \subseteq Range(sent)
  /\ Stop(IF \E i \in DOMAIN args.names : plan.shown[i] = Failed THEN "some failed" ELSE "patched")

MutationSteps == StartPatches \/ PatchNode \/ PatchesEnd

\* Another cordon or uncordon, or the node goes away.
MutationOthers ==
  /\ command = "node mutate"
  /\ \E node \in K8sNodes, v \in {Absent, Node(TRUE, TRUE), Node(FALSE, FALSE)} :
       Touch(node, v)

\* However patches of several clients meet, a node that takes no pods is marked
\* for repair and no other is; and when every node is reported as patched, it is.
MutationReport ==
  command = "node mutate" =>
    /\ \A node \in K8sNodes : store[node] # Absent => store[node].unschedulable = store[node].repair
    /\ outcome = "patched" =>
         \A i \in DOMAIN args.names :
           LET node == NodeNamed[args.names[i]] IN node \in touched \/ store[node] = Patched
=============================================================================
