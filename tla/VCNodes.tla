------------------------------ MODULE VCNodes ------------------------------
(***************************************************************************)
(* rayctl vc node add and vc node remove (cmd/vc.go, internal/service/     *)
(* vc_service.go, internal/platform/ai_compute_node_client.go): compute    *)
(* nodes of a subscription are bound to a VC.  The platform accepts an     *)
(* addition and binds the nodes later, one by one, or never.               *)
(***************************************************************************)
EXTENDS Command

CONSTANTS
  ACNs,        \* compute nodes, bare-metal ones included
  NodeNames,   \* what the user may type
  NodesCalled, \* the nodes one of whose names, ids or addresses is that
  Usable       \* those in the VC's subscription and region, RUNNING or ERROR

ASSUME NodesAssumption ==
  /\ NodesCalled \in [NodeNames -> SUBSET ACNs]
  /\ Usable \subseteq ACNs

\* vc: "" is unassigned, "this" the VC of the command.
ACN(vc, accepted) == [is |-> "acn", vc |-> vc, accepted |-> accepted]
Owners == {"", "this", "other"}

NodesInit ==
  /\ command \in {"vc node add", "vc node remove"}
  /\ store \in [ACNs -> {ACN(vc, FALSE) : vc \in Owners}]
  /\ \E names \in (SUBSET NodeNames) \ {{}} : args = [names |-> names]

InVC == {n \in ACNs : store[n].vc = "this"}

\* resolveVCNodesForAddition, resolveVCNodesForRemoval: every name has to match
\* exactly one of the nodes the list shows; two names may match the same.
EachMatchesOne(nodes) ==
  \A name \in args.names : Cardinality(NodesCalled[name] \cap nodes) = 1
Selected(nodes) == UNION {NodesCalled[name] \cap nodes : name \in args.names}

Add(nodes) == [op |-> "add", nodes |-> nodes]
Remove(nodes) == [op |-> "remove", nodes |-> nodes]
Shown(nodes) == [n \in nodes |-> store[n]]

PrepareNodeAdd ==
  /\ At("vc node add", "prepare")
  /\ LET nodes == Selected(Usable) IN
     IF EachMatchesOne(Usable) /\ \A n \in nodes : store[n].vc = ""
       THEN Present({Add(nodes)}, Shown(nodes))
       ELSE Stop("error")

\* The platform accepts nodes only while they are unassigned.
ApplyNodeAdd ==
  /\ At("vc node add", "apply")
  /\ \E w \in plan.writes :
       IF \E n \in w.nodes : store[n].vc # ""
         THEN Rejected(w)
         ELSE Send(w, [n \in ACNs |-> IF n \in w.nodes THEN ACN("", TRUE) ELSE store[n]],
                   "error", Goto("look") /\ UNCHANGED plan)

\* Mutant: one bound node stands for all.
LookAtSome ==
  /\ At("vc node add", "look")
  /\ \E w \in plan.writes :
       IF w.nodes \cap InVC # {} THEN Stop("added") ELSE Stop("submitted")

\* Mutant: the command waits for the binding.
LookUntilBound ==
  /\ At("vc node add", "look")
  /\ \A w \in plan.writes : w.nodes \subseteq InVC
  /\ Stop("added")

\* One look at the nodes of the VC; a list that fails says nothing.
LookAtBinding ==
  /\ At("vc node add", "look")
  /\ \/ Stop("submitted")
     \/ /\ \A w \in plan.writes : w.nodes \subseteq InVC
        /\ Stop("added")

PrepareNodeRemove ==
  /\ At("vc node remove", "prepare")
  /\ IF EachMatchesOne(InVC)
       THEN Present({Remove(Selected(InVC))}, Shown(Selected(InVC)))
       ELSE Stop("error")

\* The request names the VC: nodes that have left it meanwhile stay where they are.
ApplyNodeRemove ==
  /\ At("vc node remove", "apply")
  /\ \E w \in plan.writes :
       Send(w, [n \in ACNs |-> IF n \in w.nodes \cap InVC THEN ACN("", FALSE) ELSE store[n]],
            "error", Finish("removed") /\ UNCHANGED plan)

NodeSteps == PrepareNodeAdd \/ ApplyNodeAdd \/ LookAtBinding \/ PrepareNodeRemove \/ ApplyNodeRemove

\* The platform binds an accepted node.
BindNode ==
  /\ command = "vc node add" /\ pc # "end"
  /\ \E n \in ACNs : /\ store[n].accepted
                     /\ store' = [store EXCEPT ![n] = ACN("this", FALSE)]
  /\ UNCHANGED <<input, pc, plan, touched, consent, outcome>>

NodeOthers ==
  /\ command \in {"vc node add", "vc node remove"}
  /\ \E n \in ACNs, vc \in Owners : Touch(n, ACN(vc, FALSE))

\* "added" is said only of nodes that are all bound, "removed" only of nodes
\* that have left; "submitted" only when the platform has the request.
NodeReport ==
  command \in {"vc node add", "vc node remove"} =>
  LET nodes == UNION {w.nodes : w \in plan.writes} IN
  /\ outcome = "added" => nodes # {} /\ nodes \subseteq InVC
  /\ outcome = "submitted" =>
       \A n \in nodes : store[n].accepted \/ n \in InVC \cup touched
  /\ outcome = "removed" => nodes # {} /\ nodes \cap InVC = {}
=============================================================================
