----------------------------- MODULE RBACGrants -----------------------------
(***************************************************************************)
(* rayctl rbac grant and rbac remove (cmd/rbac.go, internal/service/       *)
(* rbac_service.go): (Cluster)RoleBindings of a VC.  The commands see only *)
(* bindings with the platform's control label; a binding is created under  *)
(* a generated name and deleted under the name the user gives.             *)
(***************************************************************************)
EXTENDS Command

CONSTANTS
  Members,      \* users and groups
  MemberNames,  \* what --user and --group may say
  MatchesOf,    \* the members whose name or id is exactly that
  RBACRoles,
  Bindings,     \* names of bindings
  FreshBinding  \* the name the API server will generate

ASSUME RBACAssumption ==
  /\ MatchesOf \in [MemberNames -> SUBSET Members]
  /\ FreshBinding \notin Bindings

Binding(role, subjects, controlled) ==
  [is |-> "binding", role |-> role, subjects |-> subjects, controlled |-> controlled]

BindingValues ==
  {Absent} \cup {Binding(r, s, c) : r \in RBACRoles, s \in (SUBSET Members) \ {{}}, c \in BOOLEAN}

RBACInit ==
  /\ store \in [Bindings -> BindingValues]
  /\ \/ /\ command = "rbac grant"
        /\ \E r \in RBACRoles, n \in (SUBSET MemberNames) \ {{}} :
             args = [role |-> r, names |-> n]
     \/ /\ command = "rbac remove"
        /\ \E b \in Bindings : args = [name |-> b]

\* The labelSelector of every list.
Controlled == {b \in DOMAIN store : store[b].is = "binding" /\ store[b].controlled}

Holders(bindings, role) ==
  UNION {store[b].subjects : b \in {c \in bindings : store[c].role = role}}

Unambiguous == \A n \in args.names : Cardinality(MatchesOf[n]) = 1
Requested == UNION {MatchesOf[n] : n \in args.names}
Pending == Requested \ Holders(Controlled, args.role)

Bind(role, subjects) == [op |-> "bind", role |-> role, subjects |-> subjects]
Unbind(name) == [op |-> "unbind", name |-> name]

PrepareGrant ==
  /\ At("rbac grant", "prepare")
  /\ \/ ~Unambiguous /\ Stop("error")
     \/ Unambiguous /\ Pending = {} /\ Stop("already granted")
     \/ Unambiguous /\ Pending # {} /\ Present({Bind(args.role, Pending)}, << >>)

ApplyGrant ==
  /\ At("rbac grant", "apply")
  /\ \E w \in plan.writes :
       Send(w, With(store, FreshBinding, Binding(w.role, w.subjects, TRUE)),
            "error", Finish("created") /\ UNCHANGED plan)

PrepareRemove ==
  /\ At("rbac remove", "prepare")
  /\ \/ args.name \notin Controlled /\ Stop("error")
     \/ args.name \in Controlled
        /\ Present({Unbind(args.name)}, Just(args.name, store[args.name]))

ApplyRemove ==
  /\ At("rbac remove", "apply")
  /\ IF store[args.name] = Absent
       THEN Rejected(Unbind(args.name))
       ELSE Send(Unbind(args.name), [store EXCEPT ![args.name] = Absent],
                 "error", Finish("deleted") /\ UNCHANGED plan)

RBACSteps == PrepareGrant \/ ApplyGrant \/ PrepareRemove \/ ApplyRemove

\* What others do to bindings.
RBACOthers ==
  /\ command \in {"rbac grant", "rbac remove"}
  /\ \E b \in Bindings, v \in BindingValues : Touch(b, v)

\* Whoever was granted the role has it, and so does everybody else the
\* arguments name, unless others changed bindings meanwhile; a deleted binding
\* is gone.
RBACReport ==
  /\ command = "rbac grant" =>
       LET holders == Holders(Controlled, args.role)
           granted == UNION {w.subjects : w \in Range(sent)}
       IN  /\ outcome = "already granted" => Requested \subseteq holders
           /\ outcome = "created" =>
                \A m \in Requested : m \in holders \/ (m \notin granted /\ touched # {})
  /\ command = "rbac remove" /\ outcome = "deleted" => store[args.name] = Absent
=============================================================================
