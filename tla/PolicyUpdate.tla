---------------------------- MODULE PolicyUpdate ----------------------------
(***************************************************************************)
(* rayctl policy update (cmd/policy.go, internal/service/                  *)
(* policy_service.go): the VC's control-plane namespace is excluded from   *)
(* every target rule of a ClusterPolicy.  The object is read, changed and  *)
(* written back whole; the API server compares its resourceVersion.        *)
(***************************************************************************)
EXTENDS Command

CONSTANTS
  Rules,    \* rules a ClusterPolicy may have
  VCs,
  MyVC      \* the VC of the command

ASSUME PolicyAssumption == MyVC \in VCs

ClusterPolicy(rules, version) == [is |-> "clusterpolicy", rules |-> rules, version |-> version]

\* The exclusions of each rule the policy has.
RuleSets == UNION {[names -> SUBSET VCs] : names \in SUBSET Rules}

PolicyInit ==
  /\ command = "policy update"
  /\ \E targets \in (SUBSET Rules) \ {{}} : args = [rules |-> targets]
  /\ \E rules \in RuleSets : store = Just("policy", ClusterPolicy(rules, 0))

\* ensureClusterPolicyExclusion: a change of all target rules, or of none.
Excluded(rules) ==
  [r \in DOMAIN rules |-> IF r \in args.rules THEN rules[r] \cup {MyVC} ELSE rules[r]]

Exclude == [op |-> "exclude", vc |-> MyVC]

ReadPolicy ==
  /\ At("policy update", "prepare")
  /\ LET rules == store["policy"].rules IN
     \/ ~(args.rules \subseteq DOMAIN rules) /\ Stop("error")
     \/ /\ args.rules \subseteq DOMAIN rules
        /\ IF Excluded(rules) = rules
             THEN Stop("already present")
             ELSE Proceed({Exclude}, store)

NoConflict == FALSE   \* mutant: the object is written without its version

\* The API server refuses an object that is not the one it holds.
Conflict == store["policy"].version # plan.shown["policy"].version

WritePolicy ==
  /\ At("policy update", "apply")
  /\ IF Conflict
       THEN Rejected(Exclude)
       ELSE LET read == plan.shown["policy"] IN
            Send(Exclude, Just("policy", ClusterPolicy(Excluded(read.rules), read.version + 1)),
                 "error", Finish("updated") /\ UNCHANGED plan)

PolicySteps == ReadPolicy \/ WritePolicy

PolicyOthers ==
  /\ command = "policy update"
  /\ \E rules \in RuleSets :
       Touch("policy", ClusterPolicy(rules, store["policy"].version + 1))

PolicyReport ==
  outcome \in {"updated", "already present"} /\ command = "policy update" =>
    \A r \in args.rules : MyVC \in store["policy"].rules[r]

\* Whatever others put into the policy while this command had it in its hands
\* stays: no step of the command takes an exclusion or a rule away.
NoExclusionIsLost ==
  [][command = "policy update" /\ sent' # sent =>
       \A r \in DOMAIN store["policy"].rules :
         /\ r \in DOMAIN store'["policy"].rules
         /\ store["policy"].rules[r] \subseteq store'["policy"].rules[r]]_vars
=============================================================================
