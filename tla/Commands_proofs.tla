------------------------------ MODULE Commands_proofs ------------------------------
(***************************************************************************)
(* Theorems about Commands, for any members, roles, policies, nodes, rules *)
(* and any number of changes by others: every command keeps the promise of *)
(* ConfirmedWrite, what it reports is so, and two of them destroy nothing  *)
(* that is not theirs.                                                     *)
(***************************************************************************)
EXTENDS Commands, FiniteSetTheorems, WellFoundedInduction, TLAPS

OpenPlaces == {"prepare", "ask", "yaml", "confirm"}
AgreedPlaces == {"apply", "create", "verify", "delete", "add", "look", "pay"}
NothingResults == {"dry-run", "cancelled", "already granted", "already present", "not found"}

\* The commands that resolve their names again after the answer.
AuthCommands == {"auth grant", "auth remove", "auth ssp grant"}

-----------------------------------------------------------------------------
(***************************************************************************)
(* The requests a command is going to send, and those it has sent.         *)
(***************************************************************************)
Planned(requests) ==
  pc \in {"confirm", "apply", "create", "delete", "add", "pay"} => plan.writes = requests

ConsentInv ==
  /\ pc \in OpenPlaces \cup AgreedPlaces \cup {"end"}
  /\ pc # "end" => outcome = ""
  /\ pc \in OpenPlaces => sent = << >> /\ agreed = {}
  /\ pc = "confirm" => plan.writes # {}
  /\ pc \in AgreedPlaces => agreed = plan.writes
  /\ pc \in {"apply", "create", "delete", "add"} /\ command # "node mutate" => sent = << >>
  /\ pc = "pay" => sent = <<Create>>
  /\ command = "node mutate" => DOMAIN args.names # {} /\ pc \in {"prepare", "apply", "end"}
  /\ command = "rbac remove" => Planned({Unbind(args.name)})
  /\ command = "policy update" => Planned({Exclude})
  /\ command = "afs create" => Planned({Create, Pay})

(***************************************************************************)
(* auth: the request that was shown, and the one the names were resolved   *)
(* to last.  As long as others change nothing, each is what a look at the  *)
(* service still finds.                                                    *)
(***************************************************************************)
GrantAsk ==
  command = "auth grant" =>
    /\ pc \in {"confirm", "apply", "create"} =>
         \E s \in Scopes : plan.writes = {Grant(s)} /\ (touched = {} => s \in Found)
    /\ pc = "create" /\ touched = {} => plan.scope \in Found

RemoveAsk ==
  command = "auth remove" =>
    /\ pc \in {"confirm", "apply", "delete"} =>
         \E s \in Scopes : \E p :
           /\ plan.writes = {Revoke(p, s)}
           /\ touched = {} => s \in Found /\ p = FirstOf(Removable(s))
    /\ pc = "delete" /\ touched = {} =>
         plan.scope \in Found /\ plan.id = FirstOf(Removable(plan.scope))

SSPAsk ==
  command = "auth ssp grant" =>
    /\ pc \in {"confirm", "apply", "add"} =>
         \E w \in Workspaces : \E roles :
           /\ plan.writes = {AddMember(w, roles)}
           /\ touched = {} => w \in WorkspacesFound /\ roles = SelectedRoles(w)
    /\ pc = "add" /\ touched = {} =>
         plan.workspace \in WorkspacesFound /\ plan.roles = SelectedRoles(plan.workspace)

AskInv == GrantAsk /\ RemoveAsk /\ SSPAsk

(***************************************************************************)
(* rbac: what the command leaves out, others held already; only a change   *)
(* of theirs can make the difference.                                      *)
(***************************************************************************)
\* Who has the role of the arguments.
Having == Holders(Controlled, args.role)

GrantInv ==
  command = "rbac grant" =>
    /\ pc # "end" => DOMAIN store = Bindings
    /\ pc \in {"confirm", "apply"} =>
         \E S \in SUBSET Requested :
           /\ plan.writes = {Bind(args.role, S)}
           /\ \A m \in Requested \ S : m \in Having \/ touched # {}

UnbindInv ==
  command = "rbac remove" => args.name \in Bindings /\ DOMAIN store = Bindings

RBACInv == GrantInv /\ UnbindInv /\ RBACReport

(***************************************************************************)
(* auth: an answer that was taken for "created" stands for a policy nobody *)
(* else knows the id of; a policy that is going to be deleted gave the     *)
(* role, or others have changed it.                                        *)
(***************************************************************************)
Resources == Policies \cup Scopes

AuthGrantInv ==
  command = "auth grant" =>
    /\ DOMAIN store = IF pc \in {"verify", "end"} /\ FreshPolicy \in DOMAIN store
                        THEN Resources \cup {FreshPolicy} ELSE Resources
    /\ pc \in {"create", "verify"} =>
         plan = [writes |-> plan.writes, shown |-> plan.shown,
                 scope |-> plan.scope, id |-> plan.id, reply |-> plan.reply]
    /\ pc \in {"create", "verify"} => plan.scope \in Scopes /\ plan.reply \notin NothingResults
    /\ pc = "verify" /\ plan.reply \in {"created", "already exists"} =>
         FreshPolicy \in DOMAIN store /\ store[FreshPolicy] = Policy(plan.scope, {args.role})

AuthRemoveInv ==
  command = "auth remove" =>
    /\ DOMAIN store = Resources
    /\ pc = "delete" =>
         /\ plan.id \in Policies
         /\ plan.id \in touched \/ args.role \in store[plan.id].roles

AuthInv == AuthGrantInv /\ AuthRemoveInv /\ AuthReport

(***************************************************************************)
(* auth ssp grant: the roles resolved last, one for each name.             *)
(***************************************************************************)
SSPInv ==
  /\ command = "auth ssp grant" =>
       /\ DOMAIN store = Workspaces
       /\ pc = "add" => plan.workspace \in Workspaces
            /\ \A n \in args.names : RolesCalled[n] \cap plan.roles # {}
  /\ SSPReport

(***************************************************************************)
(* vc node: the platform holds every node of a request it has accepted,    *)
(* bound or not yet, unless another client took it.                        *)
(***************************************************************************)
NodesInv ==
  /\ command \in {"vc node add", "vc node remove"} =>
       /\ DOMAIN store = ACNs
       /\ args.names # {}
       /\ pc \in {"confirm", "apply", "look"} =>
            \E N \in (SUBSET ACNs) \ {{}}, op \in {"add", "remove"} :
              plan.writes = {[op |-> op, nodes |-> N]}
       /\ pc = "look" => \A w \in plan.writes : \A n \in w.nodes :
            store[n].accepted \/ n \in InVC \cup touched
  /\ NodeReport

(***************************************************************************)
(* policy update: the object that was read is the one that is held, or an  *)
(* older version of it.                                                    *)
(***************************************************************************)
PolicyInv ==
  /\ command = "policy update" =>
       /\ pc # "confirm"
       /\ DOMAIN store = {"policy"} /\ store["policy"].version \in Nat
       /\ pc = "apply" =>
            LET read == plan.shown["policy"] IN
            /\ args.rules \subseteq DOMAIN read.rules
            /\ read.version \in Nat /\ read.version <= store["policy"].version
            /\ read.version = store["policy"].version => read = store["policy"]
  /\ PolicyReport

(***************************************************************************)
(* afs create: the volume is there with its order open, or in the hands of *)
(* others.                                                                 *)
(***************************************************************************)
AFSInv ==
  /\ command = "afs create" =>
       /\ DOMAIN store = {"volume"}
       /\ pc = "pay" => store["volume"] = Volume("open") \/ "volume" \in touched
  /\ AFSReport

(***************************************************************************)
(* create: the request is for the object whose preview was shown.          *)
(***************************************************************************)
CreateInv ==
  /\ command = "create" /\ pc \in {"confirm", "yaml", "apply"} =>
       \E form \in {plan.shown} : plan.writes = {CreateObject(form)}
  /\ CreateReport

(***************************************************************************)
(* node mutate: both fields of a node are only ever written together, and  *)
(* a node that answered was as it should be until others changed it.       *)
(***************************************************************************)
\* The patches the arguments ask for.
Patches == {Patch(i) : i \in DOMAIN args.names}

MutationInv ==
  /\ command = "node mutate" =>
       /\ DOMAIN store = K8sNodes
       /\ \A i \in DOMAIN args.names : args.names[i] \in NodeArgs
       /\ pc = "apply" =>
            /\ plan = [writes |-> Patches, shown |-> plan.shown]
            /\ sent \in Seq(plan.writes)
            /\ DOMAIN plan.shown = {w.as : w \in Range(sent)}
            /\ \A i \in DOMAIN plan.shown :
                 \/ plan.shown[i] = Failed
                 \/ NodeNamed[args.names[i]] \in touched
                 \/ store[NodeNamed[args.names[i]]] = Patched
  /\ MutationReport

CommandsInv ==
  /\ ConsentInv /\ AskInv /\ RBACInv /\ AuthInv /\ SSPInv /\ NodesInv
  /\ PolicyInv /\ AFSInv /\ CreateInv /\ MutationInv

-----------------------------------------------------------------------------
(***************************************************************************)
(* Every step, by the command that takes it or lets it happen.             *)
(***************************************************************************)
GivesUp ==
  /\ pc # "end" /\ pc' = "end" /\ outcome' \in {"error", "cancelled"}
  /\ outcome' = "cancelled" => pc = "confirm"
  /\ UNCHANGED <<input, plan, world, consent>>

RBACStep == command \in {"rbac grant", "rbac remove"} /\ (RBACSteps \/ RBACOthers)
AuthStep == command \in {"auth grant", "auth remove"} /\ (AuthSteps \/ AuthOthers)
SSPStep == command = "auth ssp grant" /\ (SSPSteps \/ SSPOthers)
NodeStep == command \in {"vc node add", "vc node remove"} /\ (NodeSteps \/ NodeOthers \/ BindNode)
PolicyStep == command = "policy update" /\ (PolicySteps \/ PolicyOthers)
AFSStep == command = "afs create" /\ (AFSSteps \/ AFSOthers)
WizardStep == command = "create" /\ (WizardSteps \/ WizardOthers)
MutationStep == command = "node mutate" /\ (MutationSteps \/ MutationOthers)

LEMMA NextOf ==
  ASSUME Next
  PROVE  \/ Confirm \/ GivesUp
         \/ RBACStep \/ AuthStep \/ SSPStep \/ NodeStep
         \/ PolicyStep \/ AFSStep \/ WizardStep \/ MutationStep
<1> USE DEF At
<1>1. ASSUME User \/ Reads  PROVE Confirm \/ GivesUp
  BY <1>1 DEF User, Decline, Reads, ReadFails, Stop, Finish, GivesUp
<1>2. RBACSteps \/ RBACOthers => RBACStep
  BY DEF RBACStep, RBACSteps, RBACOthers, PrepareGrant, ApplyGrant, PrepareRemove, ApplyRemove
<1>3. AuthSteps \/ AuthOthers => AuthStep
  BY DEF AuthStep, AuthSteps, AuthOthers, PreflightGrant, ResolveGrant, BatchCreate, Verify,
         PreflightRemove, ResolveRemove, DeletePolicy
<1>4. SSPSteps \/ SSPOthers => SSPStep
  BY DEF SSPStep, SSPSteps, SSPOthers, PreflightSSP, ResolveSSP, AddMembers
<1>5. NodeSteps \/ NodeOthers \/ BindNode => NodeStep
  BY DEF NodeStep, NodeSteps, NodeOthers, BindNode, PrepareNodeAdd, ApplyNodeAdd, LookAtBinding,
         PrepareNodeRemove, ApplyNodeRemove
<1>6. PolicySteps \/ PolicyOthers => PolicyStep
  BY DEF PolicyStep, PolicySteps, PolicyOthers, ReadPolicy, WritePolicy
<1>7. AFSSteps \/ AFSOthers => AFSStep
  BY DEF AFSStep, AFSSteps, AFSOthers, PrepareAFS, CreateVolume, PayOrder
<1>8. WizardSteps \/ WizardOthers => WizardStep
  BY DEF WizardStep, WizardSteps, WizardOthers, StartWizard, ParameterMode, Answer, Back, AskYAML,
         ApplyCreate
<1>9. MutationSteps \/ MutationOthers => MutationStep
  BY DEF MutationStep, MutationSteps, MutationOthers, StartPatches, PatchNode, PatchesEnd
<1>10. QED
  BY <1>1, <1>2, <1>3, <1>4, <1>5, <1>6, <1>7, <1>8, <1>9 DEF Next, CommandSteps, Others

LEMMA InputStays ==
  ASSUME Next
  PROVE  pc # "end" /\ UNCHANGED <<command, args>>
<1> USE DEF At, Stop, Finish, Goto, Present, Proceed, Send, Rejected, Touch, input
<1>1. Confirm \/ GivesUp => pc # "end" /\ UNCHANGED <<command, args>>
  BY DEF Confirm, GivesUp
<1>2. RBACStep => pc # "end" /\ UNCHANGED <<command, args>>
  BY DEF RBACStep, RBACSteps, RBACOthers, PrepareGrant, ApplyGrant, PrepareRemove, ApplyRemove
<1>3. AuthStep => pc # "end" /\ UNCHANGED <<command, args>>
  BY DEF AuthStep, AuthSteps, AuthOthers, PreflightGrant, ResolveGrant, BatchCreate, Verify,
         PreflightRemove, ResolveRemove, DeletePolicy, NotFound
<1>4. SSPStep => pc # "end" /\ UNCHANGED <<command, args>>
  BY DEF SSPStep, SSPSteps, SSPOthers, PreflightSSP, ResolveSSP, AddMembers
<1>5. NodeStep => pc # "end" /\ UNCHANGED <<command, args>>
  BY DEF NodeStep, NodeSteps, NodeOthers, BindNode, PrepareNodeAdd, ApplyNodeAdd, LookAtBinding,
         PrepareNodeRemove, ApplyNodeRemove
<1>6. PolicyStep => pc # "end" /\ UNCHANGED <<command, args>>
  BY DEF PolicyStep, PolicySteps, PolicyOthers, ReadPolicy, WritePolicy
<1>7. AFSStep => pc # "end" /\ UNCHANGED <<command, args>>
  BY DEF AFSStep, AFSSteps, AFSOthers, PrepareAFS, CreateVolume, PayOrder
<1>8. WizardStep => pc # "end" /\ UNCHANGED <<command, args>>
  BY DEF WizardStep, WizardSteps, WizardOthers, StartWizard, ParameterMode, Answer, Back, AskYAML,
         ApplyCreate
<1>9. MutationStep => pc # "end" /\ UNCHANGED <<command, args>>
  BY DEF MutationStep, MutationSteps, MutationOthers, StartPatches, PatchNode, PatchesEnd
<1>10. QED
  BY <1>1, <1>2, <1>3, <1>4, <1>5, <1>6, <1>7, <1>8, <1>9, NextOf

-----------------------------------------------------------------------------
(***************************************************************************)
(* What a step is to ConfirmedWrite.                                       *)
(***************************************************************************)
Ends ==
  /\ pc # "end" /\ pc' = "end" /\ UNCHANGED <<agreed, sent>>
  /\ outcome' \in NothingResults => sent = << >>
Agrees ==
  /\ pc \in OpenPlaces /\ pc' \in AgreedPlaces
  /\ agreed' # {} /\ UNCHANGED sent
Sends ==
  /\ pc \in AgreedPlaces /\ UNCHANGED agreed
  /\ \E w \in agreed, v \in Range(sent') :
       /\ v = w \/ (~Steady /\ v.op = w.op /\ v.as = w.as)
       /\ sent = << >> \/ (command \notin AuthCommands /\ w \notin Range(sent))
       /\ sent' = Append(sent, v)
  /\ pc' \in AgreedPlaces \/ (pc' = "end" /\ outcome' \notin NothingResults)
GoesOn ==
  /\ UNCHANGED <<agreed, sent>>
  /\ \/ pc \in OpenPlaces /\ pc' \in OpenPlaces
     \/ pc \in AgreedPlaces /\ pc' \in AgreedPlaces

KeepsPromise == ConsentInv' /\ (Ends \/ Agrees \/ Sends \/ GoesOn)

LEMMA EmptyRange == Range(<< >>) = {}
BY DEF Range

LEMMA OneSent == ASSUME NEW w  PROVE Range(Append(<< >>, w)) = {w} /\ Range(<<w>>) = {w}
<1>1. Range(Append(<< >>, w)) = {w}
  BY DEF Range
<1>2. Range(<<w>>) = {w}
  BY DEF Range
<1>3. QED
  BY <1>1, <1>2

LEMMA RangeOfAppend ==
  ASSUME NEW S, NEW s \in Seq(S), NEW w \in S
  PROVE  Append(s, w) \in Seq(S) /\ Range(Append(s, w)) = Range(s) \cup {w}
<1>1. /\ Append(s, w) \in Seq(S) /\ Len(s) \in Nat /\ DOMAIN s = 1..Len(s)
      /\ DOMAIN Append(s, w) = 1..(Len(s) + 1)
      /\ \A i \in 1..Len(s) : Append(s, w)[i] = s[i]
      /\ Append(s, w)[Len(s) + 1] = w
  OBVIOUS
<1>2. 1..(Len(s) + 1) = 1..Len(s) \cup {Len(s) + 1}
  BY <1>1
<1>3. Range(Append(s, w)) = {Append(s, w)[i] : i \in 1..Len(s) \cup {Len(s) + 1}}
  BY <1>1, <1>2 DEF Range
<1>4. Range(s) = {s[i] : i \in 1..Len(s)}
  BY <1>1 DEF Range
<1>5. QED
  BY <1>1, <1>3, <1>4

LEMMA SentIsIn ==
  ASSUME NEW S, NEW s \in Seq(S)
  PROVE  Range(s) \subseteq S
BY DEF Range

LEMMA EndingKeeps ==
  ASSUME ConsentInv, Ends, UNCHANGED <<command, args>>
  PROVE  KeepsPromise
BY DEF ConsentInv, Ends, KeepsPromise, Planned, OpenPlaces, AgreedPlaces

LEMMA LastRequestKeeps ==
  ASSUME ConsentInv, Sends, pc' = "end", UNCHANGED <<command, args>>
  PROVE  KeepsPromise
BY DEF ConsentInv, KeepsPromise, Planned, OpenPlaces, AgreedPlaces

\* The first request a command sends.
LEMMA FirstSent ==
  ASSUME pc \in AgreedPlaces, UNCHANGED agreed, sent = << >>,
         NEW w \in agreed, NEW v, v = w \/ (~Steady /\ v.op = w.op /\ v.as = w.as),
         sent' = Append(sent, v),
         pc' \in AgreedPlaces \/ (pc' = "end" /\ outcome' \notin NothingResults)
  PROVE  Sends
<1>1. v \in Range(sent')
  BY OneSent
<1>2. QED
  BY <1>1 DEF Sends

\* The requests that nothing but the source decides.
Requests == <<Exclude, Create, Pay>>

LEMMA RequestsStay == UNCHANGED Requests
BY DEF Requests, Exclude, Create, Pay

LEMMA WaitingKeeps ==
  ASSUME ConsentInv, pc # "end", UNCHANGED <<command, args, pc, plan, agreed, sent, outcome>>
  PROVE  KeepsPromise
<1>1. UNCHANGED Requests
  BY RequestsStay
<1>2. UNCHANGED <<Exclude, Create, Pay>> /\ Unbind(args.name)' = Unbind(args.name)
  BY <1>1 DEF Requests, Unbind
<1>3. /\ command = "rbac remove" => Planned({Unbind(args.name)})'
      /\ command = "policy update" => Planned({Exclude})'
      /\ command = "afs create" => Planned({Create, Pay})'
  BY <1>2 DEF ConsentInv, Planned
<1>4. ConsentInv'
  BY <1>3, ZenonT(30) DEF ConsentInv
<1>5. GoesOn
  BY DEF GoesOn, ConsentInv
<1>6. QED
  BY <1>4, <1>5 DEF KeepsPromise

LEMMA UserKeeps ==
  ASSUME ConsentInv, Confirm \/ GivesUp
  PROVE  KeepsPromise
<1>1. CASE GivesUp
  <2>1. Ends /\ UNCHANGED <<command, args>>
    BY <1>1 DEF GivesUp, Ends, ConsentInv, NothingResults, OpenPlaces, input, consent
  <2>2. QED
    BY <2>1, EndingKeeps
<1>2. CASE Confirm
  <2>1. /\ pc = "confirm" /\ pc' = "apply" /\ agreed' = plan.writes
        /\ UNCHANGED <<outcome, command, args, plan, sent>>
    BY <1>2 DEF Confirm, Goto, input
  <2>2. Agrees
    BY <2>1 DEF Agrees, ConsentInv, OpenPlaces, AgreedPlaces
  <2>3. ConsentInv'
    BY <2>1 DEF ConsentInv, Planned, OpenPlaces, AgreedPlaces, Unbind
  <2>4. QED
    BY <2>2, <2>3 DEF KeepsPromise
<1>3. QED
  BY <1>1, <1>2

\* Requests W are the ones this command announces.
Announces(W) ==
  /\ W # {} /\ pc = "prepare"
  /\ command = "rbac remove" => W = {Unbind(args.name)}
  /\ command = "policy update" => W = {Exclude}
  /\ command = "afs create" => W = {Create, Pay}

LEMMA PresentEffect ==
  ASSUME NEW W, NEW shown, Present(W, shown)
  PROVE  /\ plan' = [writes |-> W, shown |-> shown]
         /\ plan'.writes = W /\ plan'.shown = shown
         /\ \/ pc' = "confirm" /\ outcome' = outcome
            \/ pc' = "end" /\ outcome' = "dry-run"
         /\ UNCHANGED <<command, args, agreed, sent, store, touched>>
<1>1. /\ plan' = [writes |-> W, shown |-> shown]
      /\ UNCHANGED <<input, world, consent>>
      /\ Goto("confirm") \/ Finish("dry-run")
  BY DEF Present
<1>2. plan'.writes = W /\ plan'.shown = shown
  BY <1>1
<1>3. QED
  BY <1>1, <1>2 DEF Goto, Finish, input, world, consent

LEMMA ProceedEffect ==
  ASSUME NEW W, NEW shown, Proceed(W, shown)
  PROVE  /\ plan' = [writes |-> W, shown |-> shown]
         /\ plan'.writes = W /\ plan'.shown = shown /\ agreed' = W
         /\ pc' = "apply" /\ outcome' = outcome
         /\ UNCHANGED <<command, args, sent, store, touched>>
<1>1. /\ plan' = [writes |-> W, shown |-> shown] /\ agreed' = W
      /\ UNCHANGED <<input, world, sent>>
      /\ Goto("apply")
  BY DEF Proceed
<1>2. plan'.writes = W /\ plan'.shown = shown
  BY <1>1
<1>3. QED
  BY <1>1, <1>2 DEF Goto, input, world

LEMMA PresentKeeps ==
  ASSUME ConsentInv, NEW W, NEW shown, Announces(W), Present(W, shown), command # "node mutate"
  PROVE  KeepsPromise
<1>1. UNCHANGED Requests
  BY PresentEffect, RequestsStay
<1>2. sent = << >> /\ agreed = {} /\ outcome = ""
  BY DEF ConsentInv, Announces, OpenPlaces
<1>3. CASE pc' = "end"
  <2>1. Ends /\ UNCHANGED <<command, args>>
    BY PresentEffect, <1>2, <1>3 DEF Ends, Announces
  <2>2. QED
    BY <2>1, EndingKeeps
<1>4. CASE pc' = "confirm"
  <2>1. /\ pc' = "confirm" /\ outcome' = outcome /\ plan'.writes = W
        /\ UNCHANGED <<command, args, agreed, sent>>
    BY PresentEffect, <1>4
  <2>2. QED
    BY <1>1, <1>2, <2>1
    DEF KeepsPromise, ConsentInv, Announces, Requests, Planned, GoesOn, OpenPlaces, AgreedPlaces
<1>5. QED
  BY <1>3, <1>4, PresentEffect

LEMMA ProceedKeeps ==
  ASSUME ConsentInv, NEW W, NEW shown, Announces(W), Proceed(W, shown)
  PROVE  KeepsPromise
<1>1. UNCHANGED Requests
  BY ProceedEffect, RequestsStay
<1>2. sent = << >> /\ agreed = {} /\ outcome = ""
  BY DEF ConsentInv, Announces, OpenPlaces
<1>3. /\ pc' = "apply" /\ outcome' = outcome /\ plan'.writes = W /\ agreed' = W
      /\ UNCHANGED <<command, args, sent>>
  BY ProceedEffect
<1>4. QED
  BY <1>1, <1>2, <1>3
  DEF KeepsPromise, ConsentInv, Announces, Requests, Planned, Agrees, OpenPlaces, AgreedPlaces

LEMMA StopKeeps ==
  ASSUME ConsentInv, pc # "end", NEW result, Stop(result), result \in NothingResults => sent = << >>
  PROVE  KeepsPromise
<1>1. Ends /\ UNCHANGED <<command, args>>
  BY DEF Stop, Finish, Ends, input, consent
<1>2. QED
  BY <1>1, EndingKeeps

\* What was asked for, with its names resolved to v.
AskedFor(v) == \E w \in plan.writes : v = w \/ (~Steady /\ v.op = w.op /\ v.as = w.as)

\* The one request of a command is sent, and the command ends.
LEMMA SendKeeps ==
  ASSUME ConsentInv, pc \in AgreedPlaces, sent = << >>, NEW v, AskedFor(v),
         NEW after, NEW failure, failure \notin NothingResults, NEW ACTION A,
         Send(v, after, failure, A),
         A => pc' = "end" /\ outcome' \notin NothingResults
  PROVE  KeepsPromise
<1>1. /\ sent' = Append(sent, v) /\ UNCHANGED <<command, args, agreed>>
      /\ pc' = "end" /\ outcome' \notin NothingResults
  BY DEF Send, Finish, input
<1>2. Sends
  BY <1>1, FirstSent DEF AskedFor, ConsentInv
<1>3. QED
  BY <1>1, <1>2, LastRequestKeeps

LEMMA OtherKeeps ==
  ASSUME ConsentInv, NEW thing, NEW value, Touch(thing, value)
  PROVE  KeepsPromise
BY WaitingKeeps DEF Touch, input, consent

LEMMA RBACKeeps ==
  ASSUME ConsentInv, RBACStep
  PROVE  KeepsPromise
<1> USE DEF At
<1>1. CASE PrepareGrant
  <2>1. Announces({Bind(args.role, Pending)})
    BY <1>1 DEF PrepareGrant, Announces
  <2>2. sent = << >>
    BY <1>1 DEF PrepareGrant, ConsentInv, OpenPlaces
  <2>3. QED
    BY <1>1, <2>1, <2>2, PresentKeeps, StopKeeps DEF PrepareGrant
<1>2. CASE ApplyGrant
  <2>1. PICK w \in plan.writes :
          Send(w, With(store, FreshBinding, Binding(w.role, w.subjects, TRUE)),
               "error", Finish("created") /\ UNCHANGED plan)
    BY <1>2 DEF ApplyGrant
  <2>2. AskedFor(w) /\ sent = << >> /\ pc \in AgreedPlaces
    BY <1>2 DEF ApplyGrant, AskedFor, ConsentInv, AgreedPlaces
  <2>3. QED
    BY <2>1, <2>2, SendKeeps DEF Finish, NothingResults
<1>3. CASE PrepareRemove
  <2>1. Announces({Unbind(args.name)})
    BY <1>3 DEF PrepareRemove, Announces
  <2>2. QED
    BY <1>3, <2>1, PresentKeeps, StopKeeps DEF PrepareRemove, NothingResults
<1>4. CASE ApplyRemove
  <2>1. AskedFor(Unbind(args.name)) /\ sent = << >> /\ pc \in AgreedPlaces
    BY <1>4 DEF ApplyRemove, AskedFor, ConsentInv, Planned, AgreedPlaces
  <2>2. QED
    BY <1>4, <2>1, SendKeeps DEF ApplyRemove, Rejected, Finish, NothingResults
<1>5. CASE RBACOthers
  BY <1>5, OtherKeeps DEF RBACOthers
<1>6. QED
  BY <1>1, <1>2, <1>3, <1>4, <1>5 DEF RBACStep, RBACSteps

\* A step between two places of one kind that plans nothing new.
LEMMA GoingOnKeeps ==
  ASSUME ConsentInv, GoesOn, plan'.writes = plan.writes, UNCHANGED <<command, args, outcome>>,
         pc' \notin {"confirm", "pay", "end"}, command \notin {"node mutate", "create"},
         pc' \in {"apply", "create", "delete", "add"} => sent = << >>
               /\ pc \in {"confirm", "apply", "create", "delete", "add"}
  PROVE  KeepsPromise
<1>1. UNCHANGED Requests
  BY RequestsStay
<1>2. QED
  BY <1>1, ZenonT(30) DEF Requests, ConsentInv, KeepsPromise, Planned, GoesOn, OpenPlaces, AgreedPlaces

\* A request after which the command goes on to look at what has become of it.
LEMMA SendLooks ==
  ASSUME ConsentInv, pc \in {"apply", "create"}, command \notin {"node mutate", "create"},
         NEW v, AskedFor(v), sent' = Append(sent, v), pc' \in {"verify", "look"},
         plan'.writes = plan.writes, UNCHANGED <<command, args, agreed, outcome>>
  PROVE  KeepsPromise
<1>1. Sends
  BY FirstSent DEF AskedFor, ConsentInv, AgreedPlaces
<1>2. QED
  BY <1>1 DEF ConsentInv, KeepsPromise, Planned, OpenPlaces, AgreedPlaces

\* The request that a command sends after it has resolved its names again is the
\* one that was shown, unless the names may stand for something else by now.
LEMMA GrantIsAskedFor ==
  ASSUME GrantAsk, command = "auth grant", pc = "create"
  PROVE  AskedFor(Grant(plan.scope))
<1>1. PICK s \in Scopes : plan.writes = {Grant(s)} /\ (touched = {} => s \in Found)
  BY DEF GrantAsk
<1>2. touched = {} => plan.scope \in Found
  BY DEF GrantAsk
<1>3. Steady => Grant(plan.scope) = Grant(s)
  BY <1>1, <1>2 DEF Steady
<1>4. Grant(plan.scope).op = Grant(s).op /\ Grant(plan.scope).as = Grant(s).as
  BY DEF Grant
<1>5. QED
  BY <1>1, <1>3, <1>4 DEF AskedFor

LEMMA RevokeIsAskedFor ==
  ASSUME RemoveAsk, command = "auth remove", pc = "delete"
  PROVE  AskedFor(Revoke(plan.id, plan.scope))
<1>0. PICK s \in Scopes : \E p :
        /\ plan.writes = {Revoke(p, s)}
        /\ touched = {} => s \in Found /\ p = FirstOf(Removable(s))
  BY DEF RemoveAsk
<1>1. PICK p : /\ plan.writes = {Revoke(p, s)}
               /\ touched = {} => s \in Found /\ p = FirstOf(Removable(s))
  BY <1>0
<1>2. touched = {} => plan.scope \in Found /\ plan.id = FirstOf(Removable(plan.scope))
  BY DEF RemoveAsk
<1>3. Steady => plan.scope = s
  BY <1>1, <1>2 DEF Steady
<1>4. Steady => plan.id = p
  BY <1>1, <1>2, <1>3 DEF Steady
<1>5. /\ Revoke(plan.id, plan.scope).op = Revoke(p, s).op
      /\ Revoke(plan.id, plan.scope).as = Revoke(p, s).as
  BY DEF Revoke
<1>6. QED
  BY <1>1, <1>3, <1>4, <1>5 DEF AskedFor

LEMMA AddMemberIsAskedFor ==
  ASSUME SSPAsk, command = "auth ssp grant", pc = "add"
  PROVE  AskedFor(AddMember(plan.workspace, plan.roles))
<1>0. PICK w \in Workspaces : \E roles :
        /\ plan.writes = {AddMember(w, roles)}
        /\ touched = {} => w \in WorkspacesFound /\ roles = SelectedRoles(w)
  BY DEF SSPAsk
<1>1. PICK roles : /\ plan.writes = {AddMember(w, roles)}
                   /\ touched = {} => w \in WorkspacesFound /\ roles = SelectedRoles(w)
  BY <1>0
<1>2. touched = {} => plan.workspace \in WorkspacesFound /\ plan.roles = SelectedRoles(plan.workspace)
  BY DEF SSPAsk
<1>3. Steady => plan.workspace = w
  BY <1>1, <1>2 DEF Steady
<1>4. Steady => plan.roles = roles
  BY <1>1, <1>2, <1>3 DEF Steady
<1>5. /\ AddMember(plan.workspace, plan.roles).op = AddMember(w, roles).op
      /\ AddMember(plan.workspace, plan.roles).as = AddMember(w, roles).as
  BY DEF AddMember
<1>6. QED
  BY <1>1, <1>3, <1>4, <1>5 DEF AskedFor

LEMMA AuthKeeps ==
  ASSUME ConsentInv, AskInv, AuthGrantInv, AuthStep
  PROVE  KeepsPromise
<1> USE DEF At
<1>n. ASSUME NotFound, pc # "end"  PROVE KeepsPromise
  BY <1>n, StopKeeps DEF NotFound, NothingResults
<1>1. CASE PreflightGrant
  <2>1. ASSUME NEW s \in Found, Present({Grant(s)}, Just(s, store[s]))
        PROVE  KeepsPromise
    <3>1. Announces({Grant(s)}) /\ command # "node mutate"
      BY <1>1 DEF PreflightGrant, Announces
    <3>2. QED
      BY <2>1, <3>1, PresentKeeps
  <2>2. QED
    BY <1>1, <1>n, <2>1, StopKeeps DEF PreflightGrant, NothingResults
<1>2. CASE ResolveGrant
  <2>1. ASSUME NEW s \in Found, Resolved(s, FreshPolicy, ""), Goto("create"),
               UNCHANGED <<input, world, consent>>
        PROVE  KeepsPromise
    <3>1. plan'.writes = plan.writes
      BY <2>1 DEF Resolved
    <3>2. pc = "apply" /\ sent = << >> /\ command = "auth grant"
      BY <1>2 DEF ResolveGrant, ConsentInv
    <3>3. QED
      BY <2>1, <3>1, <3>2, GoingOnKeeps DEF Goto, GoesOn, AgreedPlaces, input, consent
  <2>2. QED
    BY <1>2, <1>n, <2>1, StopKeeps DEF ResolveGrant, NothingResults
<1>3. CASE BatchCreate
  <2> DEFINE v == Grant(plan.scope)
  <2>1. /\ command = "auth grant" /\ pc = "create" /\ sent = << >> /\ agreed = plan.writes
        /\ pc \in AgreedPlaces /\ AskedFor(v)
    <3>1. command = "auth grant" /\ pc = "create"
      BY <1>3 DEF BatchCreate
    <3>2. sent = << >> /\ pc \in AgreedPlaces /\ agreed = plan.writes
      BY <3>1 DEF ConsentInv, AgreedPlaces
    <3>3. QED
      BY <3>1, <3>2, GrantIsAskedFor DEF AskInv
  <2> HIDE DEF v
  <2>2. ASSUME NEW replies, Unverified(replies), UNCHANGED <<input, agreed>>, sent' = Append(sent, v)
        PROVE  KeepsPromise
    <3>1. plan'.writes = plan.writes
      BY <2>1, <2>2 DEF Unverified, AuthGrantInv
    <3>2. QED
      BY <2>1, <2>2, <3>1, SendLooks DEF Unverified, Goto, input
  <2>3. ASSUME NEW result, result \notin NothingResults, Finish(result),
               UNCHANGED <<input, agreed>>, sent' = Append(sent, v)
        PROVE  KeepsPromise
    <3>1. Sends /\ pc' = "end"
      BY <2>1, <2>3, FirstSent DEF AskedFor, Finish
    <3>2. QED
      BY <2>3, <3>1, LastRequestKeeps DEF input
  <2>4. UNCHANGED <<input, agreed>> /\ sent' = Append(sent, v)
    BY <1>3 DEF BatchCreate, Send, v
  <2>5. \/ \E replies : Unverified(replies)
        \/ \E result \in {"error", "already exists", "created"} : Finish(result)
    BY <1>3 DEF BatchCreate, Send
  <2>6. QED
    BY <2>2, <2>3, <2>4, <2>5 DEF NothingResults
<1>4. CASE Verify
  <2>1. \E result : Finish(result)
    BY <1>4 DEF Verify
  <2>2. pc = "verify" /\ plan.reply \notin NothingResults
    BY <1>4 DEF Verify, AuthGrantInv
  <2>3. QED
    BY <1>4, <2>1, <2>2, EndingKeeps DEF Verify, Finish, Ends, input, consent, NothingResults
<1>5. CASE PreflightRemove
  <2>1. sent = << >>
    BY <1>5 DEF PreflightRemove, ConsentInv, OpenPlaces
  <2>2. ASSUME NEW r, NEW shown, Present({r}, shown)
        PROVE  KeepsPromise
    <3>1. Announces({r}) /\ command # "node mutate"
      BY <1>5 DEF PreflightRemove, Announces
    <3>2. QED
      BY <2>2, <3>1, PresentKeeps
  <2>3. QED
    BY <1>5, <1>n, <2>1, <2>2, StopKeeps DEF PreflightRemove
<1>6. CASE ResolveRemove
  <2>0. pc = "apply" /\ sent = << >> /\ command = "auth remove"
    BY <1>6 DEF ResolveRemove, ConsentInv
  <2>1. ASSUME NEW s \in Found, NEW id, Resolved(s, id, ""), Goto("delete"),
               UNCHANGED <<input, world, consent>>
        PROVE  KeepsPromise
    <3>1. plan'.writes = plan.writes
      BY <2>1 DEF Resolved
    <3>3. QED
      BY <2>0, <2>1, <3>1, GoingOnKeeps DEF Goto, GoesOn, AgreedPlaces, input, consent
  <2>2. QED
    BY <1>6, <1>n, <2>0, <2>1, StopKeeps DEF ResolveRemove
<1>7. CASE DeletePolicy
  <2>1. command = "auth remove" /\ pc = "delete" /\ sent = << >> /\ pc \in AgreedPlaces
    BY <1>7 DEF DeletePolicy, ConsentInv, AgreedPlaces
  <2>2. AskedFor(Revoke(plan.id, plan.scope))
    BY <2>1, RevokeIsAskedFor DEF AskInv
  <2>3. QED
    BY <1>7, <2>1, <2>2, SendKeeps DEF DeletePolicy, Rejected, Finish, NothingResults
<1>8. CASE AuthOthers
  BY <1>8, OtherKeeps DEF AuthOthers
<1>9. QED
  BY <1>1, <1>2, <1>3, <1>4, <1>5, <1>6, <1>7, <1>8 DEF AuthStep, AuthSteps

LEMMA SSPKeeps ==
  ASSUME ConsentInv, AskInv, SSPStep
  PROVE  KeepsPromise
<1> USE DEF At
<1>1. CASE PreflightSSP
  <2>1. ASSUME NEW r, Present({r}, << >>)
        PROVE  KeepsPromise
    <3>1. Announces({r}) /\ command # "node mutate"
      BY <1>1 DEF PreflightSSP, Announces
    <3>2. QED
      BY <2>1, <3>1, PresentKeeps
  <2>2. QED
    BY <1>1, <2>1, StopKeeps DEF PreflightSSP, NothingResults
<1>2. CASE ResolveSSP
  <2>1. pc = "apply" /\ sent = << >> /\ command = "auth ssp grant"
    BY <1>2 DEF ResolveSSP, ConsentInv
  <2>2. ASSUME NEW w, NEW roles,
               plan' = [writes |-> plan.writes, shown |-> plan.shown, workspace |-> w, roles |-> roles],
               Goto("add"), UNCHANGED <<input, world, consent>>
        PROVE  KeepsPromise
    <3>1. plan'.writes = plan.writes
      BY <2>2
    <3>2. QED
      BY <2>1, <2>2, <3>1, GoingOnKeeps DEF Goto, GoesOn, AgreedPlaces, input, consent
  <2>3. QED
    BY <1>2, <2>2, StopKeeps DEF ResolveSSP, NothingResults
<1>3. CASE AddMembers
  <2>1. command = "auth ssp grant" /\ pc = "add" /\ sent = << >> /\ pc \in AgreedPlaces
    BY <1>3 DEF AddMembers, ConsentInv, AgreedPlaces
  <2>2. AskedFor(AddMember(plan.workspace, plan.roles))
    BY <2>1, AddMemberIsAskedFor DEF AskInv
  <2>3. QED
    BY <1>3, <2>1, <2>2, SendKeeps DEF AddMembers, Rejected, Finish, NothingResults
<1>4. CASE SSPOthers
  BY <1>4, OtherKeeps DEF SSPOthers
<1>5. QED
  BY <1>1, <1>2, <1>3, <1>4 DEF SSPStep, SSPSteps

LEMMA NodeKeeps ==
  ASSUME ConsentInv, NodeStep
  PROVE  KeepsPromise
<1> USE DEF At
<1>1. CASE PrepareNodeAdd
  <2>1. Announces({Add(Selected(Usable))}) /\ command # "node mutate"
    BY <1>1 DEF PrepareNodeAdd, Announces
  <2>2. QED
    BY <1>1, <2>1, PresentKeeps, StopKeeps DEF PrepareNodeAdd, NothingResults
<1>2. CASE ApplyNodeAdd
  <2>1. PICK w \in plan.writes :
          IF \E n \in w.nodes : store[n].vc # ""
            THEN Rejected(w)
            ELSE Send(w, [n \in ACNs |-> IF n \in w.nodes THEN ACN("", TRUE) ELSE store[n]],
                      "error", Goto("look") /\ UNCHANGED plan)
    BY <1>2 DEF ApplyNodeAdd
  <2>2. /\ AskedFor(w) /\ sent = << >> /\ pc \in AgreedPlaces /\ agreed = plan.writes
        /\ pc = "apply" /\ command = "vc node add"
    BY <1>2 DEF ApplyNodeAdd, AskedFor, ConsentInv, AgreedPlaces
  <2>3. /\ UNCHANGED <<input, agreed>> /\ sent' = Append(sent, w)
        /\ Finish("error") \/ (Goto("look") /\ UNCHANGED plan)
    BY <2>1 DEF Send, Rejected
  <2>4. CASE Finish("error")
    <3>1. Sends /\ pc' = "end"
      BY <2>1, <2>2, <2>3, <2>4, FirstSent DEF Finish, NothingResults
    <3>2. QED
      BY <2>3, <3>1, LastRequestKeeps DEF input
  <2>5. QED
    BY <2>2, <2>3, <2>4, SendLooks DEF Goto, input
<1>3. CASE LookAtBinding
  BY <1>3, StopKeeps DEF LookAtBinding, NothingResults
<1>4. CASE PrepareNodeRemove
  <2>1. Announces({Remove(Selected(InVC))}) /\ command # "node mutate"
    BY <1>4 DEF PrepareNodeRemove, Announces
  <2>2. QED
    BY <1>4, <2>1, PresentKeeps, StopKeeps DEF PrepareNodeRemove, NothingResults
<1>5. CASE ApplyNodeRemove
  <2>1. PICK w \in plan.writes :
          Send(w, [n \in ACNs |-> IF n \in w.nodes \cap InVC THEN ACN("", FALSE) ELSE store[n]],
               "error", Finish("removed") /\ UNCHANGED plan)
    BY <1>5 DEF ApplyNodeRemove
  <2>2. AskedFor(w) /\ sent = << >> /\ pc \in AgreedPlaces
    BY <1>5 DEF ApplyNodeRemove, AskedFor, ConsentInv, AgreedPlaces
  <2>3. QED
    BY <2>1, <2>2, SendKeeps DEF Finish, NothingResults
<1>6. CASE NodeOthers
  BY <1>6, OtherKeeps DEF NodeOthers
<1>7. CASE BindNode
  BY <1>7, WaitingKeeps DEF BindNode, input, consent
<1>8. QED
  BY <1>1, <1>2, <1>3, <1>4, <1>5, <1>6, <1>7 DEF NodeStep, NodeSteps

LEMMA PolicyKeeps ==
  ASSUME ConsentInv, PolicyStep
  PROVE  KeepsPromise
<1> USE DEF At
<1>1. CASE ReadPolicy
  <2>1. Announces({Exclude}) /\ sent = << >>
    BY <1>1 DEF ReadPolicy, Announces, ConsentInv, OpenPlaces
  <2>2. QED
    BY <1>1, <2>1, ProceedKeeps, StopKeeps DEF ReadPolicy
<1>2. CASE WritePolicy
  <2>1. AskedFor(Exclude) /\ sent = << >> /\ pc \in AgreedPlaces
    BY <1>2 DEF WritePolicy, AskedFor, ConsentInv, Planned, AgreedPlaces
  <2>2. QED
    BY <1>2, <2>1, SendKeeps DEF WritePolicy, Rejected, Finish, NothingResults
<1>3. CASE PolicyOthers
  BY <1>3, OtherKeeps DEF PolicyOthers
<1>4. QED
  BY <1>1, <1>2, <1>3 DEF PolicyStep, PolicySteps

LEMMA AFSKeeps ==
  ASSUME ConsentInv, AFSStep
  PROVE  KeepsPromise
<1> USE DEF At
<1>0. Create # Pay
  BY DEF Create, Pay
<1>1. CASE PrepareAFS
  <2>1. Announces({Create, Pay}) /\ command # "node mutate"
    BY <1>1 DEF PrepareAFS, Announces
  <2>2. QED
    BY <1>1, <2>1, PresentKeeps DEF PrepareAFS
<1>2. CASE CreateVolume
  <2>1. /\ command = "afs create" /\ pc = "apply" /\ plan.writes = {Create, Pay} /\ sent = << >>
        /\ outcome = "" /\ agreed = {Create, Pay}
    BY <1>2 DEF CreateVolume, ConsentInv, Planned, AgreedPlaces
  <2>2. /\ sent' = Append(sent, Create) /\ UNCHANGED <<command, args, agreed>>
        /\ \/ \E result \in {"error", "created without order"} : Finish(result)
           \/ Goto("pay") /\ UNCHANGED plan
    BY <1>2 DEF CreateVolume, Rejected, Send, input
  <2>3. Sends
    BY <2>1, <2>2, FirstSent DEF Finish, Goto, AgreedPlaces, NothingResults
  <2>4. CASE pc' = "end"
    BY <2>2, <2>3, <2>4, LastRequestKeeps
  <2>5. CASE pc' # "end"
    <3>1. /\ pc' = "pay" /\ sent' = <<Create>> /\ plan' = plan /\ outcome' = outcome
      <4>1. Append(<< >>, Create) = <<Create>>
        OBVIOUS
      <4>2. QED
        BY <2>1, <2>2, <2>5, <4>1 DEF Finish, Goto
    <3>2. UNCHANGED Requests
      BY <2>2, RequestsStay
    <3>3. QED
      BY <2>1, <2>2, <2>3, <3>1, <3>2
      DEF KeepsPromise, ConsentInv, Requests, Planned, OpenPlaces, AgreedPlaces
  <2>6. QED
    BY <2>4, <2>5
<1>3. CASE PayOrder
  <2>0. /\ command = "afs create" /\ pc = "pay" /\ sent = <<Create>> /\ Pay \in agreed
        /\ pc \in AgreedPlaces
    BY <1>3 DEF PayOrder, ConsentInv, Planned, AgreedPlaces
  <2>1. /\ sent' = Append(sent, Pay) /\ UNCHANGED <<command, args, agreed>>
        /\ pc' = "end" /\ outcome' \notin NothingResults
    BY <1>3 DEF PayOrder, Send, Finish, NothingResults, input
  <2>2. Pay \notin Range(sent) /\ Pay \in Range(sent')
    <3>1. Range(sent) = {Create} /\ sent \in Seq({Create, Pay})
      <4>1. Range(sent) = {Create}
        BY <2>0, OneSent, Zenon
      <4>2. <<Create>> \in Seq({Create, Pay})
        OBVIOUS
      <4>3. QED
        BY <2>0, <4>1, <4>2
    <3>2. Range(sent') = Range(sent) \cup {Pay}
      BY <2>1, <3>1, RangeOfAppend
    <3>3. QED
      BY <1>0, <3>1, <3>2
  <2>3. Sends
    BY <2>0, <2>1, <2>2 DEF Sends, AuthCommands
  <2>4. QED
    BY <2>1, <2>3, LastRequestKeeps
<1>4. CASE AFSOthers
  BY <1>4, OtherKeeps DEF AFSOthers
<1>5. QED
  BY <1>1, <1>2, <1>3, <1>4 DEF AFSStep, AFSSteps

\* The wizard plans anew with every answer, and is not agreed to before its end.
LEMMA AskingKeeps ==
  ASSUME ConsentInv, command = "create", pc \in OpenPlaces, pc' \in {"ask", "yaml", "confirm"},
         pc' = "confirm" => plan'.writes # {}, UNCHANGED <<command, args, agreed, sent, outcome>>
  PROVE  KeepsPromise
<1>1. GoesOn
  BY DEF GoesOn, OpenPlaces
<1>2. ConsentInv'
  BY DEF ConsentInv, OpenPlaces, AgreedPlaces
<1>3. QED
  BY <1>1, <1>2 DEF KeepsPromise

LEMMA WizardKeeps ==
  ASSUME ConsentInv, CreateInv, WizardStep
  PROVE  KeepsPromise
<1> USE DEF At
<1>0. command = "create"
  BY DEF WizardStep
<1>1. CASE StartWizard
  BY <1>0, <1>1, AskingKeeps DEF StartWizard, Goto, OpenPlaces, input, consent
<1>2. CASE ParameterMode
  <2>1. \A form : Announces({CreateObject(form)})
    BY <1>2 DEF ParameterMode, Announces
  <2>2. QED
    BY <1>2, <2>1, ProceedKeeps, StopKeeps DEF ParameterMode, NothingResults
<1>3. CASE Answer
  <2>1. /\ pc = "ask" /\ UNCHANGED <<command, args, agreed, sent>>
        /\ \/ UNCHANGED <<pc, outcome>>
           \/ /\ \E form : plan' = [writes |-> {CreateObject(form)}, shown |-> form, form |-> form]
              /\ Goto(IF args.template = "pvc" THEN "confirm" ELSE "yaml")
    BY <1>3 DEF Answer, input, consent
  <2>2. CASE UNCHANGED <<pc, outcome>>
    BY <1>0, <2>1, <2>2, AskingKeeps DEF OpenPlaces
  <2>3. ASSUME NEW form, plan' = [writes |-> {CreateObject(form)}, shown |-> form, form |-> form],
               Goto(IF args.template = "pvc" THEN "confirm" ELSE "yaml")
        PROVE  KeepsPromise
    <3>1. plan'.writes = {CreateObject(form)}
      BY <2>3
    <3>2. pc' \in {"confirm", "yaml"} /\ outcome' = outcome
      BY <2>3 DEF Goto
    <3>3. QED
      BY <1>0, <2>1, <3>1, <3>2, AskingKeeps DEF OpenPlaces
  <2>4. QED
    BY <2>1, <2>2, <2>3
<1>4. CASE Back
  BY <1>0, <1>4, AskingKeeps DEF Back, Goto, OpenPlaces, input, consent
<1>5. CASE AskYAML
  <2>1. pc = "yaml" /\ plan.writes # {} /\ sent = << >>
    BY <1>0, <1>5 DEF AskYAML, CreateInv, ConsentInv, OpenPlaces
  <2>2. CASE Stop("dry-run")
    BY <2>1, <2>2, StopKeeps
  <2>3. CASE Goto("confirm") /\ UNCHANGED <<input, plan, world, consent>>
    BY <1>0, <2>1, <2>3, AskingKeeps DEF Goto, OpenPlaces, input, consent
  <2>4. QED
    BY <1>5, <2>2, <2>3 DEF AskYAML
<1>6. CASE ApplyCreate
  <2>1. pc = "apply" /\ sent = << >> /\ pc \in AgreedPlaces
    BY <1>0, <1>6 DEF ApplyCreate, ConsentInv, AgreedPlaces
  <2>2. CASE Stop("dry-run")
    BY <2>1, <2>2, StopKeeps
  <2>3. ASSUME NEW w \in plan.writes,
               IF store["object"] # Absent
                 THEN Rejected(w)
                 ELSE Send(w, Just("object", w.object), "error", Finish("created") /\ UNCHANGED plan)
        PROVE  KeepsPromise
    <3>1. AskedFor(w)
      BY DEF AskedFor
    <3>2. QED
      BY <2>1, <2>3, <3>1, SendKeeps DEF Rejected, Finish, NothingResults
  <2>4. QED
    BY <1>6, <2>2, <2>3 DEF ApplyCreate
<1>7. CASE WizardOthers
  BY <1>7, OtherKeeps DEF WizardOthers
<1>8. QED
  BY <1>1, <1>2, <1>3, <1>4, <1>5, <1>6, <1>7 DEF WizardStep, WizardSteps

LEMMA MutationKeeps ==
  ASSUME ConsentInv, MutationInv, MutationStep
  PROVE  KeepsPromise
<1> USE DEF At
<1>0. command = "node mutate" /\ DOMAIN args.names # {}
  BY DEF MutationStep, ConsentInv
<1>1. CASE StartPatches
  <2>1. Announces(Patches) /\ Proceed(Patches, << >>)
    BY <1>0, <1>1 DEF StartPatches, Announces, Patches
  <2>2. QED
    BY <2>1, ProceedKeeps
<1>2. CASE PatchNode
  <2>1. /\ pc = "apply" /\ UNCHANGED <<command, args, pc, agreed, outcome>>
        /\ \E w \in plan.writes \ Range(sent) : sent' = Append(sent, w)
    BY <1>2 DEF PatchNode, input
  <2>2. plan'.writes = plan.writes
    <3>1. plan = [writes |-> Patches, shown |-> plan.shown]
      BY <1>0, <2>1 DEF MutationInv
    <3>2. \E shown : plan' = [plan EXCEPT !.shown = shown]
      BY <1>2 DEF PatchNode
    <3>3. QED
      BY <3>1, <3>2
  <2>3. Sends
    <3>1. PICK w \in plan.writes \ Range(sent) : sent' = Append(sent, w)
      BY <2>1
    <3>2. sent \in Seq(plan.writes) /\ agreed = plan.writes /\ pc \in AgreedPlaces
      BY <1>0, <2>1 DEF MutationInv, ConsentInv, AgreedPlaces
    <3>3. w \in Range(sent')
      BY <3>1, <3>2, RangeOfAppend
    <3>4. QED
      BY <1>0, <2>1, <3>1, <3>2, <3>3 DEF Sends, AuthCommands
  <2>4. ConsentInv'
    BY <1>0, <2>1, <2>2 DEF ConsentInv, OpenPlaces, AgreedPlaces
  <2>5. QED
    BY <2>3, <2>4 DEF KeepsPromise
<1>3. CASE PatchesEnd
  BY <1>3, StopKeeps DEF PatchesEnd, NothingResults
<1>4. CASE MutationOthers
  BY <1>4, OtherKeeps DEF MutationOthers
<1>5. QED
  BY <1>1, <1>2, <1>3, <1>4 DEF MutationStep, MutationSteps

LEMMA PromiseKept == CommandsInv /\ Next => KeepsPromise
BY NextOf, UserKeeps, RBACKeeps, AuthKeeps, SSPKeeps, NodeKeeps, PolicyKeeps, AFSKeeps, WizardKeeps,
   MutationKeeps DEF CommandsInv, AuthInv

-----------------------------------------------------------------------------
(***************************************************************************)
(* What each command knows of the service, step by step.                   *)
(***************************************************************************)
LEMMA JustIs == ASSUME NEW a, NEW v  PROVE DOMAIN Just(a, v) = {a} /\ Just(a, v)[a] = v
BY DEF Just

LEMMA HavingStays == ASSUME UNCHANGED <<args, store>>  PROVE UNCHANGED <<Having, Controlled>>
BY DEF Having, Holders, Controlled

\* A binding that is added gives its subjects the role and takes it from nobody.
LEMMA BoundHave ==
  ASSUME FreshBinding \notin DOMAIN store, UNCHANGED args, NEW S,
         store' = With(store, FreshBinding, Binding(args.role, S, TRUE))
  PROVE  Having \cup S \subseteq Having'
<1> DEFINE binding == Binding(args.role, S, TRUE)
<1>1. binding.is = "binding" /\ binding.controlled /\ binding.role = args.role /\ binding.subjects = S
  BY DEF Binding
<1> HIDE DEF binding
<1>2. DOMAIN store' = DOMAIN store \cup {FreshBinding}
  BY DEF With
<1>3. store'[FreshBinding] = binding
  BY DEF With, binding
<1>4. ASSUME NEW b \in DOMAIN store  PROVE store'[b] = store[b]
  BY <1>4 DEF With
<1>5. Controlled \cup {FreshBinding} \subseteq Controlled'
  BY <1>1, <1>2, <1>3, <1>4, ZenonT(30) DEF Controlled
<1>6. Controlled \subseteq DOMAIN store
  BY DEF Controlled
<1>7. ASSUME NEW m \in Having  PROVE m \in Having'
  <2>1. PICK b \in Controlled : store[b].role = args.role /\ m \in store[b].subjects
    BY <1>7 DEF Having, Holders
  <2>2. b \in Controlled' /\ store'[b] = store[b]
    BY <1>4, <1>5, <1>6
  <2>3. QED
    BY <2>1, <2>2 DEF Having, Holders
<1>8. ASSUME NEW m \in S  PROVE m \in Having'
  BY <1>1, <1>3, <1>5, <1>8 DEF Having, Holders
<1>9. QED
  BY <1>7, <1>8

LEMMA RBACNext ==
  ASSUME ConsentInv, RBACInv, Next
  PROVE  RBACInv'
<1> USE DEF At
<1>h. /\ Holders(Controlled, args.role) = Having
      /\ Holders(Controlled, args.role)' = Having'
  BY DEF Having
<1>i. pc # "end" /\ UNCHANGED <<command, args>>
  BY InputStays
<1>o. outcome = ""
  BY <1>i DEF ConsentInv
<1>r. Requested' = Requested
  BY <1>i DEF Requested
<1>0. CASE command \notin {"rbac grant", "rbac remove"}
  BY <1>0, <1>i DEF RBACInv, GrantInv, UnbindInv, RBACReport
<1>1. CASE GivesUp
  BY <1>1, <1>i DEF GivesUp, RBACInv, GrantInv, UnbindInv, RBACReport, world
<1>2. CASE Confirm
  <2>1. pc = "confirm" /\ pc' = "apply" /\ UNCHANGED <<plan, store, touched, sent, outcome>>
    BY <1>2 DEF Confirm, Goto, world
  <2>2. UNCHANGED Having
    BY <1>i, <2>1, HavingStays
  <2>3. GrantInv'
    BY <1>i, <1>r, <2>1, <2>2 DEF RBACInv, GrantInv
  <2>4. QED
    BY <1>i, <1>o, <2>1, <2>3 DEF RBACInv, UnbindInv, RBACReport
<1>3. CASE PrepareGrant
  <2>1. CASE Present({Bind(args.role, Pending)}, << >>)
    <3>1. /\ plan'.writes = {Bind(args.role, Pending)} /\ UNCHANGED <<store, touched>>
          /\ outcome' \in {"", "dry-run"}
      BY <1>o, <2>1, PresentEffect
    <3>2. /\ Pending \in SUBSET Requested
          /\ \A m \in Requested \ Pending : m \in Having
      BY DEF Pending, Having
    <3>3. UNCHANGED Having
      BY <1>i, <3>1, HavingStays
    <3>4. GrantInv'
      <4>1. \E S \in SUBSET Requested' :
              /\ plan'.writes = {Bind(args.role, S)}
              /\ \A m \in Requested' \ S : m \in Having'
        BY <1>r, <3>1, <3>2, <3>3
      <4>2. QED
        BY <1>i, <3>1, <4>1 DEF RBACInv, GrantInv
    <3>5. QED
      BY <1>3, <1>i, <3>1, <3>4 DEF PrepareGrant, RBACInv, UnbindInv, RBACReport
  <2>2. CASE Pending = {} /\ Stop("already granted")
    <3>1. pc' = "end" /\ outcome' = "already granted" /\ UNCHANGED <<store>>
      BY <2>2 DEF Stop, Finish, world
    <3>2. Requested \subseteq Having
      BY <2>2 DEF Pending, Having
    <3>3. UNCHANGED Having
      BY <1>i, <3>1, HavingStays
    <3>4. QED
      BY <1>3, <1>h, <1>i, <1>r, <3>1, <3>2, <3>3 DEF PrepareGrant, RBACInv, GrantInv, UnbindInv, RBACReport
  <2>3. CASE Stop("error")
    BY <1>3, <1>i, <2>3 DEF PrepareGrant, Stop, Finish, world, RBACInv, GrantInv, UnbindInv, RBACReport
  <2>4. QED
    BY <1>3, <2>1, <2>2, <2>3 DEF PrepareGrant
<1>4. CASE ApplyGrant
  <2>1. PICK S \in SUBSET Requested :
          /\ plan.writes = {Bind(args.role, S)}
          /\ \A m \in Requested \ S : m \in Having \/ touched # {}
    BY <1>4 DEF ApplyGrant, RBACInv, GrantInv
  <2>2. /\ command = "rbac grant" /\ pc' = "end" /\ sent' = Append(sent, Bind(args.role, S)) /\ UNCHANGED touched
        /\ \/ outcome' = "error"
           \/ outcome' = "created" /\ store' = With(store, FreshBinding, Binding(args.role, S, TRUE))
    <3>1. /\ command = "rbac grant" /\ \E w \in plan.writes :
               Send(w, With(store, FreshBinding, Binding(w.role, w.subjects, TRUE)),
                    "error", Finish("created") /\ UNCHANGED plan)
      BY <1>4 DEF ApplyGrant
    <3>2. Send(Bind(args.role, S), With(store, FreshBinding, Binding(args.role, S, TRUE)),
               "error", Finish("created") /\ UNCHANGED plan)
      <4>1. LET w == Bind(args.role, S) IN w.role = args.role /\ w.subjects = S
        BY DEF Bind
      <4>2. QED
        BY <2>1, <3>1, <4>1
    <3>3. QED
      BY <3>1, <3>2 DEF Send, Finish
  <2>3. ASSUME outcome' = "created", NEW m \in Requested
        PROVE  m \in Having' \/ (m \notin S /\ touched' # {})
    <3>1. DOMAIN store = Bindings /\ FreshBinding \notin DOMAIN store
      BY <1>i, <2>2, RBACAssumption DEF RBACInv, GrantInv
    <3>2. Having \cup S \subseteq Having'
      BY <1>i, <2>2, <2>3, <3>1, BoundHave
    <3>3. QED
      BY <2>1, <2>2, <2>3, <3>2
  <2>4. UNION {w.subjects : w \in Range(sent')} = S
    <3>1. Range(sent') = {Bind(args.role, S)}
      BY <1>4, <2>2, OneSent DEF ApplyGrant, ConsentInv
    <3>2. QED
      BY <3>1 DEF Bind
  <2>5. RBACReport'
    BY <1>h, <1>i, <1>r, <2>2, <2>3, <2>4 DEF RBACReport
  <2>6. QED
    BY <1>i, <2>2, <2>5 DEF RBACInv, GrantInv, UnbindInv
<1>5. CASE PrepareRemove
  <2>1. /\ command = "rbac remove" /\ UNCHANGED store /\ outcome' \in {"", "error", "dry-run"}
    BY <1>5, <1>o, PresentEffect DEF PrepareRemove, Stop, Finish, world
  <2>2. QED
    BY <1>i, <2>1 DEF RBACInv, GrantInv, UnbindInv, RBACReport
<1>6. CASE ApplyRemove
  <2>1. command = "rbac remove" /\ args.name \in DOMAIN store /\ DOMAIN store = Bindings
    BY <1>6 DEF ApplyRemove, RBACInv, UnbindInv
  <2>2. /\ DOMAIN store' = DOMAIN store
        /\ outcome' = "deleted" => store'[args.name] = Absent
    BY <1>6, <2>1 DEF ApplyRemove, Send, Rejected, Finish
  <2>3. QED
    BY <1>i, <2>1, <2>2 DEF RBACInv, GrantInv, UnbindInv, RBACReport
<1>7. CASE RBACOthers
  <2>1. PICK b \in Bindings, v \in BindingValues : Touch(b, v)
    BY <1>7 DEF RBACOthers
  <2>2. /\ DOMAIN store' = DOMAIN store /\ touched' # {}
        /\ UNCHANGED <<plan, pc, outcome>>
    BY <2>1 DEF Touch
  <2>3. QED
    BY <1>i, <1>o, <1>r, <2>2 DEF RBACInv, GrantInv, UnbindInv, RBACReport
<1>8. QED
  BY <1>0, <1>1, <1>2, <1>3, <1>4, <1>5, <1>6, <1>7, NextOf
  DEF RBACStep, AuthStep, SSPStep, NodeStep, PolicyStep, AFSStep, WizardStep, MutationStep, RBACSteps

LEMMA FirstIs ==
  ASSUME NEW ids \in SUBSET Nat, ids # {}
  PROVE  FirstOf(ids) \in ids
<1>1. IsWellFoundedOn(OpToRel(<, Nat), Nat)
  BY NatLessThanWellFounded
<1>2. PICK p \in ids : \A q \in ids : <<q, p>> \notin OpToRel(<, Nat)
  BY <1>1, WFMin
<1>3. ASSUME NEW q \in ids, q < p  PROVE FALSE
  <2>1. <<q, p>> \in OpToRel(<, Nat)
    BY <1>3 DEF OpToRel
  <2>2. QED
    BY <1>2, <2>1
<1>4. \A q \in ids : p <= q
  BY <1>3
<1>5. QED
  BY <1>4 DEF FirstOf

\* The policy of the request, once it is there, is one that gives the role.
LEMMA FreshGives ==
  ASSUME NEW scope, FreshPolicy \in DOMAIN store, store[FreshPolicy] = Policy(scope, {args.role})
  PROVE  Giving(MemberPolicies, scope) # {}
<1>1. LET p == Policy(scope, {args.role}) IN
      p.is = "policy" /\ p.scope = scope /\ args.role \in p.roles
  BY DEF Policy
<1>2. FreshPolicy \notin Scopes
  BY AuthAssumption
<1>3. FreshPolicy \in Giving(MemberPolicies, scope)
  BY <1>1, <1>2 DEF Giving, MemberPolicies
<1>4. QED
  BY <1>3

LEMMA FoundIs == Found \subseteq Scopes
BY DEF Found

LEMMA LessIsOther == ASSUME NEW x \in Nat, NEW y \in Nat, x < y  PROVE x # y
OBVIOUS

LEMMA AuthGrantNext ==
  ASSUME ConsentInv, AuthInv, Next, command = "auth grant"
  PROVE  AuthGrantInv' /\ AuthReport'
<1> USE DEF At
<1>i. pc # "end" /\ UNCHANGED <<command, args>>
  BY InputStays
<1>o. outcome = "" /\ AuthGrantInv
  BY <1>i DEF ConsentInv, AuthInv
<1>f. FreshPolicy \notin Resources
  <2>1. FreshPolicy \notin Scopes
    BY AuthAssumption
  <2>2. ASSUME NEW p \in Policies  PROVE p # FreshPolicy
    <3>1. p \in Nat /\ FreshPolicy \in Nat /\ p < FreshPolicy
      BY AuthAssumption
    <3>2. QED
      BY <3>1, LessIsOther
  <2>3. QED
    BY <2>1, <2>2 DEF Resources
<1>1. ASSUME GivesUp \/ Stop("error")
      PROVE  AuthGrantInv' /\ AuthReport'
  <2>1. pc' = "end" /\ outcome' \in {"error", "cancelled"} /\ UNCHANGED <<store, plan>>
    BY <1>1 DEF GivesUp, Stop, Finish, world
  <2>2. QED
    BY <1>i, <1>o, <2>1 DEF AuthGrantInv, AuthReport
<1>n. ASSUME NotFound
      PROVE  AuthGrantInv' /\ AuthReport'
  BY <1>n, <1>1 DEF NotFound
<1>2. CASE Confirm
  <2>1. pc = "confirm" /\ pc' = "apply" /\ UNCHANGED <<plan, store, outcome>>
    BY <1>2 DEF Confirm, Goto, world
  <2>2. QED
    BY <1>i, <1>o, <2>1 DEF AuthGrantInv, AuthReport
<1>3. ASSUME NEW s \in Found, Giving(MemberPolicies, s) # {}, Stop("already exists"), sent = << >>
      PROVE  AuthGrantInv' /\ AuthReport'
  <2>1. pc' = "end" /\ UNCHANGED <<store, plan, sent>> /\ s \in Scopes
    BY <1>3, FoundIs DEF Stop, Finish, world, consent
  <2>2. (Giving(MemberPolicies, s) # {})'
    BY <1>3, <1>i, <2>1 DEF Giving, MemberPolicies
  <2>3. QED
    BY <1>3, <1>i, <1>o, <2>1, <2>2 DEF AuthGrantInv, AuthReport
<1>4. CASE PreflightGrant
  <2>1. sent = << >>
    BY <1>4 DEF PreflightGrant, ConsentInv, OpenPlaces
  <2>2. ASSUME NEW s, Present({Grant(s)}, Just(s, store[s]))
        PROVE  AuthGrantInv' /\ AuthReport'
    <3>1. /\ pc' \in {"confirm", "end"} /\ outcome' \in {"", "dry-run"} /\ UNCHANGED store
      BY <1>o, <2>2, PresentEffect
    <3>2. QED
      BY <1>4, <1>i, <1>o, <3>1 DEF PreflightGrant, AuthGrantInv, AuthReport
  <2>3. QED
    BY <1>4, <1>n, <1>3, <2>1, <2>2 DEF PreflightGrant
<1>5. CASE ResolveGrant
  <2>1. sent = << >> /\ pc = "apply"
    BY <1>5 DEF ResolveGrant, ConsentInv
  <2>2. ASSUME NEW s \in Found, Resolved(s, FreshPolicy, ""), Goto("create"),
               UNCHANGED <<input, world, consent>>
        PROVE  AuthGrantInv' /\ AuthReport'
    <3>1. /\ plan' = [writes |-> plan'.writes, shown |-> plan'.shown,
                     scope |-> plan'.scope, id |-> plan'.id, reply |-> plan'.reply]
          /\ plan'.scope = s /\ plan'.reply = ""
      BY <2>2 DEF Resolved
    <3>2. pc' = "create" /\ UNCHANGED <<store, outcome>> /\ s \in Scopes
      BY <2>2, FoundIs DEF Goto, world
    <3>3. QED
      BY <1>i, <1>o, <2>1, <3>1, <3>2 DEF AuthGrantInv, AuthReport, NothingResults
  <2>3. QED
    BY <1>5, <1>n, <1>3, <2>1, <2>2 DEF ResolveGrant
<1>6. CASE BatchCreate
  <2>1. /\ pc = "create" /\ DOMAIN store = Resources /\ plan.scope \in Scopes
        /\ plan = [writes |-> plan.writes, shown |-> plan.shown,
                   scope |-> plan.scope, id |-> plan.id, reply |-> plan.reply]
    BY <1>6, <1>o DEF BatchCreate, AuthGrantInv
  <2> DEFINE granted == With(store, FreshPolicy, Policy(plan.scope, {args.role}))
  <2>2. DOMAIN granted = Resources \cup {FreshPolicy} /\ granted[FreshPolicy] = Policy(plan.scope, {args.role})
    BY <2>1 DEF With
  <2> HIDE DEF granted
  <2>3. store' \in {store, granted}
    BY <1>6 DEF BatchCreate, Send, granted
  <2>4. DOMAIN store' = IF FreshPolicy \in DOMAIN store' THEN Resources \cup {FreshPolicy} ELSE Resources
    BY <1>f, <2>1, <2>2, <2>3
  <2>5. ASSUME NEW replies, Unverified(replies), replies \cap NothingResults = {},
               store' = granted \/ replies \cap {"created", "already exists"} = {}
        PROVE  AuthGrantInv' /\ AuthReport'
    <3>1. PICK r \in replies : plan' = [plan EXCEPT !.reply = r]
      BY <2>5 DEF Unverified
    <3>2. /\ plan' = [writes |-> plan'.writes, shown |-> plan'.shown,
                     scope |-> plan'.scope, id |-> plan'.id, reply |-> plan'.reply]
          /\ plan'.scope = plan.scope /\ plan'.reply = r
      BY <2>1, <3>1
    <3>3. pc' = "verify" /\ outcome' = ""
      BY <1>o, <2>5 DEF Unverified, Goto
    <3>4. plan'.reply \in {"created", "already exists"} =>
            FreshPolicy \in DOMAIN store' /\ store'[FreshPolicy] = Policy(plan'.scope, {args.role})
      BY <2>2, <2>5, <3>2
    <3>5. QED
      BY <1>i, <2>1, <2>4, <2>5, <3>2, <3>3, <3>4 DEF AuthGrantInv, AuthReport
  <2>6. ASSUME NEW result, Finish(result),
               result \in {"created", "already exists"} => Giving(MemberPolicies, plan.scope)' # {} /\ plan' = plan
        PROVE  AuthGrantInv' /\ AuthReport'
    <3>1. pc' = "end" /\ outcome' = result
      BY <2>6 DEF Finish
    <3>2. AuthGrantInv'
      BY <1>i, <2>4, <3>1 DEF AuthGrantInv
    <3>3. AuthReport'
      BY <1>i, <2>1, <2>6, <3>1 DEF AuthReport
    <3>4. QED
      BY <3>2, <3>3
  <2>7. CASE Giving(MemberPolicies, plan.scope) # {}
    <3>1. /\ store' = store
          /\ \/ Finish("error")
             \/ Unverified({"accepted (unverified)", "failed"})
             \/ Finish("already exists") /\ UNCHANGED plan
      BY <1>6, <2>7 DEF BatchCreate, Send
    <3>2. (plan' = plan) => Giving(MemberPolicies, plan.scope)' # {}
      BY <1>i, <2>7, <3>1 DEF Giving, MemberPolicies
    <3>3. QED
      BY <2>5, <2>6, <3>1, <3>2 DEF NothingResults
  <2>8. CASE Giving(MemberPolicies, plan.scope) = {}
    <3>1. \/ Finish("error")
          \/ Unverified({"accepted (unverified)", "failed"})
          \/ /\ store' = granted
             /\ \/ Finish("created") /\ UNCHANGED plan
                \/ Unverified({"created", "accepted (unverified)", "failed"})
      BY <1>6, <2>8 DEF BatchCreate, Send, granted
    <3>2. store' = granted /\ plan' = plan => Giving(MemberPolicies, plan.scope)' # {}
      <4> SUFFICES ASSUME store' = granted, plan' = plan
                   PROVE  Giving(MemberPolicies, plan.scope)' # {}
        OBVIOUS
      <4>1. (FreshPolicy \in DOMAIN store /\ store[FreshPolicy] = Policy(plan.scope, {args.role}))'
        BY <1>i, <2>2
      <4>2. LET p == Policy(plan.scope, {args.role}) IN
            p.is = "policy" /\ p.scope = plan.scope /\ args.role \in p.roles
        BY DEF Policy
      <4>3. FreshPolicy \notin Scopes
        BY AuthAssumption
      <4>4. QED
        BY <1>i, <4>1, <4>2, <4>3 DEF Giving, MemberPolicies
    <3>3. QED
      BY <2>5, <2>6, <3>1, <3>2 DEF NothingResults
  <2>9. QED
    BY <2>7, <2>8
<1>7. CASE Verify
  <2>1. /\ pc = "verify" /\ pc' = "end" /\ plan.scope \in Scopes
        /\ UNCHANGED <<plan, store>>
        /\ Removable(plan.scope) # {} \/ outcome' = plan.reply
    BY <1>7, <1>o DEF Verify, Finish, AuthGrantInv, world
  <2>2. AuthGrantInv'
    BY <1>i, <1>o, <2>1 DEF AuthGrantInv
  <2>3. ASSUME outcome' \in {"created", "already exists"}
        PROVE  Giving(MemberPolicies, plan.scope) # {}
    <3>1. CASE Removable(plan.scope) # {}
      BY <3>1 DEF Removable, FirstPage, PoliciesBeside, Giving
    <3>2. CASE outcome' = plan.reply
      BY <1>o, <2>1, <2>3, <3>2, FreshGives DEF AuthGrantInv
    <3>3. QED
      BY <2>1, <3>1, <3>2
  <2>4. Giving(MemberPolicies, plan.scope)' = Giving(MemberPolicies, plan.scope)
    BY <1>i, <2>1 DEF Giving, MemberPolicies
  <2>5. AuthReport'
    BY <1>i, <2>1, <2>3, <2>4 DEF AuthReport
  <2>6. QED
    BY <2>2, <2>5
<1>8. CASE AuthOthers
  <2>0. PICK thing \in Resources : \E v : Touch(thing, v)
    BY <1>8 DEF AuthOthers, Resources
  <2>1. PICK v : Touch(thing, v)
    BY <2>0
  <2>2. /\ store' = [store EXCEPT ![thing] = v]
        /\ UNCHANGED <<plan, pc, outcome>>
    BY <2>1 DEF Touch
  <2>3. DOMAIN store' = DOMAIN store
    BY <2>2
  <2>4. FreshPolicy \in DOMAIN store => store'[FreshPolicy] = store[FreshPolicy]
    BY <1>f, <2>2
  <2>5. QED
    BY <1>i, <1>o, <2>2, <2>3, <2>4 DEF AuthGrantInv, AuthReport
<1>9. QED
  BY <1>1, <1>2, <1>4, <1>5, <1>6, <1>7, <1>8, NextOf
  DEF RBACStep, AuthStep, SSPStep, NodeStep, PolicyStep, AFSStep, WizardStep, MutationStep, AuthSteps,
      PreflightRemove, ResolveRemove, DeletePolicy

LEMMA AuthRemoveNext ==
  ASSUME ConsentInv, AuthInv, Next, command = "auth remove"
  PROVE  AuthRemoveInv' /\ AuthReport'
<1> USE DEF At
<1>i. pc # "end" /\ UNCHANGED <<command, args>>
  BY InputStays
<1>o. /\ outcome = "" /\ DOMAIN store = Resources
      /\ pc = "delete" => /\ plan.id \in Policies
                          /\ plan.id \in touched \/ args.role \in store[plan.id].roles
  BY <1>i DEF ConsentInv, AuthInv, AuthRemoveInv
<1>1. ASSUME pc' \in {"confirm", "apply", "end"}, outcome' # "removed", UNCHANGED store
      PROVE  AuthRemoveInv' /\ AuthReport'
  BY <1>1, <1>i, <1>o DEF AuthRemoveInv, AuthReport
<1>2. CASE GivesUp \/ Confirm
  BY <1>1, <1>2, <1>o DEF GivesUp, Confirm, Goto, world
<1>n. ASSUME NotFound \/ Stop("not found")
      PROVE  AuthRemoveInv' /\ AuthReport'
  BY <1>n, <1>1 DEF NotFound, Stop, Finish, world
<1>3. CASE PreflightRemove
  <2>1. ASSUME NEW W, NEW shown, Present(W, shown)
        PROVE  AuthRemoveInv' /\ AuthReport'
    BY <1>1, <1>o, <2>1, PresentEffect
  <2>2. QED
    BY <1>3, <1>n, <2>1 DEF PreflightRemove
<1>4. CASE ResolveRemove
  <2>1. ASSUME NEW s \in Found, Removable(s) # {},
               Resolved(s, FirstOf(Removable(s)), ""),
               Goto("delete"), UNCHANGED <<input, world, consent>>
        PROVE  AuthRemoveInv' /\ AuthReport'
    <3> DEFINE p == FirstOf(Removable(s))
    <3>1. Removable(s) \subseteq Policies
      BY <1>o DEF Removable, Giving, FirstPage, PoliciesBeside, MemberPolicies, Resources
    <3>2. p \in Removable(s)
      <4>1. Removable(s) \in SUBSET Nat
        BY <3>1, AuthAssumption
      <4>2. QED
        BY <2>1, <4>1, FirstIs
    <3>3. args.role \in store[p].roles /\ p \in Policies
      BY <3>1, <3>2 DEF Removable, Giving
    <3> HIDE DEF p
    <3>4. plan'.id = p /\ pc' = "delete" /\ UNCHANGED <<store, touched, outcome>>
      BY <2>1 DEF Resolved, Goto, world, p
    <3>5. QED
      BY <1>i, <1>o, <3>3, <3>4 DEF AuthRemoveInv, AuthReport
  <2>2. QED
    BY <1>4, <1>n, <2>1 DEF ResolveRemove
<1>5. CASE DeletePolicy
  <2>1. /\ pc = "delete" /\ pc' = "end" /\ plan.id \in Resources
        /\ DOMAIN store' = DOMAIN store
        /\ outcome' = "removed" => store'[plan'.id] = Absent
    BY <1>5, <1>o DEF DeletePolicy, Rejected, Send, Finish, Resources
  <2>2. QED
    BY <1>i, <1>o, <2>1 DEF AuthRemoveInv, AuthReport
<1>6. CASE AuthOthers
  <2>0. PICK thing \in Resources : \E v : Touch(thing, v)
    BY <1>6 DEF AuthOthers, Resources
  <2>1. PICK v : Touch(thing, v)
    BY <2>0
  <2>2. /\ store' = [store EXCEPT ![thing] = v] /\ touched' = touched \cup {thing}
        /\ UNCHANGED <<plan, pc, outcome>>
    BY <2>1 DEF Touch
  <2>3. DOMAIN store' = DOMAIN store
    BY <2>2
  <2>4. pc = "delete" => plan.id \in touched' \/ args.role \in store'[plan.id].roles
    <3>1. CASE plan.id = thing
      BY <2>2, <3>1
    <3>2. CASE pc = "delete" /\ plan.id # thing
      <4>1. plan.id \in DOMAIN store
        BY <1>o, <3>2 DEF Resources
      <4>2. store'[plan.id] = store[plan.id]
        BY <2>2, <3>2, <4>1
      <4>3. QED
        BY <1>o, <2>2, <3>2, <4>2
    <3>3. QED
      BY <3>1, <3>2
  <2>5. UNCHANGED <<plan, pc, outcome>>
    BY <2>2
  <2>6. AuthReport'
    BY <1>i, <1>o, <2>5 DEF AuthReport
  <2>7. AuthRemoveInv'
    BY <1>i, <1>o, <2>3, <2>4, <2>5 DEF AuthRemoveInv
  <2>8. QED
    BY <2>6, <2>7
<1>7. QED
  BY <1>2, <1>3, <1>4, <1>5, <1>6, NextOf
  DEF RBACStep, AuthStep, SSPStep, NodeStep, PolicyStep, AFSStep, WizardStep, MutationStep, AuthSteps,
      PreflightGrant, ResolveGrant, BatchCreate, Verify

LEMMA AuthNext ==
  ASSUME ConsentInv, AuthInv, Next
  PROVE  AuthInv'
<1>1. UNCHANGED <<command, args>>
  BY InputStays
<1>2. CASE command = "auth grant"
  BY <1>1, <1>2, AuthGrantNext DEF AuthInv, AuthRemoveInv
<1>3. CASE command = "auth remove"
  BY <1>1, <1>3, AuthRemoveNext DEF AuthInv, AuthGrantInv
<1>4. CASE command \notin {"auth grant", "auth remove"}
  BY <1>1, <1>4 DEF AuthInv, AuthGrantInv, AuthRemoveInv, AuthReport
<1>5. QED
  BY <1>2, <1>3, <1>4

LEMMA SSPNext ==
  ASSUME ConsentInv, SSPInv, Next
  PROVE  SSPInv'
<1> USE DEF At
<1>i. pc # "end" /\ UNCHANGED <<command, args>>
  BY InputStays
<1>o. outcome = ""
  BY <1>i DEF ConsentInv
<1>0. CASE command # "auth ssp grant"
  BY <1>0, <1>i DEF SSPInv, SSPReport
<1>s. ASSUME command = "auth ssp grant", pc' # "add", outcome' # "updated", UNCHANGED store
      PROVE  SSPInv'
  BY <1>s, <1>i DEF SSPInv, SSPReport
<1>1. CASE command = "auth ssp grant" /\ (GivesUp \/ Confirm)
  BY <1>1, <1>o, <1>s DEF GivesUp, Confirm, Goto, world
<1>e. ASSUME command = "auth ssp grant", Stop("error")
      PROVE  SSPInv'
  BY <1>e, <1>s DEF Stop, Finish, world
<1>2. CASE PreflightSSP
  <2>1. ASSUME NEW W, NEW shown, Present(W, shown)
        PROVE  SSPInv'
    BY <1>2, <1>o, <1>s, <2>1, PresentEffect DEF PreflightSSP
  <2>2. Stop("error") \/ \E W, shown : Present(W, shown)
    BY <1>2 DEF PreflightSSP
  <2>3. QED
    BY <1>2, <1>e, <2>1, <2>2 DEF PreflightSSP
<1>3. CASE ResolveSSP
  <2>1. ASSUME NEW w \in WorkspacesFound, RolesResolve(w),
               plan' = [writes |-> plan.writes, shown |-> plan.shown,
                        workspace |-> w, roles |-> SelectedRoles(w)],
               Goto("add"), UNCHANGED <<input, world, consent>>
        PROVE  SSPInv'
    <3>1. plan'.workspace = w /\ plan'.roles = SelectedRoles(w) /\ w \in Workspaces
      BY <2>1 DEF WorkspacesFound
    <3>2. command = "auth ssp grant" /\ UNCHANGED <<store, outcome>>
      BY <1>3, <2>1 DEF ResolveSSP, Goto, world
    <3>3. ASSUME NEW n \in args.names  PROVE RolesCalled[n] \cap SelectedRoles(w) # {}
      <4>1. Cardinality(RolesCalled[n] \cap store[w].offered) = 1
        BY <2>1 DEF RolesResolve
      <4>2. RolesCalled[n] \cap store[w].offered # {}
        BY <4>1, FS_EmptySet
      <4>3. QED
        BY <4>2 DEF SelectedRoles
    <3>4. QED
      BY <1>i, <1>o, <3>1, <3>2, <3>3 DEF SSPInv, SSPReport
  <2>2. QED
    BY <1>3, <1>e, <2>1 DEF ResolveSSP
<1>4. CASE AddMembers
  <2>1. /\ command = "auth ssp grant" /\ DOMAIN store = Workspaces /\ plan.workspace \in Workspaces
        /\ \A n \in args.names : RolesCalled[n] \cap plan.roles # {}
    BY <1>4 DEF AddMembers, SSPInv
  <2> DEFINE there == store[plan.workspace]
  <2> DEFINE joined == Workspace(there.offered, there.held \cup plan.roles)
  <2>2. pc' = "end" /\ DOMAIN store' = DOMAIN store
    BY <1>4 DEF AddMembers, Send, Rejected, Finish
  <2>3. ASSUME outcome' = "updated", NEW n \in args.names
        PROVE  RolesCalled[n] \cap store'[plan'.workspace].held # {}
    <3>1. store' = [store EXCEPT ![plan.workspace] = joined] /\ plan' = plan
      BY <1>4, <2>3 DEF AddMembers, Send, Rejected, Finish
    <3>2. store'[plan'.workspace] = joined
      BY <2>1, <3>1
    <3>3. joined.held = there.held \cup plan.roles
      BY DEF Workspace
    <3>4. QED
      BY <2>1, <3>2, <3>3
  <2>4. QED
    BY <1>i, <2>1, <2>2, <2>3 DEF SSPInv, SSPReport
<1>5. CASE SSPOthers
  <2>1. PICK thing, v : Touch(thing, v)
    BY <1>5 DEF SSPOthers
  <2>2. DOMAIN store' = DOMAIN store /\ UNCHANGED <<plan, pc, outcome>>
    BY <2>1 DEF Touch
  <2>3. QED
    BY <1>i, <1>o, <2>2 DEF SSPInv, SSPReport
<1>6. QED
  BY <1>0, <1>1, <1>2, <1>3, <1>4, <1>5, NextOf
  DEF RBACStep, AuthStep, SSPStep, NodeStep, PolicyStep, AFSStep, WizardStep, MutationStep, SSPSteps

(***************************************************************************)
(* What the auth commands ask for, and what they find again.               *)
(***************************************************************************)
\* The steps that keep a plan: answers, and what others do.
Keeps ==
  /\ plan' = plan
  /\ touched' # {} \/ UNCHANGED <<store, touched>>
  /\ pc' = pc \/ (pc = "confirm" /\ pc' \in {"apply", "end"}) \/ pc' = "end"

LEMMA TouchKeepsPlan ==
  ASSUME NEW thing, NEW value, Touch(thing, value)
  PROVE  Keeps
BY DEF Touch, Keeps

LEMMA UserKeepsPlan ==
  ASSUME Confirm \/ GivesUp
  PROVE  Keeps
BY DEF Confirm, GivesUp, Goto, Keeps, world

LEMMA StopEnds ==
  ASSUME NEW result, Stop(result) \/ Finish(result)
  PROVE  pc' = "end"
BY DEF Stop, Finish

LEMMA GrantAskNext ==
  ASSUME GrantAsk, Next
  PROVE  GrantAsk'
<1> USE DEF At
<1>i. UNCHANGED <<command, args>>
  BY InputStays
<1>0. CASE command # "auth grant"
  BY <1>0, <1>i DEF GrantAsk
<1>e. ASSUME pc' \in {"end", "verify"}  PROVE GrantAsk'
  BY <1>e DEF GrantAsk
<1>g. \A s : Grant(s)' = Grant(s)
  BY <1>i DEF Grant
<1>k. ASSUME command = "auth grant", Keeps  PROVE GrantAsk'
  <2>1. ASSUME pc' \in {"confirm", "apply", "create"}
        PROVE  \E s \in Scopes : plan'.writes = {Grant(s)'} /\ (touched' = {} => s \in Found')
    <3>1. PICK s \in Scopes : plan.writes = {Grant(s)} /\ (touched = {} => s \in Found)
      BY <1>k, <2>1 DEF GrantAsk, Keeps
    <3>2. touched' = {} => touched = {} /\ Found' = Found
      BY <1>k DEF Keeps, Found
    <3>3. QED
      BY <1>k, <1>g, <3>1, <3>2 DEF Keeps
  <2>2. ASSUME pc' = "create", touched' = {}  PROVE plan'.scope \in Found'
    <3>1. pc = "create" /\ touched = {} /\ Found' = Found /\ plan' = plan
      BY <1>k, <2>2 DEF Keeps, Found
    <3>2. QED
      BY <1>k, <3>1 DEF GrantAsk
  <2>3. QED
    BY <1>i, <2>1, <2>2 DEF GrantAsk
<1>1. CASE command = "auth grant" /\ (Confirm \/ GivesUp)
  BY <1>1, <1>k, UserKeepsPlan
<1>2. CASE PreflightGrant
  <2>1. ASSUME NEW s \in Found, Present({Grant(s)}, Just(s, store[s]))
        PROVE  GrantAsk'
    <3>1. plan'.writes = {Grant(s)} /\ pc' # "create" /\ UNCHANGED <<store, touched>>
      BY <1>2, <2>1, PresentEffect DEF PreflightGrant
    <3>2. s \in Scopes /\ s \in Found'
      BY <3>1 DEF Found
    <3>3. QED
      BY <1>i, <1>g, <3>1, <3>2 DEF GrantAsk
  <2>2. QED
    BY <1>2, <1>e, <2>1, StopEnds DEF PreflightGrant, NotFound
<1>3. CASE ResolveGrant
  <2>1. ASSUME NEW s \in Found, Resolved(s, FreshPolicy, ""), Goto("create"),
               UNCHANGED <<input, world, consent>>
        PROVE  GrantAsk'
    <3>1. plan'.writes = plan.writes /\ plan'.scope = s /\ pc = "apply" /\ command = "auth grant"
      BY <1>3, <2>1 DEF Resolved, ResolveGrant
    <3>2. UNCHANGED <<store, touched>> /\ Found' = Found
      BY <2>1 DEF world, Found
    <3>3. PICK t \in Scopes : plan.writes = {Grant(t)} /\ (touched = {} => t \in Found)
      BY <3>1 DEF GrantAsk
    <3>4. QED
      BY <1>i, <1>g, <3>1, <3>2, <3>3 DEF GrantAsk
  <2>2. QED
    BY <1>3, <1>e, <2>1, StopEnds DEF ResolveGrant, NotFound
<1>4. CASE BatchCreate \/ Verify
  BY <1>4, <1>e DEF BatchCreate, Verify, Send, Unverified, Finish, Goto
<1>5. CASE command = "auth grant" /\ AuthOthers
  BY <1>5, <1>k, TouchKeepsPlan DEF AuthOthers
<1>6. QED
  BY <1>0, <1>1, <1>2, <1>3, <1>4, <1>5, NextOf
  DEF RBACStep, AuthStep, SSPStep, NodeStep, PolicyStep, AFSStep, WizardStep, MutationStep,
      AuthSteps, PreflightRemove, ResolveRemove, DeletePolicy

\* What a removal looks up is the same as long as the store is.
LEMMA RemovalsStay ==
  ASSUME UNCHANGED <<args, store>>
  PROVE  \A s : FirstOf(Removable(s))' = FirstOf(Removable(s))
BY DEF FirstOf, Removable, Giving, FirstPage, PoliciesBeside, MemberPolicies

LEMMA RemoveAskNext ==
  ASSUME RemoveAsk, Next
  PROVE  RemoveAsk'
<1> USE DEF At
<1>i. UNCHANGED <<command, args>>
  BY InputStays
<1>0. CASE command # "auth remove"
  BY <1>0, <1>i DEF RemoveAsk
<1>e. ASSUME pc' = "end"  PROVE RemoveAsk'
  BY <1>e DEF RemoveAsk
<1>g. \A s, p : Revoke(p, s)' = Revoke(p, s)
  BY <1>i DEF Revoke
<1>u. UNCHANGED store => \A s : FirstOf(Removable(s))' = FirstOf(Removable(s))
  BY <1>i, RemovalsStay
<1>k. ASSUME command = "auth remove", Keeps  PROVE RemoveAsk'
  <2>1. ASSUME pc' \in {"confirm", "apply", "delete"}
        PROVE  \E s \in Scopes : \E p :
                 /\ plan'.writes = {Revoke(p, s)'}
                 /\ touched' = {} => s \in Found' /\ p = FirstOf(Removable(s))'
    <3>1. PICK s \in Scopes : \E p :
            /\ plan.writes = {Revoke(p, s)}
            /\ touched = {} => s \in Found /\ p = FirstOf(Removable(s))
      BY <1>k, <2>1 DEF RemoveAsk, Keeps
    <3>2. PICK p : /\ plan.writes = {Revoke(p, s)}
                   /\ touched = {} => s \in Found /\ p = FirstOf(Removable(s))
      BY <3>1
    <3>3. touched' = {} => touched = {} /\ Found' = Found /\ UNCHANGED store
      BY <1>k DEF Keeps, Found
    <3>4. plan'.writes = {Revoke(p, s)'}
      BY <1>k, <1>g, <3>2 DEF Keeps
    <3>5. touched' = {} => s \in Found' /\ p = FirstOf(Removable(s))'
      BY <1>u, <3>2, <3>3
    <3>6. QED
      BY <3>4, <3>5
  <2>2. ASSUME pc' = "delete", touched' = {}
        PROVE  (plan.scope \in Found /\ plan.id = FirstOf(Removable(plan.scope)))'
    <3>1. pc = "delete" /\ touched = {} /\ Found' = Found /\ plan' = plan /\ UNCHANGED store
      BY <1>k, <2>2 DEF Keeps, Found
    <3>2. plan.scope \in Found /\ plan.id = FirstOf(Removable(plan.scope))
      BY <1>k, <3>1 DEF RemoveAsk
    <3>3. QED
      BY <1>u, <3>1, <3>2
  <2>3. QED
    BY <1>i, <2>1, <2>2 DEF RemoveAsk
<1>1. CASE command = "auth remove" /\ (Confirm \/ GivesUp)
  BY <1>1, <1>k, UserKeepsPlan
<1>2. CASE PreflightRemove
  <2>1. ASSUME NEW s \in Found, NEW p, p = FirstOf(Removable(s)),
               Present({Revoke(p, s)}, Just(p, store[p]))
        PROVE  RemoveAsk'
    <3>1. plan'.writes = {Revoke(p, s)} /\ pc' # "delete" /\ UNCHANGED <<store, touched>>
      BY <1>2, <2>1, PresentEffect DEF PreflightRemove
    <3>2. s \in Scopes /\ s \in Found' /\ p = FirstOf(Removable(s))'
      BY <1>u, <2>1, <3>1 DEF Found
    <3>3. plan'.writes = {Revoke(p, s)'}
      BY <1>g, <3>1
    <3>4. QED
      BY <1>i, <3>1, <3>2, <3>3 DEF RemoveAsk
  <2>2. QED
    BY <1>2, <1>e, <2>1, StopEnds DEF PreflightRemove, NotFound
<1>3. CASE ResolveRemove
  <2>1. ASSUME NEW s \in Found, Resolved(s, FirstOf(Removable(s)), ""), Goto("delete"),
               UNCHANGED <<input, world, consent>>
        PROVE  RemoveAsk'
    <3>1. /\ plan'.writes = plan.writes /\ plan'.scope = s /\ plan'.id = FirstOf(Removable(s))
          /\ pc = "apply" /\ command = "auth remove"
      BY <1>3, <2>1 DEF Resolved, ResolveRemove
    <3>2. UNCHANGED <<store, touched>> /\ Found' = Found
      BY <2>1 DEF world, Found
    <3>3. PICK t \in Scopes : \E p :
            /\ plan.writes = {Revoke(p, t)}
            /\ touched = {} => t \in Found /\ p = FirstOf(Removable(t))
      BY <3>1 DEF RemoveAsk
    <3>4. PICK p : /\ plan.writes = {Revoke(p, t)}
                   /\ touched = {} => t \in Found /\ p = FirstOf(Removable(t))
      BY <3>3
    <3>5. plan'.writes = {Revoke(p, t)'}
      BY <1>g, <3>1, <3>4
    <3>6. touched' = {} => t \in Found' /\ p = FirstOf(Removable(t))'
      BY <1>u, <3>2, <3>4
    <3>7. (plan.scope \in Found /\ plan.id = FirstOf(Removable(plan.scope)))'
      BY <1>u, <3>1, <3>2
    <3>8. QED
      BY <3>5, <3>6, <3>7 DEF RemoveAsk
  <2>2. QED
    BY <1>3, <1>e, <2>1, StopEnds DEF ResolveRemove, NotFound
<1>4. CASE DeletePolicy
  BY <1>4, <1>e DEF DeletePolicy, Send, Rejected, Finish
<1>5. CASE command = "auth remove" /\ AuthOthers
  BY <1>5, <1>k, TouchKeepsPlan DEF AuthOthers
<1>6. QED
  BY <1>0, <1>1, <1>2, <1>3, <1>4, <1>5, NextOf
  DEF RBACStep, AuthStep, SSPStep, NodeStep, PolicyStep, AFSStep, WizardStep, MutationStep,
      AuthSteps, PreflightGrant, ResolveGrant, BatchCreate, Verify

LEMMA SSPAskNext ==
  ASSUME SSPAsk, Next
  PROVE  SSPAsk'
<1> USE DEF At
<1>i. UNCHANGED <<command, args>>
  BY InputStays
<1>0. CASE command # "auth ssp grant"
  BY <1>0, <1>i DEF SSPAsk
<1>e. ASSUME pc' = "end"  PROVE SSPAsk'
  BY <1>e DEF SSPAsk
<1>g. \A w, roles : AddMember(w, roles)' = AddMember(w, roles)
  BY <1>i DEF AddMember
<1>u. UNCHANGED store => \A w : SelectedRoles(w)' = SelectedRoles(w)
  BY <1>i DEF SelectedRoles
<1>k. ASSUME command = "auth ssp grant", Keeps  PROVE SSPAsk'
  <2>1. ASSUME pc' \in {"confirm", "apply", "add"}
        PROVE  \E w \in Workspaces : \E roles :
                 /\ plan'.writes = {AddMember(w, roles)'}
                 /\ touched' = {} => w \in WorkspacesFound' /\ roles = SelectedRoles(w)'
    <3>1. PICK w \in Workspaces : \E roles :
            /\ plan.writes = {AddMember(w, roles)}
            /\ touched = {} => w \in WorkspacesFound /\ roles = SelectedRoles(w)
      BY <1>k, <2>1 DEF SSPAsk, Keeps
    <3>2. PICK roles : /\ plan.writes = {AddMember(w, roles)}
                       /\ touched = {} => w \in WorkspacesFound /\ roles = SelectedRoles(w)
      BY <3>1
    <3>3. touched' = {} => touched = {} /\ WorkspacesFound' = WorkspacesFound /\ UNCHANGED store
      BY <1>k DEF Keeps, WorkspacesFound
    <3>4. plan'.writes = {AddMember(w, roles)'}
      BY <1>k, <1>g, <3>2 DEF Keeps
    <3>5. touched' = {} => w \in WorkspacesFound' /\ roles = SelectedRoles(w)'
      BY <1>u, <3>2, <3>3
    <3>6. QED
      BY <3>4, <3>5
  <2>2. ASSUME pc' = "add", touched' = {}
        PROVE  (plan.workspace \in WorkspacesFound /\ plan.roles = SelectedRoles(plan.workspace))'
    <3>1. /\ pc = "add" /\ touched = {} /\ WorkspacesFound' = WorkspacesFound /\ plan' = plan
          /\ UNCHANGED store
      BY <1>k, <2>2 DEF Keeps, WorkspacesFound
    <3>2. plan.workspace \in WorkspacesFound /\ plan.roles = SelectedRoles(plan.workspace)
      BY <1>k, <3>1 DEF SSPAsk
    <3>3. QED
      BY <1>u, <3>1, <3>2
  <2>3. QED
    BY <1>i, <2>1, <2>2 DEF SSPAsk
<1>1. CASE command = "auth ssp grant" /\ (Confirm \/ GivesUp)
  BY <1>1, <1>k, UserKeepsPlan
<1>2. CASE PreflightSSP
  <2>1. ASSUME NEW w \in WorkspacesFound, Present({AddMember(w, SelectedRoles(w))}, << >>)
        PROVE  SSPAsk'
    <3>1. /\ plan'.writes = {AddMember(w, SelectedRoles(w))} /\ pc' # "add"
          /\ UNCHANGED <<store, touched>>
      BY <1>2, <2>1, PresentEffect DEF PreflightSSP
    <3>2. w \in Workspaces /\ w \in WorkspacesFound'
      BY <3>1 DEF WorkspacesFound
    <3>3. PICK roles : roles = SelectedRoles(w)
      OBVIOUS
    <3>4. plan'.writes = {AddMember(w, roles)'} /\ roles = SelectedRoles(w)'
      BY <1>g, <1>u, <3>1, <3>3
    <3>5. QED
      BY <1>i, <3>1, <3>2, <3>4 DEF SSPAsk
  <2>2. QED
    BY <1>2, <1>e, <2>1, StopEnds DEF PreflightSSP
<1>3. CASE ResolveSSP
  <2>1. ASSUME NEW w \in WorkspacesFound,
               plan' = [writes |-> plan.writes, shown |-> plan.shown,
                        workspace |-> w, roles |-> SelectedRoles(w)],
               Goto("add"), UNCHANGED <<input, world, consent>>
        PROVE  SSPAsk'
    <3>1. /\ plan'.writes = plan.writes /\ plan'.workspace = w /\ plan'.roles = SelectedRoles(w)
          /\ pc = "apply" /\ command = "auth ssp grant"
      BY <1>3, <2>1 DEF ResolveSSP
    <3>2. UNCHANGED <<store, touched>> /\ WorkspacesFound' = WorkspacesFound
      BY <2>1 DEF world, WorkspacesFound
    <3>3. PICK v \in Workspaces : \E roles :
            /\ plan.writes = {AddMember(v, roles)}
            /\ touched = {} => v \in WorkspacesFound /\ roles = SelectedRoles(v)
      BY <3>1 DEF SSPAsk
    <3>4. PICK roles : /\ plan.writes = {AddMember(v, roles)}
                       /\ touched = {} => v \in WorkspacesFound /\ roles = SelectedRoles(v)
      BY <3>3
    <3>5. plan'.writes = {AddMember(v, roles)'}
      BY <1>g, <3>1, <3>4
    <3>6. touched' = {} => v \in WorkspacesFound' /\ roles = SelectedRoles(v)'
      BY <1>u, <3>2, <3>4
    <3>7. (plan.workspace \in WorkspacesFound /\ plan.roles = SelectedRoles(plan.workspace))'
      BY <1>u, <3>1, <3>2
    <3>8. QED
      BY <3>5, <3>6, <3>7 DEF SSPAsk
  <2>2. QED
    BY <1>3, <1>e, <2>1, StopEnds DEF ResolveSSP
<1>4. CASE AddMembers
  BY <1>4, <1>e DEF AddMembers, Send, Rejected, Finish
<1>5. CASE command = "auth ssp grant" /\ SSPOthers
  BY <1>5, <1>k, TouchKeepsPlan DEF SSPOthers
<1>6. QED
  BY <1>0, <1>1, <1>2, <1>3, <1>4, <1>5, NextOf
  DEF RBACStep, AuthStep, SSPStep, NodeStep, PolicyStep, AFSStep, WizardStep, MutationStep, SSPSteps

LEMMA AskNext ==
  ASSUME AskInv, Next
  PROVE  AskInv'
BY GrantAskNext, RemoveAskNext, SSPAskNext DEF AskInv

LEMMA AskStays ==
  ASSUME AskInv, UNCHANGED vars
  PROVE  AskInv'
<1>1. UNCHANGED <<command, args, pc, plan, store, touched>>
  BY DEF vars, input, world
<1>2. /\ UNCHANGED <<Found, WorkspacesFound>>
      /\ \A s : FirstOf(Removable(s))' = FirstOf(Removable(s)) /\ SelectedRoles(s)' = SelectedRoles(s)
      /\ \A s, p : /\ Grant(s)' = Grant(s) /\ Revoke(p, s)' = Revoke(p, s)
                   /\ AddMember(s, p)' = AddMember(s, p)
  BY <1>1, RemovalsStay DEF Found, WorkspacesFound, SelectedRoles, Grant, Revoke, AddMember
<1>3. GrantAsk'
  BY <1>1, <1>2 DEF AskInv, GrantAsk
<1>4. RemoveAsk'
  BY <1>1, <1>2 DEF AskInv, RemoveAsk
<1>5. SSPAsk'
  BY <1>1, <1>2 DEF AskInv, SSPAsk
<1>6. QED
  BY <1>3, <1>4, <1>5 DEF AskInv

\* A plan for nodes N: what its requests name together is N.
LEMMA OneRequest ==
  ASSUME NEW N, NEW op, plan.writes = {[op |-> op, nodes |-> N]}
  PROVE  /\ UNION {w.nodes : w \in plan.writes} = N
         /\ \A w \in plan.writes : w.nodes = N
OBVIOUS

LEMMA SelectedIs ==
  ASSUME NEW nodes \in SUBSET ACNs, args.names # {}, EachMatchesOne(nodes)
  PROVE  Selected(nodes) \in (SUBSET ACNs) \ {{}}
<1>1. PICK name \in args.names : Cardinality(NodesCalled[name] \cap nodes) = 1
  BY DEF EachMatchesOne
<1>2. NodesCalled[name] \cap nodes # {}
  BY <1>1, FS_EmptySet
<1>3. NodesCalled[name] \cap nodes \subseteq Selected(nodes)
  BY DEF Selected
<1>4. Selected(nodes) \subseteq ACNs
  BY DEF Selected
<1>5. Selected(nodes) # {}
  BY <1>2, <1>3
<1>6. Selected(nodes) \in SUBSET ACNs
  BY <1>4
<1>7. QED
  BY <1>5, <1>6

LEMMA NodesNext ==
  ASSUME ConsentInv, NodesInv, Next
  PROVE  NodesInv'
<1> USE DEF At
<1>i. pc # "end" /\ UNCHANGED <<command, args>>
  BY InputStays
<1>o. outcome = ""
  BY <1>i DEF ConsentInv
<1>0. CASE command \notin {"vc node add", "vc node remove"}
  BY <1>0, <1>i DEF NodesInv, NodeReport
<1>c. CASE command \in {"vc node add", "vc node remove"}
  <2>a. DOMAIN store = ACNs /\ args.names # {}
    BY <1>c DEF NodesInv
  <2>d. ASSUME pc' = "end", outcome' \notin {"added", "submitted", "removed"}, DOMAIN store' = ACNs
        PROVE  NodesInv'
    BY <1>i, <1>c, <2>a, <2>d DEF NodesInv, NodeReport
  <2>1. CASE GivesUp
    BY <2>1, <2>a, <2>d DEF GivesUp, world
  <2>2. CASE Confirm
    <3>1. /\ pc = "confirm" /\ pc' = "apply" /\ UNCHANGED <<store, plan, outcome>>
      BY <2>2 DEF Confirm, Goto, world
    <3>2. QED
      BY <1>c, <1>i, <1>o, <3>1 DEF NodesInv, NodeReport
  <2>p. ASSUME NEW N \in (SUBSET ACNs) \ {{}}, NEW op \in {"add", "remove"}, NEW shown,
               Present({[op |-> op, nodes |-> N]}, shown)
        PROVE  NodesInv'
    <3>1. /\ plan'.writes = {[op |-> op, nodes |-> N]} /\ UNCHANGED store
          /\ pc' \in {"confirm", "end"} /\ outcome' \in {"", "dry-run"}
      BY <1>o, <2>p, PresentEffect
    <3>2. QED
      BY <1>c, <1>i, <2>a, <3>1 DEF NodesInv, NodeReport
  <2>s. ASSUME Stop("error")
        PROVE  NodesInv'
    BY <2>s, <2>a, <2>d DEF Stop, Finish, world
  <2>3. CASE PrepareNodeAdd
    <3>1. ASSUME EachMatchesOne(Usable)
          PROVE  Selected(Usable) \in (SUBSET ACNs) \ {{}}
      BY <2>a, <3>1, SelectedIs, NodesAssumption
    <3>2. QED
      BY <2>3, <2>p, <2>s, <3>1 DEF PrepareNodeAdd, Add
  <2>4. CASE ApplyNodeAdd
    <3>1. PICK N \in (SUBSET ACNs) \ {{}}, op \in {"add", "remove"} : plan.writes = {[op |-> op, nodes |-> N]}
      BY <1>c, <2>4 DEF ApplyNodeAdd, NodesInv
    <3>2. PICK w \in plan.writes :
            \/ Rejected(w)
            \/ Send(w, [n \in ACNs |-> IF n \in w.nodes THEN ACN("", TRUE) ELSE store[n]],
                    "error", Goto("look") /\ UNCHANGED plan)
      BY <2>4 DEF ApplyNodeAdd
    <3>3. w.nodes = N
      BY <3>1
    <3>4. CASE Finish("error")
      <4>1. DOMAIN store' = ACNs
        BY <2>a, <3>2 DEF Rejected, Send
      <4>2. QED
        BY <2>d, <3>4, <4>1 DEF Finish
    <3>5. CASE /\ store' = [n \in ACNs |-> IF n \in N THEN ACN("", TRUE) ELSE store[n]]
               /\ Goto("look") /\ UNCHANGED plan
      <4>1. DOMAIN store' = ACNs /\ \A n \in N : store'[n] = ACN("", TRUE)
        BY <3>5
      <4>a. ACN("", TRUE).accepted
        BY DEF ACN
      <4>2. \A n \in N : store'[n].accepted
        BY <4>1, <4>a
      <4>3. plan' = plan /\ pc' = "look" /\ outcome' = ""
        BY <1>o, <3>5 DEF Goto
      <4>b. \A w2 \in plan.writes : w2.nodes = N
        BY <3>1, OneRequest
      <4>4. \A w2 \in plan'.writes : w2.nodes = N
        BY <4>3, <4>b
      <4>5. QED
        BY <1>i, <2>a, <3>1, <4>1, <4>2, <4>3, <4>4 DEF NodesInv, NodeReport
    <3>6. QED
      BY <3>2, <3>3, <3>4, <3>5 DEF Rejected, Send
  <2>5. CASE LookAtBinding
    <3>1. PICK N \in (SUBSET ACNs) \ {{}}, op \in {"add", "remove"} : plan.writes = {[op |-> op, nodes |-> N]}
      BY <1>c, <2>5 DEF LookAtBinding, NodesInv
    <3>2. UNION {w.nodes : w \in plan.writes} = N /\ \A w \in plan.writes : w.nodes = N
      BY <3>1, OneRequest
    <3>3. \A n \in N : store[n].accepted \/ n \in InVC \cup touched
      BY <1>c, <2>5, <3>1, <3>2 DEF LookAtBinding, NodesInv
    <3>4. /\ pc' = "end" /\ UNCHANGED <<plan, store, touched>>
          /\ outcome' = "submitted" \/ (outcome' = "added" /\ N \subseteq InVC)
      BY <2>5, <3>1, <3>2 DEF LookAtBinding, Stop, Finish, world
    <3>5. InVC' = InVC
      BY <3>4 DEF InVC
    <3>p. plan' = plan /\ N # {}
      BY <3>4
    <3>u. UNION {w.nodes : w \in plan'.writes} = N
      BY <3>2, <3>p
    <3>r. /\ outcome' = "added" => N # {} /\ N \subseteq InVC'
          /\ outcome' = "submitted" => \A n \in N : store'[n].accepted \/ n \in InVC' \cup touched'
          /\ outcome' # "removed"
      BY <3>3, <3>4, <3>5, <3>p
    <3>6. NodeReport'
      BY <3>u, <3>r DEF NodeReport
    <3>7. QED
      BY <1>i, <2>a, <3>4, <3>6 DEF NodesInv
  <2>6. CASE PrepareNodeRemove
    <3>1. ASSUME EachMatchesOne(InVC)
          PROVE  Selected(InVC) \in (SUBSET ACNs) \ {{}}
      <4>1. InVC \in SUBSET ACNs
        BY DEF InVC
      <4>2. QED
        BY <2>a, <3>1, <4>1, SelectedIs
    <3>2. QED
      BY <2>6, <2>p, <2>s, <3>1 DEF PrepareNodeRemove, Remove
  <2>7. CASE ApplyNodeRemove
    <3>1. PICK N \in (SUBSET ACNs) \ {{}}, op \in {"add", "remove"} : plan.writes = {[op |-> op, nodes |-> N]}
      BY <1>c, <2>7 DEF ApplyNodeRemove, NodesInv
    <3>2. PICK w \in plan.writes :
            Send(w, [n \in ACNs |-> IF n \in w.nodes \cap InVC THEN ACN("", FALSE) ELSE store[n]],
                 "error", Finish("removed") /\ UNCHANGED plan)
      BY <2>7 DEF ApplyNodeRemove
    <3>3. w.nodes = N
      BY <3>1
    <3>4. pc' = "end" /\ DOMAIN store' = ACNs
      BY <2>a, <3>2 DEF Send, Finish
    <3>5. CASE outcome' = "error"
      BY <2>d, <3>4, <3>5
    <3>6. CASE outcome' # "error"
      <4>1. /\ outcome' = "removed" /\ plan' = plan
            /\ store' = [n \in ACNs |-> IF n \in N \cap InVC THEN ACN("", FALSE) ELSE store[n]]
        BY <3>2, <3>3, <3>6 DEF Send, Finish
      <4>2. ACN("", FALSE).vc = ""
        BY DEF ACN
      <4>3. \A n \in N : store'[n].vc # "this"
        BY <4>1, <4>2 DEF InVC
      <4>4. N \cap InVC' = {}
        BY <4>3 DEF InVC
      <4>a. UNION {w2.nodes : w2 \in plan.writes} = N
        BY <3>1, OneRequest
      <4>5. UNION {w2.nodes : w2 \in plan'.writes} = N
        BY <4>1, <4>a
      <4>b. outcome' = "removed" /\ N # {}
        BY <4>1
      <4>6. NodeReport'
        BY <4>4, <4>5, <4>b DEF NodeReport
      <4>7. QED
        BY <1>i, <2>a, <3>4, <4>6 DEF NodesInv
    <3>7. QED
      BY <3>5, <3>6
  <2>8. ASSUME NEW n \in ACNs, NEW v, store' = [store EXCEPT ![n] = v],
               v.vc = "this" \/ n \in touched', touched \subseteq touched', UNCHANGED <<pc, plan, outcome>>
        PROVE  NodesInv'
    <3>1. DOMAIN store' = ACNs
      BY <2>a, <2>8
    <3>2. \A m \in ACNs : m # n => store'[m] = store[m]
      BY <2>a, <2>8
    <3>3. n \in InVC' \cup touched'
      <4>1. store'[n] = v
        BY <2>a, <2>8
      <4>2. QED
        BY <2>8, <4>1 DEF InVC
    <3>4. ASSUME NEW w \in plan.writes, NEW m \in w.nodes, m \in ACNs,
                 store[m].accepted \/ m \in InVC \cup touched
          PROVE  store'[m].accepted \/ m \in InVC' \cup touched'
      <4>1. CASE m = n
        BY <3>3, <4>1
      <4>2. CASE m # n
        BY <2>8, <3>2, <3>4, <4>2 DEF InVC
      <4>3. QED
        BY <4>1, <4>2
    <3>5. pc \in {"confirm", "apply", "look"} =>
            \E N \in (SUBSET ACNs) \ {{}}, op \in {"add", "remove"} : plan.writes = {[op |-> op, nodes |-> N]}
      BY <1>c DEF NodesInv
    <3>6. ASSUME pc = "look", NEW w \in plan.writes, NEW m \in w.nodes
          PROVE  store'[m].accepted \/ m \in InVC' \cup touched'
      <4>1. m \in ACNs
        BY <3>5, <3>6
      <4>2. store[m].accepted \/ m \in InVC \cup touched
        BY <1>c, <3>6 DEF NodesInv
      <4>3. QED
        BY <3>4, <4>1, <4>2
    <3>7. UNCHANGED <<pc, plan, outcome>>
      BY <2>8
    <3>8. NodeReport'
      BY <1>i, <1>o, <3>7 DEF NodeReport
    <3>9. QED
      BY <1>i, <2>a, <3>1, <3>5, <3>6, <3>7, <3>8 DEF NodesInv
  <2>9. CASE BindNode
    <3>1. ACN("this", FALSE).vc = "this"
      BY DEF ACN
    <3>2. QED
      BY <2>8, <2>9, <3>1 DEF BindNode
  <2>10. CASE NodeOthers
    BY <2>8, <2>10 DEF NodeOthers, Touch
  <2>11. QED
    BY <1>c, <2>1, <2>2, <2>3, <2>4, <2>5, <2>6, <2>7, <2>9, <2>10, NextOf
    DEF RBACStep, AuthStep, SSPStep, NodeStep, PolicyStep, AFSStep, WizardStep, MutationStep, NodeSteps
<1>q. QED
  BY <1>0, <1>c

LEMMA ExcludedIs ==
  ASSUME NEW rules, args.rules \subseteq DOMAIN rules
  PROVE  /\ DOMAIN Excluded(rules) = DOMAIN rules
         /\ \A r \in args.rules : MyVC \in Excluded(rules)[r]
         /\ \A r \in DOMAIN rules : rules[r] \subseteq Excluded(rules)[r]
BY DEF Excluded

\* What a write of the policy does: nothing, or the exclusion in all its rules.
LEMMA WrittenPolicy ==
  ASSUME PolicyInv, WritePolicy
  PROVE  /\ DOMAIN store' = {"policy"} /\ store'["policy"].version \in Nat
         /\ pc' = "end" /\ outcome' \in {"error", "updated"} /\ plan' = plan
         /\ \/ store' = store /\ outcome' = "error"
            \/ /\ args.rules \subseteq DOMAIN store["policy"].rules
               /\ store'["policy"].rules = Excluded(store["policy"].rules)
<1> DEFINE read == plan.shown["policy"]
           written == Just("policy", ClusterPolicy(Excluded(read.rules), read.version + 1))
<1>1. /\ DOMAIN store = {"policy"} /\ store["policy"].version \in Nat
      /\ args.rules \subseteq DOMAIN read.rules
      /\ read.version \in Nat
      /\ read.version = store["policy"].version => read = store["policy"]
  BY DEF PolicyInv, WritePolicy, At
<1>2. /\ DOMAIN written = {"policy"} /\ written["policy"].version = read.version + 1
      /\ written["policy"].rules = Excluded(read.rules)
  BY DEF Just, ClusterPolicy
<1>3. CASE Conflict
  BY <1>1, <1>3 DEF WritePolicy, Rejected, Send, Finish
<1>4. CASE ~Conflict
  <2>1. read = store["policy"]
    BY <1>1, <1>4 DEF Conflict
  <2>2. /\ store' \in {store, written} /\ pc' = "end" /\ plan' = plan
        /\ outcome' \in {"error", "updated"} /\ (store' = written \/ outcome' = "error")
    BY <1>4 DEF WritePolicy, Send, Finish
  <2>3. read.version + 1 \in Nat
    BY <1>1
  <2> HIDE DEF read, written
  <2>4. QED
    BY <1>1, <1>2, <2>1, <2>2, <2>3
<1>5. QED
  BY <1>3, <1>4

LEMMA PolicyNext ==
  ASSUME ConsentInv, PolicyInv, Next
  PROVE  PolicyInv'
<1> USE DEF At
<1>i. pc # "end" /\ UNCHANGED <<command, args>>
  BY InputStays
<1>o. outcome = ""
  BY <1>i DEF ConsentInv
<1>0. CASE command # "policy update"
  BY <1>0, <1>i DEF PolicyInv, PolicyReport
<1>c. CASE command = "policy update"
  <2>a. DOMAIN store = {"policy"} /\ store["policy"].version \in Nat
    BY <1>c DEF PolicyInv
  <2>1. CASE GivesUp
    BY <1>i, <1>c, <2>1, <2>a DEF PolicyInv, PolicyReport, GivesUp, world
  <2>2. CASE Confirm
    BY <1>c, <2>2 DEF PolicyInv, Confirm
  <2>3. CASE ReadPolicy
    <3>1. CASE pc' = "end" /\ UNCHANGED store /\ outcome' = "error"
      BY <1>i, <1>c, <2>a, <3>1 DEF PolicyInv, PolicyReport
    <3>2. CASE /\ args.rules \subseteq DOMAIN store["policy"].rules
               /\ Excluded(store["policy"].rules) = store["policy"].rules
               /\ Stop("already present")
      <4>1. pc' = "end" /\ UNCHANGED store
        BY <3>2 DEF Stop, Finish, world
      <4>2. \A r \in args.rules : MyVC \in store["policy"].rules[r]
        BY <3>2, ExcludedIs
      <4>3. QED
        BY <1>i, <1>c, <2>a, <4>1, <4>2 DEF PolicyInv, PolicyReport
    <3>3. CASE /\ args.rules \subseteq DOMAIN store["policy"].rules
               /\ Proceed({Exclude}, store)
      <4>1. pc' = "apply" /\ outcome' = "" /\ UNCHANGED store /\ plan'.shown = store
        BY <1>o, <3>3 DEF Proceed, Goto, world
      <4>2. plan'.shown["policy"] = store["policy"] /\ store'["policy"] = store["policy"]
        BY <4>1
      <4>3. PolicyReport'
        BY <4>1 DEF PolicyReport
      <4>4. store["policy"].version <= store["policy"].version
        BY <2>a
      <4>5. QED
        BY <1>i, <1>c, <2>a, <3>3, <4>1, <4>2, <4>3, <4>4 DEF PolicyInv
    <3>4. QED
      BY <2>3, <3>1, <3>2, <3>3 DEF ReadPolicy, Stop, Finish, world
  <2>4. CASE WritePolicy
    <3>1. ASSUME outcome' = "updated"
          PROVE  \A r \in args.rules : MyVC \in store'["policy"].rules[r]
      BY <2>4, <3>1, WrittenPolicy, ExcludedIs
    <3>2. QED
      BY <1>i, <1>c, <2>4, <3>1, WrittenPolicy DEF PolicyInv, PolicyReport
  <2>5. CASE PolicyOthers
    <3>1. PICK rules \in RuleSets : Touch("policy", ClusterPolicy(rules, store["policy"].version + 1))
      BY <2>5 DEF PolicyOthers
    <3>2. store' = [store EXCEPT !["policy"] = ClusterPolicy(rules, store["policy"].version + 1)]
          /\ UNCHANGED <<pc, plan, outcome>>
      BY <3>1 DEF Touch
    <3>3. DOMAIN store' = {"policy"} /\ store'["policy"].version = store["policy"].version + 1
      BY <2>a, <3>2 DEF ClusterPolicy
    <3>4. ASSUME pc = "apply"
          PROVE  /\ args.rules \subseteq DOMAIN plan.shown["policy"].rules
                 /\ plan.shown["policy"].version \in Nat
                 /\ plan.shown["policy"].version < store["policy"].version + 1
      <4>1. /\ args.rules \subseteq DOMAIN plan.shown["policy"].rules
            /\ plan.shown["policy"].version \in Nat
            /\ plan.shown["policy"].version <= store["policy"].version
        BY <1>c, <3>4 DEF PolicyInv
      <4>2. QED
        BY <2>a, <4>1
    <3>a. pc # "confirm"
      BY <1>c DEF PolicyInv
    <3>5. store["policy"].version + 1 \in Nat
      BY <2>a
    <3>6. PolicyReport'
      BY <1>o, <3>2 DEF PolicyReport
    <3>7. \A v \in Nat : v < store["policy"].version + 1 =>
             v <= store["policy"].version + 1 /\ v # store["policy"].version + 1
      BY <2>a
    <3>8. ASSUME pc' = "apply"
          PROVE  /\ args'.rules \subseteq DOMAIN plan'.shown["policy"].rules
                 /\ plan'.shown["policy"].version \in Nat
                 /\ plan'.shown["policy"].version <= store'["policy"].version
                 /\ plan'.shown["policy"].version # store'["policy"].version
      <4>1. pc = "apply" /\ plan' = plan /\ args' = args
        BY <1>i, <3>2, <3>8
      <4>2. QED
        BY <3>3, <3>4, <3>7, <4>1
    <3>9. pc' # "confirm" /\ store'["policy"].version \in Nat
      BY <3>2, <3>3, <3>5, <3>a
    <3>10. QED
      BY <3>3, <3>6, <3>8, <3>9 DEF PolicyInv
  <2>6. QED
    BY <1>c, <2>1, <2>2, <2>3, <2>4, <2>5, NextOf
    DEF RBACStep, AuthStep, SSPStep, NodeStep, PolicyStep, AFSStep, WizardStep, MutationStep, PolicySteps
<1>q. QED
  BY <1>0, <1>c

LEMMA AFSNext ==
  ASSUME ConsentInv, AFSInv, Next
  PROVE  AFSInv'
<1> USE DEF At
<1>i. pc # "end" /\ UNCHANGED <<command, args>>
  BY InputStays
<1>o. outcome = ""
  BY <1>i DEF ConsentInv
<1>v. \A x : Volume(x) # Absent
  BY DEF Volume, Absent
<1>0. CASE command # "afs create"
  BY <1>0, <1>i DEF AFSInv, AFSReport
<1>c. CASE command = "afs create"
  <2>a. DOMAIN store = {"volume"}
    BY <1>c DEF AFSInv
  <2>1. CASE GivesUp
    BY <1>i, <1>c, <2>1, <2>a DEF AFSInv, AFSReport, GivesUp, world
  <2>2. CASE Confirm
    BY <1>i, <1>o, <1>c, <2>2, <2>a DEF AFSInv, AFSReport, Confirm, Goto, world
  <2>3. CASE PrepareAFS
    <3>1. UNCHANGED store /\ pc' \in {"confirm", "end"} /\ outcome' \in {"", "dry-run"}
      BY <1>o, <2>3, PresentEffect DEF PrepareAFS
    <3>2. QED
      BY <1>i, <1>c, <2>a, <3>1 DEF AFSInv, AFSReport
  <2>4. CASE CreateVolume
    <3>j. \A order : /\ DOMAIN Just("volume", Volume(order)) = {"volume"}
                     /\ Just("volume", Volume(order))["volume"] = Volume(order)
      BY DEF Just
    <3>1. CASE Finish("error") /\ DOMAIN store' = {"volume"}
      BY <1>i, <1>c, <3>1 DEF AFSInv, AFSReport, Finish
    <3>2. CASE store' = Just("volume", Volume("open")) /\ Goto("pay")
      BY <1>i, <1>o, <1>c, <3>2, <3>j DEF AFSInv, AFSReport, Goto
    <3>3. CASE store' = Just("volume", Volume("none")) /\ Finish("created without order")
      BY <1>i, <1>v, <1>c, <3>3, <3>j DEF AFSInv, AFSReport, Finish
    <3>4. QED
      BY <2>4, <2>a, <3>j, <3>1, <3>2, <3>3 DEF CreateVolume, Rejected, Send
  <2>5. CASE PayOrder
    <3>1. store["volume"] = Volume("open") \/ "volume" \in touched
      BY <1>c, <2>5 DEF PayOrder, AFSInv
    <3>2. DOMAIN store' = {"volume"} /\ touched' = touched /\ pc' = "end"
      BY <2>5, <2>a DEF PayOrder, Send, Finish, Just
    <3>3. \/ outcome' = "submitted" /\ store'["volume"] = Volume("paid")
          \/ outcome' = "payment failed" /\ (store' = store \/ store'["volume"] = Volume("paid"))
          \/ outcome' = "interactive payment required" /\ store' = store /\ store["volume"] = Volume("open")
      BY <2>5 DEF PayOrder, Send, Finish, Just
    <3>4. QED
      BY <1>i, <1>v, <1>c, <3>1, <3>2, <3>3 DEF AFSInv, AFSReport
  <2>6. CASE AFSOthers
    <3>1. DOMAIN store' = {"volume"} /\ "volume" \in touched' /\ UNCHANGED <<pc, outcome>>
      BY <2>6, <2>a DEF AFSOthers, Touch
    <3>2. QED
      BY <1>i, <1>o, <1>c, <3>1 DEF AFSInv, AFSReport
  <2>7. QED
    BY <1>c, <2>1, <2>2, <2>3, <2>4, <2>5, <2>6, NextOf
    DEF RBACStep, AuthStep, SSPStep, NodeStep, PolicyStep, AFSStep, WizardStep, MutationStep, AFSSteps
<1>q. QED
  BY <1>0, <1>c

\* What is made of a form depends on it and the template only.
LEMMA ObjectStays ==
  ASSUME NEW form, UNCHANGED args
  PROVE  Object(form)' = Object(form) /\ CreateObject(form)' = CreateObject(form)
<1>1. Multi' = Multi /\ MPI(form)' = MPI(form)
  BY DEF Multi, MPI
<1>2. Tasks(form)' = Tasks(form) /\ Chips(form)' = Chips(form)
  BY <1>1 DEF Tasks, Chips
<1>3. Block(form)' = Block(form)
  BY <1>2 DEF Block
<1>4. Manifest(form)' = Manifest(form)
  BY <1>1, <1>2, <1>3 DEF Manifest
<1>5. Object(form)' = Object(form)
  BY <1>4 DEF Object
<1>6. QED
  BY <1>5 DEF CreateObject

LEMMA CreateNext ==
  ASSUME ConsentInv, CreateInv, Next
  PROVE  CreateInv'
<1> USE DEF At
<1>i. pc # "end" /\ UNCHANGED <<command, args>>
  BY InputStays
<1>o. outcome = ""
  BY <1>i DEF ConsentInv
<1>0. CASE command # "create"
  BY <1>0, <1>i DEF CreateInv, CreateReport
<1>c. CASE command = "create"
  <2>o. ASSUME outcome' # "created", pc' \notin {"confirm", "yaml", "apply"}
        PROVE  CreateInv'
    BY <2>o DEF CreateInv, CreateReport
  <2>p. ASSUME NEW form, plan'.writes = {CreateObject(form)}, plan'.shown = form, outcome' # "created"
        PROVE  CreateInv'
    BY <1>i, <2>p, ObjectStays DEF CreateInv, CreateReport
  <2>s. ASSUME pc \in {"confirm", "yaml", "apply"}, plan' = plan, outcome' # "created"
        PROVE  CreateInv'
    BY <1>c, <2>s, <2>p DEF CreateInv
  <2>1. CASE GivesUp
    BY <2>1, <2>o DEF GivesUp
  <2>2. CASE Confirm
    BY <1>o, <2>2, <2>s DEF Confirm, Goto
  <2>3. CASE StartWizard
    BY <1>o, <2>3, <2>o DEF StartWizard, Goto
  <2>4. CASE ParameterMode
    <3>1. CASE Stop("error")
      BY <3>1, <2>o DEF Stop, Finish
    <3>2. CASE \E form \in Arguments : Proceed({CreateObject(form)}, form)
      <4>1. PICK form : Proceed({CreateObject(form)}, form)
        BY <3>2
      <4>2. plan'.writes = {CreateObject(form)} /\ plan'.shown = form /\ outcome' = ""
        BY <1>o, <4>1 DEF Proceed, Goto
      <4>3. QED
        BY <4>2, <2>p
    <3>3. QED
      BY <2>4, <3>1, <3>2 DEF ParameterMode
  <2>5. CASE Answer
    <3>1. \/ pc = "ask" /\ UNCHANGED <<pc, outcome>>
          \/ /\ \E form : plan' = [writes |-> {CreateObject(form)}, shown |-> form, form |-> form]
             /\ Goto(IF args.template = "pvc" THEN "confirm" ELSE "yaml")
      BY <2>5 DEF Answer
    <3>2. CASE pc = "ask" /\ UNCHANGED <<pc, outcome>>
      BY <1>o, <3>2, <2>o
    <3>3. CASE /\ \E form : plan' = [writes |-> {CreateObject(form)}, shown |-> form, form |-> form]
               /\ Goto(IF args.template = "pvc" THEN "confirm" ELSE "yaml")
      <4>1. PICK form : plan' = [writes |-> {CreateObject(form)}, shown |-> form, form |-> form]
        BY <3>3
      <4>2. plan'.writes = {CreateObject(form)} /\ plan'.shown = form
        BY <4>1
      <4>3. outcome' = ""
        BY <1>o, <3>3 DEF Goto
      <4>4. QED
        BY <4>2, <4>3, <2>p
    <3>4. QED
      BY <3>1, <3>2, <3>3
  <2>6. CASE Back
    BY <1>o, <2>6, <2>o DEF Back, Goto
  <2>7. CASE AskYAML
    <3>1. CASE Stop("dry-run")
      BY <3>1, <2>o DEF Stop, Finish
    <3>2. CASE Goto("confirm") /\ UNCHANGED plan
      BY <1>o, <2>7, <3>2, <2>s DEF AskYAML, Goto
    <3>3. QED
      BY <2>7, <3>1, <3>2 DEF AskYAML
  <2>8. CASE ApplyCreate
    <3>1. CASE pc' = "end" /\ outcome' # "created"
      BY <3>1, <2>o
    <3>2. CASE /\ pc' = "end" /\ plan' = plan
               /\ \E w \in plan.writes : store' = Just("object", w.object)
      <4>1. PICK form \in {plan.shown} : plan.writes = {CreateObject(form)}
        BY <1>c, <2>8 DEF ApplyCreate, CreateInv
      <4>2. store' = Just("object", CreateObject(form).object)
        BY <3>2, <4>1
      <4>3. store'["object"] = Object(form)
        BY <4>2, JustIs DEF CreateObject
      <4>4. plan'.shown = form /\ Object(form)' = Object(form)
        BY <1>i, <3>2, <4>1, ObjectStays
      <4>5. CreateReport'
        BY <4>3, <4>4 DEF CreateReport
      <4>6. QED
        BY <3>2, <4>5 DEF CreateInv
    <3>3. QED
      BY <2>8, <3>1, <3>2 DEF ApplyCreate, Rejected, Send, Stop, Finish
  <2>9. CASE WizardOthers
    <3>1. UNCHANGED <<pc, plan, outcome>>
      BY <2>9 DEF WizardOthers, Touch
    <3>2. QED
      BY <1>o, <3>1, <2>o, <2>s
  <2>10. QED
    BY <1>c, <2>1, <2>2, <2>3, <2>4, <2>5, <2>6, <2>7, <2>8, <2>9, NextOf
    DEF RBACStep, AuthStep, SSPStep, NodeStep, PolicyStep, AFSStep, WizardStep, MutationStep, WizardSteps
<1>q. QED
  BY <1>0, <1>c

\* A node whose two fields agree, or none.
Coherent(node) == node # Absent => node.unschedulable = node.repair

LEMMA NodesCohere ==
  /\ Coherent(Absent) /\ \A b : Coherent(Node(b, b))
  /\ Coherent(Patched) /\ Patched # Absent /\ Patched # Failed
BY DEF Coherent, Node, Patched, Absent, Failed

\* What a request, or another client, does to the nodes.
LEMMA OneNodeChanges ==
  ASSUME NEW node \in K8sNodes, NEW v, Coherent(v), DOMAIN store = K8sNodes,
         store' = [store EXCEPT ![node] = v], \A n \in K8sNodes : Coherent(store[n])
  PROVE  /\ DOMAIN store' = K8sNodes
         /\ \A n \in K8sNodes : Coherent(store'[n])
         /\ store'[node] = v /\ \A n \in K8sNodes : n # node => store'[n] = store[n]
OBVIOUS

LEMMA PatchesStay ==
  ASSUME UNCHANGED args
  PROVE  Patches' = Patches /\ Patched' = Patched
BY DEF Patches, Patch, Patched

LEMMA PatchPlan ==
  ASSUME MutationInv, command = "node mutate", pc = "apply"
  PROVE  /\ plan = [writes |-> Patches, shown |-> plan.shown] /\ plan.writes = Patches
         /\ sent \in Seq(Patches) /\ Range(sent) \subseteq Patches
<1>1. plan = [writes |-> Patches, shown |-> plan.shown] /\ sent \in Seq(plan.writes)
  BY DEF MutationInv
<1>2. \A W, shown : [writes |-> W, shown |-> shown].writes = W
  OBVIOUS
<1>3. plan.writes = Patches
  BY <1>1, <1>2, Zenon
<1>4. sent \in Seq(Patches)
  BY <1>1, <1>3
<1>5. Range(sent) \subseteq Patches
  BY <1>4, SentIsIn
<1>6. QED
  BY <1>1, <1>3, <1>4, <1>5

\* An argument that has an answer is one of the command.
LEMMA AnsweredIs ==
  ASSUME MutationInv, command = "node mutate", pc = "apply", NEW i, i \in DOMAIN plan.shown
  PROVE  i \in DOMAIN args.names /\ NodeNamed[args.names[i]] \in K8sNodes
<1>1. /\ DOMAIN plan.shown = {w.as : w \in Range(sent)}
      /\ \A k \in DOMAIN args.names : args.names[k] \in NodeArgs
  BY DEF MutationInv
<1>2. PICK w \in Range(sent) : i = w.as
  BY <1>1
<1>3. PICK k \in DOMAIN args.names : w = Patch(k)
  BY <1>2, PatchPlan DEF Patches
<1>4. i = k
  BY <1>2, <1>3 DEF Patch
<1>5. QED
  BY <1>1, <1>3, <1>4, NodeMutationAssumption

LEMMA PatchOfNode ==
  ASSUME MutationInv, PatchNode, \A n \in K8sNodes : Coherent(store[n])
  PROVE  \E i \in DOMAIN args.names, result \in {Patched, Failed} :
           /\ sent' = Append(sent, Patch(i))
           /\ plan' = [writes |-> plan.writes, shown |-> With(plan.shown, i, result)]
           /\ DOMAIN store' = K8sNodes /\ \A n \in K8sNodes : Coherent(store'[n])
           /\ \A n \in K8sNodes : store[n] = Patched => store'[n] = Patched
           /\ result = Patched => store'[NodeNamed[args.names[i]]] = Patched
<1> USE DEF At
<1>1. /\ DOMAIN store = K8sNodes /\ \A i \in DOMAIN args.names : args.names[i] \in NodeArgs
      /\ plan = [writes |-> Patches, shown |-> plan.shown]
  BY DEF MutationInv, PatchNode
<1>2. PICK w \in plan.writes \ Range(sent) :
        LET answered(result) == plan' = [plan EXCEPT !.shown = With(@, w.as, result)]
        IN  /\ sent' = Append(sent, w)
            /\ \/ /\ store[w.node] # Absent
                  /\ store' = [store EXCEPT ![w.node] = w.to] /\ answered(w.to)
               \/ /\ store' \in {store, [store EXCEPT ![w.node] = IF @ = Absent THEN @ ELSE w.to]}
                  /\ answered(Failed)
  BY DEF PatchNode
<1>3. PICK i \in DOMAIN args.names : w = Patch(i)
  <2>1. plan.writes = Patches
    BY <1>1
  <2>2. QED
    BY <1>2, <2>1 DEF Patches
<1> DEFINE node == NodeNamed[args.names[i]]
<1>4. w.as = i /\ w.node = node /\ w.to = Patched /\ node \in K8sNodes
  BY <1>1, <1>3, NodeMutationAssumption DEF Patch
<1> HIDE DEF node
<1>5. ASSUME NEW result, plan' = [plan EXCEPT !.shown = With(@, w.as, result)]
      PROVE  plan' = [writes |-> plan.writes, shown |-> With(plan.shown, i, result)]
  BY <1>1, <1>4, <1>5
<1>a. \/ store' = [store EXCEPT ![node] = Patched] /\ plan' = [plan EXCEPT !.shown = With(@, w.as, Patched)]
      \/ /\ store' \in {store, [store EXCEPT ![node] = IF @ = Absent THEN @ ELSE Patched]}
         /\ plan' = [plan EXCEPT !.shown = With(@, w.as, Failed)]
  BY <1>2, <1>4
<1>6. CASE store' = [store EXCEPT ![node] = Patched] /\ plan' = [plan EXCEPT !.shown = With(@, w.as, Patched)]
  <2>1. /\ DOMAIN store' = K8sNodes /\ \A n \in K8sNodes : Coherent(store'[n])
        /\ store'[node] = Patched /\ \A n \in K8sNodes : n # node => store'[n] = store[n]
    BY <1>1, <1>4, <1>6, NodesCohere, OneNodeChanges
  <2>2. QED
    BY <1>2, <1>3, <1>5, <1>6, <2>1 DEF node
<1>7. CASE store' = store /\ plan' = [plan EXCEPT !.shown = With(@, w.as, Failed)]
  BY <1>1, <1>2, <1>3, <1>5, <1>7, NodesCohere
<1> DEFINE v == IF store[node] = Absent THEN store[node] ELSE Patched
<1>8. CASE store' = [store EXCEPT ![node] = v] /\ plan' = [plan EXCEPT !.shown = With(@, w.as, Failed)]
  <2>1. Coherent(v) /\ (store[node] = Patched => v = Patched)
    BY <1>1, <1>4, NodesCohere
  <2> HIDE DEF v
  <2>2. /\ DOMAIN store' = K8sNodes /\ \A n \in K8sNodes : Coherent(store'[n])
        /\ store'[node] = v /\ \A n \in K8sNodes : n # node => store'[n] = store[n]
    BY <1>1, <1>4, <1>8, <2>1, OneNodeChanges
  <2>3. QED
    BY <1>2, <1>3, <1>5, <1>8, <2>1, <2>2, NodesCohere
<1>9. QED
  BY <1>a, <1>6, <1>7, <1>8

LEMMA MutationNext ==
  ASSUME ConsentInv, MutationInv, Next
  PROVE  MutationInv'
<1> USE DEF At
<1>i. pc # "end" /\ UNCHANGED <<command, args>>
  BY InputStays
<1>o. outcome = ""
  BY <1>i DEF ConsentInv
<1>0. CASE command # "node mutate"
  BY <1>0, <1>i DEF MutationInv, MutationReport
<1>c. CASE command = "node mutate"
  <2>a. /\ DOMAIN store = K8sNodes /\ \A i \in DOMAIN args.names : args.names[i] \in NodeArgs
        /\ \A n \in K8sNodes : Coherent(store[n])
    BY <1>c DEF MutationInv, MutationReport, Coherent
  <2>b. ASSUME pc = "apply"
        PROVE  /\ plan = [writes |-> Patches, shown |-> plan.shown]
               /\ plan.writes = Patches
               /\ sent \in Seq(plan.writes)
               /\ DOMAIN plan.shown = {w.as : w \in Range(sent)}
               /\ \A i \in DOMAIN plan.shown :
                    \/ plan.shown[i] = Failed
                    \/ NodeNamed[args.names[i]] \in touched
                    \/ store[NodeNamed[args.names[i]]] = Patched
    BY <1>c, <2>b, PatchPlan DEF MutationInv
  <2>p. Patched' = Patched /\ Patches' = Patches
    BY <1>i, PatchesStay
  <2>e. ASSUME DOMAIN store' = K8sNodes, \A n \in K8sNodes : Coherent(store'[n]),
               pc' # "apply", outcome' # "patched"
        PROVE  MutationInv'
    BY <1>i, <2>a, <2>e DEF MutationInv, MutationReport, Coherent
  <2>1. CASE GivesUp
    BY <2>1, <2>a, <2>e DEF GivesUp, world
  <2>2. CASE Confirm
    BY <1>c, <2>2 DEF Confirm, ConsentInv
  <2>3. CASE StartPatches
    <3>1. /\ pc' = "apply" /\ outcome' = "" /\ UNCHANGED <<store, touched>> /\ sent' = << >>
          /\ plan' = [writes |-> Patches, shown |-> << >>]
      BY <1>o, <2>3 DEF StartPatches, Proceed, Goto, world, ConsentInv, OpenPlaces, Patches
    <3>2. /\ plan' = [writes |-> Patches', shown |-> plan'.shown]
          /\ plan'.shown = << >>
      BY <2>p, <3>1
    <3>a. << >> \in Seq(plan'.writes) /\ DOMAIN << >> = {}
      OBVIOUS
    <3>b. Range(sent') = {}
      BY <3>1, EmptyRange
    <3>3. DOMAIN plan'.shown = {} /\ Range(sent') = {} /\ sent' \in Seq(plan'.writes)
      BY <3>1, <3>2, <3>a, <3>b
    <3>4. DOMAIN plan'.shown = {w.as : w \in Range(sent')}
      BY <3>3
    <3>5. MutationReport'
      BY <2>a, <3>1 DEF MutationReport, Coherent
    <3>6. QED
      BY <1>i, <2>a, <3>1, <3>2, <3>3, <3>4, <3>5 DEF MutationInv
  <2>4. CASE PatchNode
    <3>1. PICK i \in DOMAIN args.names, result \in {Patched, Failed} :
           /\ sent' = Append(sent, Patch(i))
           /\ plan' = [writes |-> plan.writes, shown |-> With(plan.shown, i, result)]
           /\ DOMAIN store' = K8sNodes /\ \A n \in K8sNodes : Coherent(store'[n])
           /\ \A n \in K8sNodes : store[n] = Patched => store'[n] = Patched
           /\ result = Patched => store'[NodeNamed[args.names[i]]] = Patched
      BY <2>4, <2>a, PatchOfNode
    <3>2. pc = "apply" /\ UNCHANGED <<pc, touched, outcome>>
      BY <2>4 DEF PatchNode
    <3>3. /\ plan'.writes = plan.writes /\ plan'.shown = With(plan.shown, i, result)
          /\ plan' = [writes |-> Patches', shown |-> plan'.shown]
      <4>1. plan'.writes = plan.writes /\ plan'.shown = With(plan.shown, i, result)
        BY <3>1
      <4>2. plan.writes = Patches'
        BY <2>b, <2>p, <3>2
      <4>3. QED
        BY <3>1, <4>1, <4>2
    <3>4. Patch(i) \in plan.writes /\ Patch(i).as = i
      BY <2>b, <3>2 DEF Patch, Patches
    <3>5. sent' \in Seq(plan'.writes) /\ Range(sent') = Range(sent) \cup {Patch(i)}
      BY <2>b, <3>1, <3>2, <3>3, <3>4, RangeOfAppend
    <3>6. /\ DOMAIN plan'.shown = DOMAIN plan.shown \cup {i}
          /\ plan'.shown[i] = result
          /\ \A n \in DOMAIN plan.shown : n # i => plan'.shown[n] = plan.shown[n]
      BY <3>3 DEF With
    <3>7. DOMAIN plan'.shown = {w.as : w \in Range(sent')}
      BY <2>b, <3>2, <3>4, <3>5, <3>6
    <3>8. ASSUME NEW n \in DOMAIN plan'.shown
          PROVE  \/ plan'.shown[n] = Failed \/ NodeNamed[args.names[n]] \in touched
                 \/ store'[NodeNamed[args.names[n]]] = Patched
      <4>1. CASE n = i
        BY <3>1, <3>6, <4>1
      <4>2. CASE n # i
        <5>1. n \in DOMAIN plan.shown /\ plan'.shown[n] = plan.shown[n]
          BY <3>6, <3>8, <4>2
        <5>2. NodeNamed[args.names[n]] \in K8sNodes
          BY <1>c, <3>2, <5>1, AnsweredIs
        <5>3. QED
          BY <2>b, <3>1, <3>2, <5>1, <5>2
      <4>3. QED
        BY <4>1, <4>2
    <3>9. MutationReport'
      BY <1>o, <3>1, <3>2 DEF MutationReport, Coherent
    <3>10. QED
      BY <1>i, <2>a, <2>p, <3>1, <3>2, <3>3, <3>5, <3>7, <3>8, <3>9 DEF MutationInv
  <2>5. CASE PatchesEnd
    <3>1. /\ pc = "apply" /\ pc' = "end" /\ UNCHANGED <<store, touched, plan>>
          /\ plan.writes \subseteq Range(sent)
          /\ outcome' = IF \E i \in DOMAIN args.names : plan.shown[i] = Failed
                          THEN "some failed" ELSE "patched"
      BY <2>5 DEF PatchesEnd, Stop, Finish, world
    <3>2. ASSUME NEW i \in DOMAIN args.names, outcome' = "patched"
          PROVE  \/ NodeNamed[args.names[i]] \in touched
                 \/ store[NodeNamed[args.names[i]]] = Patched
      <4>1. Patch(i) \in Range(sent) /\ Patch(i).as = i
        BY <2>b, <3>1 DEF Patch, Patches
      <4>2. i \in DOMAIN plan.shown
        BY <2>b, <3>1, <4>1
      <4>3. plan.shown[i] # Failed
        BY <3>1, <3>2
      <4>4. QED
        BY <2>b, <3>1, <4>2, <4>3
    <3>3. MutationReport'
      BY <1>i, <2>a, <2>p, <3>1, <3>2 DEF MutationReport, Coherent
    <3>4. QED
      BY <1>i, <2>a, <3>1, <3>3 DEF MutationInv
  <2>6. CASE MutationOthers
    <3>1. PICK node \in K8sNodes, v \in {Absent, Node(TRUE, TRUE), Node(FALSE, FALSE)} : Touch(node, v)
      BY <2>6 DEF MutationOthers
    <3>2. /\ store' = [store EXCEPT ![node] = v] /\ touched' = touched \cup {node}
          /\ UNCHANGED <<pc, plan, sent, outcome>>
      BY <3>1 DEF Touch, consent
    <3>3. Coherent(v)
      BY NodesCohere
    <3>4. /\ DOMAIN store' = K8sNodes /\ \A n \in K8sNodes : Coherent(store'[n])
          /\ \A n \in K8sNodes : n # node => store'[n] = store[n]
      BY <2>a, <3>2, <3>3, OneNodeChanges
    <3>5. CASE pc # "apply"
      BY <1>o, <3>2, <3>4, <3>5, <2>e
    <3>6. CASE pc = "apply"
      <4>1. ASSUME NEW n \in DOMAIN plan.shown
            PROVE  \/ plan.shown[n] = Failed \/ NodeNamed[args.names[n]] \in touched'
                   \/ store'[NodeNamed[args.names[n]]] = Patched
        <5>1. NodeNamed[args.names[n]] \in K8sNodes
          BY <1>c, <3>6, AnsweredIs
        <5>2. QED
          BY <2>b, <3>2, <3>4, <3>6, <5>1
      <4>2. MutationReport'
        BY <1>o, <3>2, <3>4 DEF MutationReport, Coherent
      <4>3. QED
        BY <1>i, <2>a, <2>b, <2>p, <3>2, <3>4, <3>6, <4>1, <4>2 DEF MutationInv
    <3>7. QED
      BY <3>5, <3>6
  <2>7. QED
    BY <1>c, <2>1, <2>2, <2>3, <2>4, <2>5, <2>6, NextOf
    DEF RBACStep, AuthStep, SSPStep, NodeStep, PolicyStep, AFSStep, WizardStep, MutationStep, MutationSteps
<1>q. QED
  BY <1>0, <1>c

-----------------------------------------------------------------------------
(***************************************************************************)
(* The theorems.                                                           *)
(***************************************************************************)
LEMMA NodesNamed ==
  ASSUME MutationInit
  PROVE  /\ \E count \in 1..MaxArgs : DOMAIN args.names = 1..count
         /\ \A i \in DOMAIN args.names : args.names[i] \in NodeArgs
<1>1. PICK action \in {"cordon", "uncordon"}, count \in 1..MaxArgs :
        \E names \in [1..count -> NodeArgs] : args = [action |-> action, names |-> names]
  BY DEF MutationInit
<1>2. PICK names \in [1..count -> NodeArgs] : args = [action |-> action, names |-> names]
  BY <1>1
<1>3. args.names = names
  BY <1>2
<1>4. QED
  BY <1>2, <1>3

LEMMA InitCommands == Init => CommandsInv
<1> SUFFICES ASSUME Init PROVE CommandsInv
  OBVIOUS
<1>1. pc = "prepare" /\ agreed = {} /\ sent = << >> /\ outcome = ""
  BY DEF Init, CommandInit
<1>2. /\ command \in {"rbac grant", "rbac remove"} => RBACInit
      /\ command \in {"auth grant", "auth remove"} => AuthInit
      /\ command = "auth ssp grant" => SSPInit
      /\ command \in {"vc node add", "vc node remove"} => NodesInit
      /\ command = "policy update" => PolicyInit
      /\ command = "afs create" => AFSInit
      /\ command = "node mutate" => MutationInit
  BY DEF Init, RBACInit, AuthInit, SSPInit, NodesInit, PolicyInit, AFSInit, WizardInit, MutationInit
<1>3. ConsentInv
  <2>1. ASSUME command = "node mutate"  PROVE DOMAIN args.names # {}
    <3>1. PICK count \in 1..MaxArgs : DOMAIN args.names = 1..count
      BY <1>2, <2>1, NodesNamed
    <3>2. 1 \in DOMAIN args.names
      BY <3>1, NodeMutationAssumption
    <3>3. QED
      BY <3>2
  <2>2. QED
    BY <1>1, <2>1 DEF ConsentInv, Planned, OpenPlaces, AgreedPlaces
<1>4. RBACInv
  <2>1. command \in {"rbac grant", "rbac remove"} => DOMAIN store = Bindings
    BY <1>2 DEF RBACInit
  <2>2. ASSUME command = "rbac remove"  PROVE args.name \in Bindings
    <3>1. PICK b \in Bindings : args = [name |-> b]
      BY <1>2, <2>2 DEF RBACInit
    <3>2. QED
      BY <3>1
  <2>3. QED
    BY <1>1, <2>1, <2>2 DEF RBACInv, GrantInv, UnbindInv, RBACReport
<1>5. AuthInv
  <2>1. command \in {"auth grant", "auth remove"} => DOMAIN store = Resources
    BY <1>2 DEF AuthInit, Resources
  <2>2. QED
    BY <1>1, <2>1 DEF AuthInv, AuthGrantInv, AuthRemoveInv, AuthReport
<1>6. SSPInv
  <2>1. command = "auth ssp grant" => DOMAIN store = Workspaces
    BY <1>2 DEF SSPInit
  <2>2. QED
    BY <1>1, <2>1 DEF SSPInv, SSPReport
<1>7. NodesInv
  <2>1. ASSUME command \in {"vc node add", "vc node remove"}
        PROVE  DOMAIN store = ACNs /\ args.names # {}
    <3>1. PICK names \in (SUBSET NodeNames) \ {{}} : args = [names |-> names]
      BY <1>2, <2>1 DEF NodesInit
    <3>2. args.names = names
      BY <3>1
    <3>3. QED
      BY <1>2, <2>1, <3>2 DEF NodesInit
  <2>2. QED
    BY <1>1, <2>1 DEF NodesInv, NodeReport
<1>8. PolicyInv
  <2>1. ASSUME command = "policy update"
        PROVE  DOMAIN store = {"policy"} /\ store["policy"].version \in Nat
    <3>1. PICK rules \in RuleSets : store = Just("policy", ClusterPolicy(rules, 0))
      BY <1>2, <2>1 DEF PolicyInit
    <3>2. DOMAIN store = {"policy"} /\ store["policy"] = ClusterPolicy(rules, 0)
      BY <3>1, JustIs
    <3>3. ClusterPolicy(rules, 0).version = 0
      BY DEF ClusterPolicy
    <3>4. QED
      BY <3>2, <3>3
  <2>2. QED
    BY <1>1, <2>1 DEF PolicyInv, PolicyReport
<1>9. AFSInv
  BY <1>1, <1>2 DEF AFSInit, AFSInv, AFSReport
<1>10. CreateInv
  BY <1>1 DEF CreateInv, CreateReport
<1>11. MutationInv
  <2>1. ASSUME command = "node mutate"
        PROVE  /\ DOMAIN store = K8sNodes
               /\ \A i \in DOMAIN args.names : args.names[i] \in NodeArgs
               /\ \A n \in K8sNodes : Coherent(store[n])
    <3>2. \A i \in DOMAIN args.names : args.names[i] \in NodeArgs
      BY <1>2, <2>1, NodesNamed
    <3>3. store \in [K8sNodes -> {Absent, Node(TRUE, TRUE), Node(FALSE, FALSE)}]
      BY <1>2, <2>1 DEF MutationInit
    <3>4. QED
      BY <3>2, <3>3, NodesCohere
  <2>2. QED
    BY <1>1, <2>1 DEF MutationInv, MutationReport, Coherent
<1>12. AskInv
  BY <1>1 DEF AskInv, GrantAsk, RemoveAsk, SSPAsk
<1>13. QED
  BY <1>3, <1>4, <1>5, <1>6, <1>7, <1>8, <1>9, <1>10, <1>11, <1>12 DEF CommandsInv

\* CommandsInv holds of every command, whatever others do.
THEOREM CommandsInvariance == Spec => []CommandsInv
<1>1. CommandsInv /\ Next => CommandsInv'
  <2>1. ASSUME CommandsInv, Next  PROVE CommandsInv'
    <3>1. ConsentInv'
      BY <2>1, PromiseKept DEF KeepsPromise
    <3>2. RBACInv' /\ AuthInv' /\ SSPInv' /\ NodesInv'
      BY <2>1, RBACNext, AuthNext, SSPNext, NodesNext DEF CommandsInv
    <3>3. PolicyInv' /\ AFSInv' /\ CreateInv' /\ MutationInv'
      BY <2>1, PolicyNext, AFSNext, CreateNext, MutationNext DEF CommandsInv
    <3>4. AskInv'
      BY <2>1, AskNext DEF CommandsInv
    <3>5. QED
      BY <3>1, <3>2, <3>3, <3>4 DEF CommandsInv
  <2>2. QED
    BY <2>1
<1>2. CommandsInv /\ UNCHANGED vars => CommandsInv'
  <2> SUFFICES ASSUME CommandsInv, UNCHANGED vars PROVE CommandsInv'
    OBVIOUS
  <2> USE DEF vars, input, world, consent
  <2>1. UNCHANGED <<command, args, pc, plan, store, touched, agreed, sent, outcome>>
    OBVIOUS
  <2>2. ConsentInv'
    BY <2>1, RequestsStay, ZenonT(30) DEF CommandsInv, ConsentInv, Planned, Requests, Unbind
  <2>3. RBACInv'
    <3>1. UNCHANGED Having /\ UNCHANGED Requested
      BY <2>1, HavingStays DEF Requested
    <3>2. GrantInv' /\ UnbindInv'
      BY <2>1, <3>1 DEF CommandsInv, RBACInv, GrantInv, UnbindInv
    <3>3. Holders(Controlled, args.role) = Having /\ Holders(Controlled, args.role)' = Having'
      BY DEF Having
    <3>4. RBACReport'
      BY <2>1, <3>1, <3>3 DEF CommandsInv, RBACInv, RBACReport
    <3>5. QED
      BY <3>2, <3>4 DEF RBACInv
  <2>4. AuthInv'
    BY <2>1 DEF CommandsInv, AuthInv, AuthGrantInv, AuthRemoveInv, AuthReport, Giving, MemberPolicies
  <2>5. SSPInv' /\ NodesInv'
    BY <2>1 DEF CommandsInv, SSPInv, SSPReport, NodesInv, NodeReport, InVC
  <2>6. PolicyInv' /\ AFSInv'
    BY <2>1 DEF CommandsInv, PolicyInv, PolicyReport, AFSInv, AFSReport
  <2>7. CreateInv'
    BY <2>1, ObjectStays DEF CommandsInv, CreateInv, CreateReport
  <2>8. MutationInv'
    BY <2>1, PatchesStay DEF CommandsInv, MutationInv, MutationReport
  <2>9. AskInv'
    BY AskStays DEF CommandsInv
  <2>10. QED
    BY <2>2, <2>3, <2>4, <2>5, <2>6, <2>7, <2>8, <2>9 DEF CommandsInv
<1>3. QED
  BY <1>1, <1>2, InitCommands, PTL DEF Spec

\* What a command reports is so, of every store, whatever others changed and
\* whichever answers were lost.
THEOREM ReportsAreTrue == Spec => []ReportIsTrue
<1>1. CommandsInv => ReportIsTrue
  BY DEF CommandsInv, ReportIsTrue, RBACInv, AuthInv, SSPInv, NodesInv, PolicyInv, AFSInv, CreateInv,
         MutationInv
<1>2. QED
  BY <1>1, CommandsInvariance, PTL

\* Where a command is in the story of ConfirmedWrite, and what it has claimed.
LEMMA StageIs ==
  /\ pc \in OpenPlaces => Stage = "open"
  /\ pc \in AgreedPlaces => Stage = "agreed"
  /\ pc = "end" => Stage = "over"
BY DEF Stage, OpenPlaces, AgreedPlaces

LEMMA ClaimIs ==
  /\ pc # "end" /\ outcome = "" => Claim = ""
  /\ pc = "end" /\ outcome \in NothingResults => Claim = "nothing"
  /\ pc = "end" /\ outcome \notin NothingResults => Claim = "something"
BY DEF Claim, NothingResults

\* The same of the next state.
LEMMA NextStageIs ==
  /\ pc' \in OpenPlaces => Stage' = "open"
  /\ pc' \in AgreedPlaces => Stage' = "agreed"
  /\ pc' = "end" => Stage' = "over"
  /\ pc' # "end" /\ outcome' = "" => Claim' = ""
  /\ pc' = "end" /\ outcome' \in NothingResults => Claim' = "nothing"
  /\ pc' = "end" /\ outcome' \notin NothingResults => Claim' = "something"
BY DEF Stage, Claim, OpenPlaces, AgreedPlaces, NothingResults

\* Every command implements ConfirmedWrite, whatever it changes: one agreement
\* before the first request, only requests of it, to the object and the profile
\* it was about, each once (where names are resolved again, and may have come to
\* mean something else: only requests for the same arguments), and a result that
\* speaks of no change only when nothing was sent.
THEOREM KeepsItsWord == Spec => RefinesConfirmedWrite
<1>1. Init => Consent!ConsentInit
  <2> SUFFICES ASSUME Init PROVE Consent!ConsentInit
    OBVIOUS
  <2>1. pc = "prepare" /\ agreed = {} /\ sent = << >> /\ outcome = ""
    BY DEF Init, CommandInit
  <2>2. Stage = "open" /\ Claim = ""
    BY <2>1, StageIs, ClaimIs DEF OpenPlaces
  <2>3. QED
    BY <2>1, <2>2 DEF Consent!ConsentInit
<1>2. CommandsInv /\ [Next]_vars
        => [Consent!Agree \/ Consent!SendAgreed \/ Consent!Conclude]_(Consent!consentVars)
  <2> SUFFICES ASSUME CommandsInv, [Next]_vars
               PROVE  \/ Consent!Agree \/ Consent!SendAgreed \/ Consent!Conclude
                      \/ UNCHANGED <<Stage, agreed, sent, Claim>>
    BY DEF Consent!consentVars
  <2>1. CASE UNCHANGED vars
    BY <2>1 DEF vars, consent, Stage, Claim
  <2>2. CASE Next
    <3>1. /\ pc # "end" /\ (Ends \/ Agrees \/ Sends \/ GoesOn)
          /\ outcome = "" /\ (pc' # "end" => outcome' = "")
      BY <2>2, InputStays, PromiseKept DEF KeepsPromise, CommandsInv, ConsentInv
    <3>2. Claim = "" /\ Stage \in {"open", "agreed"}
      BY <3>1, ClaimIs, StageIs DEF CommandsInv, ConsentInv
    <3>3. CASE Ends
      <4>1. Stage # "over" /\ Stage' = "over" /\ Claim' \in {"nothing", "something"}
        BY <3>2, <3>3, NextStageIs DEF Ends
      <4>2. Claim' = "nothing" => sent = << >>
        BY <3>3, NextStageIs DEF Ends
      <4>3. QED
        BY <3>3, <4>1, <4>2 DEF Ends, Consent!Conclude
    <3>4. CASE Agrees
      <4>1. Stage = "open" /\ Stage' = "agreed" /\ Claim' = Claim
        BY <3>1, <3>2, <3>4, StageIs, NextStageIs DEF Agrees, AgreedPlaces
      <4>2. QED
        BY <3>4, <4>1 DEF Agrees, Consent!Agree
    <3>5. CASE Sends
      <4>1. Stage = "agreed"
        BY <3>5, StageIs DEF Sends
      <4>2. \/ Stage' = Stage /\ Claim' = Claim
            \/ Stage' = "over" /\ Claim' = "something"
        BY <3>1, <3>2, <3>5, <4>1, NextStageIs DEF Sends, AgreedPlaces
      <4>3. PICK w \in agreed, v \in Range(sent') :
              /\ v = w \/ (~Steady /\ v.op = w.op /\ v.as = w.as)
              /\ sent = << >> \/ (command \notin AuthCommands /\ w \notin Range(sent))
              /\ sent' = Append(sent, v)
        BY <3>5 DEF Sends
      <4>4. Consent!Fulfils(v, w)
        BY <4>3 DEF Consent!Fulfils
      <4>5. ASSUME NEW u \in Range(sent)  PROVE ~Consent!Fulfils(u, w)
        <5>1. command \notin AuthCommands /\ w \notin Range(sent)
          BY <4>3, EmptyRange
        <5>2. Steady
          BY <5>1 DEF AuthCommands, Steady
        <5>3. QED
          BY <4>5, <5>1, <5>2 DEF Consent!Fulfils
      <4>6. UNCHANGED agreed
        BY <3>5 DEF Sends
      <4>7. QED
        BY <4>1, <4>2, <4>3, <4>4, <4>5, <4>6 DEF Range, Consent!SendAgreed, Consent!Range
    <3>6. CASE GoesOn
      <4>1. Stage' = Stage /\ Claim' = Claim
        BY <3>1, <3>2, <3>6, StageIs, NextStageIs DEF GoesOn, OpenPlaces, AgreedPlaces
      <4>2. QED
        BY <3>6, <4>1 DEF GoesOn
    <3>7. QED
      BY <3>1, <3>3, <3>4, <3>5, <3>6
  <2>3. QED
    BY <2>1, <2>2
<1>3. QED
  BY <1>1, <1>2, CommandsInvariance, PTL DEF Spec, RefinesConfirmedWrite, Consent!ConsentSpec

\* auth remove deletes no policy of others: one that it changes gave the role,
\* or somebody else has changed it since.
THEOREM RemovesOnlyThatRole == Spec => OnlyThatRole
<1>1. CommandsInv /\ [Next]_vars =>
        [command = "auth remove" /\ sent' # sent =>
           \A p \in Policies : store'[p] # store[p] =>
             args.role \in store[p].roles \/ p \in touched]_vars
  <2> SUFFICES ASSUME CommandsInv, Next, command = "auth remove", sent' # sent,
                      NEW p \in Policies, store'[p] # store[p]
               PROVE  args.role \in store[p].roles \/ p \in touched
    OBVIOUS
  <2>1. DeletePolicy
    <3> USE DEF At
    <3>1. Confirm \/ GivesUp => UNCHANGED sent
      BY DEF Confirm, GivesUp, consent
    <3>2. AuthOthers \/ PreflightRemove \/ ResolveRemove => UNCHANGED sent
      BY DEF AuthOthers, PreflightRemove, ResolveRemove, Touch, Present, Stop, NotFound, consent
    <3>3. QED
      BY <3>1, <3>2, NextOf
      DEF RBACStep, AuthStep, SSPStep, NodeStep, PolicyStep, AFSStep, WizardStep, MutationStep, AuthSteps,
          PreflightGrant, ResolveGrant, BatchCreate, Verify
  <2>2. /\ DOMAIN store = Resources /\ plan.id \in Policies
        /\ plan.id \in touched \/ args.role \in store[plan.id].roles
    BY <2>1 DEF DeletePolicy, At, CommandsInv, AuthInv, AuthRemoveInv
  <2>3. \/ store' = store
        \/ store' = [store EXCEPT ![plan.id] = Absent]
    BY <2>1 DEF DeletePolicy, Rejected, Send
  <2>4. p = plan.id
    BY <2>2, <2>3 DEF Resources
  <2>5. QED
    BY <2>2, <2>4
<1>2. QED
  BY <1>1, CommandsInvariance, PTL DEF Spec, OnlyThatRole

\* policy update takes no rule and no exclusion away, whatever others put into
\* the policy between its read and its write.
THEOREM ExclusionsStay == Spec => NoExclusionIsLost
<1>1. CommandsInv /\ [Next]_vars =>
        [command = "policy update" /\ sent' # sent =>
           \A r \in DOMAIN store["policy"].rules :
             /\ r \in DOMAIN store'["policy"].rules
             /\ store["policy"].rules[r] \subseteq store'["policy"].rules[r]]_vars
  <2> SUFFICES ASSUME CommandsInv, Next, command = "policy update", sent' # sent,
                      NEW r \in DOMAIN store["policy"].rules
               PROVE  /\ r \in DOMAIN store'["policy"].rules
                      /\ store["policy"].rules[r] \subseteq store'["policy"].rules[r]
    OBVIOUS
  <2>1. WritePolicy
    <3> USE DEF At
    <3>1. Confirm \/ GivesUp => UNCHANGED sent
      BY DEF Confirm, GivesUp, consent
    <3>2. PolicyOthers \/ ReadPolicy => UNCHANGED sent
      BY DEF PolicyOthers, ReadPolicy, Touch, Proceed, Stop, consent
    <3>3. QED
      BY <3>1, <3>2, NextOf
      DEF RBACStep, AuthStep, SSPStep, NodeStep, PolicyStep, AFSStep, WizardStep, MutationStep, PolicySteps
  <2>2. \/ store' = store
        \/ /\ args.rules \subseteq DOMAIN store["policy"].rules
           /\ store'["policy"].rules = Excluded(store["policy"].rules)
    BY <2>1, WrittenPolicy DEF CommandsInv
  <2>3. QED
    BY <2>2, ExcludedIs
<1>2. QED
  BY <1>1, CommandsInvariance, PTL DEF Spec, NoExclusionIsLost

-----------------------------------------------------------------------------
(***************************************************************************)
(* create: what the questions asked so far have made of the form, and that *)
(* a form answered to its end makes a job that is whole.                   *)
(***************************************************************************)
LEMMA ProductDivides ==
  ASSUME NEW a \in Nat, NEW b \in Nat \ {0}
  PROVE  (a * b) % b = 0 /\ (a * b) \div b = a
BY Z3

\* The chips of a supernode are whole machines, and its supernodes all chips.
LEMMA BlocksAreWhole ==
  ASSUME NEW n \in Nat, NEW k \in 1..n, n % k = 0, NEW c \in Nat \ {0}
  PROVE  LET block == (n * c) \div k
         IN  block % c = 0 /\ (n * c) % block = 0
<1>1. PICK m \in Nat \ {0} : n = k * m
  BY Z3
<1>2. PICK p \in Nat \ {0} : p = m * c
  BY Z3
<1>3. n * c = p * k /\ n * c = k * p
  BY <1>1, <1>2, Z3
<1>4. k \in Nat \ {0}
  OBVIOUS
<1>5. (p * k) \div k = p /\ (k * p) % p = 0 /\ p % c = 0
  <2>1. (p * k) \div k = p
    BY <1>4, ProductDivides
  <2>2. (k * p) % p = 0
    BY <1>4, ProductDivides
  <2>3. p % c = 0
    BY <1>2, ProductDivides
  <2> QED
    BY <2>1, <2>2, <2>3
<1>6. (n * c) \div k = p /\ (n * c) % p = 0
  BY <1>3, <1>5, Zenon
<1> QED
  BY <1>5, <1>6, Zenon

LEMMA LimitsAre == MaxNodes \in Nat /\ MaxCards \in Nat \ {0}
BY WizardAssumption, Zenon

\* What each question accepts.
LEMMA AcceptedIs ==
  ASSUME NEW form
  PROVE  /\ Accepted("framework", form) = {"PyTorch", "MPI"}
         /\ \A value \in Accepted("cards", form) : value \in 1..MaxCards
         /\ Accepted("nodes", form) = 2..MaxNodes
         /\ \A value \in Accepted("supernodes", form) :
              value \in 1..form.nodes /\ Divides(value, form.nodes)
<1>1. Accepted("framework", form) = {"PyTorch", "MPI"}
  BY Zenon DEF Accepted
<1>2. ASSUME NEW value \in Accepted("cards", form)  PROVE value \in 1..MaxCards
  BY Zenon DEF Accepted
<1>3. Accepted("nodes", form) = 2..MaxNodes
  BY Zenon DEF Accepted
<1>4. ASSUME NEW value \in Accepted("supernodes", form)
      PROVE  value \in 1..form.nodes /\ Divides(value, form.nodes)
  BY Zenon DEF Accepted
<1> QED
  BY <1>1, <1>2, <1>3, <1>4

\* What a form must have before anything is made of it.
Complete(form) ==
  /\ form.framework \in {"PyTorch", "MPI"}
  /\ args.template \in {"910c-single", "910b-single"} => form.cards \in 1..MaxCards
  /\ Multi => form.nodes \in 2..MaxNodes
  /\ args.template = "910c-multi" => Divides(form.supernodes, form.nodes)

\* What JobsAreWhole says of a job.
WholeJob(job) ==
    LET replicas(task) == IF task \in DOMAIN job.tasks THEN job.tasks[task] ELSE 0
        all == replicas("master") + replicas("worker")
    IN  /\ job.available = all
        /\ job.completes \subseteq DOMAIN job.tasks
        /\ job.block > 0 => job.block % job.chips = 0 /\ (all * job.chips) % job.block = 0

LEMMA CompleteIsWhole ==
  ASSUME NEW form, Complete(form), args.template \in Templates \ {"pvc"}
  PROVE  WholeJob(Manifest(form))
<1> DEFINE job == Manifest(form)
           replicas(task) == IF task \in DOMAIN job.tasks THEN job.tasks[task] ELSE 0
           all == replicas("master") + replicas("worker")
<1>0. /\ job.tasks = Tasks(form) /\ job.completes = (IF MPI(form) THEN {"master"} ELSE {})
      /\ job.available = (IF Multi THEN form.nodes ELSE 1)
      /\ job.chips = Chips(form) /\ job.block = Block(form)
  BY DEF Manifest
<1> HIDE DEF job, replicas, all
<1>1. ASSUME Multi  PROVE WholeJob(job)
  <2>0. form.nodes \in 2..MaxNodes /\ form.nodes \in Nat /\ form.nodes >= 2
    BY <1>1, LimitsAre DEF Complete
  <2>1. /\ DOMAIN job.tasks = {"master", "worker"}
        /\ job.tasks["master"] = 1 /\ job.tasks["worker"] = form.nodes - 1
    <3> DEFINE master == Just("master", 1)
               tasks == With(master, "worker", form.nodes - 1)
    <3>1. DOMAIN master = {"master"} /\ master["master"] = 1
      BY JustIs
    <3> HIDE DEF master
    <3>2. /\ DOMAIN tasks = DOMAIN master \cup {"worker"} /\ tasks["worker"] = form.nodes - 1
          /\ \A x \in DOMAIN master \ {"worker"} : tasks[x] = master[x]
      BY DEF With
    <3> HIDE DEF tasks
    <3>3. job.tasks = tasks
      BY <1>0, <1>1 DEF Tasks, tasks, master
    <3> QED
      BY <3>1, <3>2, <3>3
  <2>2. all = form.nodes
    BY <2>0, <2>1 DEF replicas, all
  <2>3. job.completes \subseteq DOMAIN job.tasks
    BY <1>0, <2>1
  <2>4. CASE args.template = "910c-multi"
    <3>1. job.block = (form.nodes * job.chips) \div form.supernodes /\ job.chips = MaxCards
      BY <1>0, <1>1, <2>4 DEF Block, Chips
    <3>2. form.supernodes \in 1..form.nodes /\ form.nodes % form.supernodes = 0
      BY <2>4 DEF Complete, Divides
    <3>3. job.block % job.chips = 0 /\ (form.nodes * job.chips) % job.block = 0
      BY <2>0, <3>1, <3>2, BlocksAreWhole, LimitsAre
    <3> QED
      BY <1>0, <1>1, <2>2, <2>3, <3>3 DEF WholeJob, all, replicas
  <2>5. CASE args.template # "910c-multi"
    <3>1. job.block = 0
      BY <1>0, <1>1, <2>5 DEF Block, Multi
    <3> QED
      BY <1>0, <1>1, <2>2, <2>3, <3>1 DEF WholeJob, all, replicas
  <2> QED
    BY <2>4, <2>5
<1>2. ASSUME ~ Multi  PROVE WholeJob(job)
  <2>0. args.template \in {"910c-single", "910b-single"} /\ form.cards \in Nat \ {0}
    BY <1>2, LimitsAre DEF Multi, Templates, Complete
  <2>1. all = 1 /\ job.completes \subseteq DOMAIN job.tasks
    <3>1. CASE MPI(form)
      <4>1. job.tasks = Just("master", 1)
        BY <1>0, <1>2, <3>1 DEF Tasks
      <4>2. DOMAIN job.tasks = {"master"} /\ job.tasks["master"] = 1
        BY <4>1, JustIs
      <4> QED
        BY <1>0, <3>1, <4>2 DEF all, replicas
    <3>2. CASE ~ MPI(form)
      <4>1. job.tasks = Just("worker", 1)
        BY <1>0, <1>2, <3>2 DEF Tasks
      <4>2. DOMAIN job.tasks = {"worker"} /\ job.tasks["worker"] = 1
        BY <4>1, JustIs
      <4> QED
        BY <1>0, <3>2, <4>2 DEF all, replicas
    <3> QED
      BY <3>1, <3>2
  <2>2. job.chips = form.cards /\ job.block \in {0, form.cards}
    BY <1>0, <1>2, <2>0 DEF Chips, Block
  <2>3. form.cards % form.cards = 0 /\ (1 * form.cards) % form.cards = 0
    BY <2>0, Z3
  <2> QED
    BY <1>0, <1>2, <2>1, <2>2, <2>3 DEF WholeJob, all, replicas
<1> QED
  BY <1>1, <1>2 DEF job

Fields == {"name", "framework", "secret", "cards", "nodes", "supernodes"}

FormIs(form) ==
  /\ DOMAIN form = Fields
  /\ form.framework \in {"PyTorch", "MPI"}
  /\ form.cards \in Nat /\ form.nodes \in Nat /\ form.supernodes \in Nat

\* The answers given before the question of this number stand as they were checked.
Answered(form, step) ==
  /\ args.template \in {"910c-single", "910b-single"} /\ step > 4 => form.cards \in 1..MaxCards
  /\ Multi /\ step > 3 => form.nodes \in 2..MaxNodes
  /\ args.template = "910c-multi" /\ step > 4 => Divides(form.supernodes, form.nodes)

ForJobs == args.template \in Templates \ {"pvc"}

\* Where the questions that matter are.
LEMMA ScriptIs ==
  ASSUME ForJobs, NEW i \in 1..Len(Script)
  PROVE  /\ Script[i] \in Fields /\ Len(Script) \in {4, 5}
         /\ args.template \in {"910c-single", "910b-single"} =>
              Len(Script) = 4 /\ (Script[i] = "cards" <=> i = 4)
                /\ Script[i] \notin {"nodes", "supernodes"}
         /\ Multi => Script[i] # "cards" /\ (Script[i] = "nodes" <=> i = 3)
         /\ args.template = "910c-multi" => Len(Script) = 5 /\ (Script[i] = "supernodes" <=> i = 4)
         /\ args.template = "multi" => Len(Script) = 4 /\ Script[i] # "supernodes"
<1>1. CASE args.template \in {"910c-single", "910b-single"}
  <2>1. Script = <<"name", "framework", "secret", "cards">>
    BY <1>1 DEF Script, Steps
  <2>2. i \in {1, 2, 3, 4} /\ Len(Script) = 4
    BY <2>1
  <2> QED
    BY <1>1, <2>1, <2>2 DEF Fields, Multi
<1>2. CASE args.template = "910c-multi"
  <2>1. Script = <<"name", "framework", "nodes", "supernodes", "secret">>
    BY <1>2 DEF Script, Steps
  <2>2. i \in {1, 2, 3, 4, 5} /\ Len(Script) = 5
    BY <2>1
  <2> QED
    BY <1>2, <2>1, <2>2 DEF Fields, Multi
<1>3. CASE args.template = "multi"
  <2>1. Script = <<"name", "framework", "nodes", "secret">>
    BY <1>3 DEF Script, Steps
  <2>2. i \in {1, 2, 3, 4} /\ Len(Script) = 4
    BY <2>1
  <2> QED
    BY <1>3, <2>1, <2>2 DEF Fields, Multi
<1> QED
  BY <1>1, <1>2, <1>3 DEF ForJobs, Templates

\* An answer leaves the earlier ones as they were checked: more machines or fewer
\* are followed by the question for the supernodes again.
LEMMA AnswerKeeps ==
  ASSUME ForJobs, NEW i \in 1..Len(Script), NEW form, FormIs(form), Answered(form, i),
         NEW value \in Accepted(Script[i], form)
  PROVE  /\ FormIs(Filled(form, Script[i], value))
         /\ Answered(Filled(form, Script[i], value), i + 1)
<1> DEFINE step == Script[i]
           filled == Filled(form, step, value)
<1>0. /\ step \in Fields /\ i \in Nat
      /\ args.template \in {"910c-single", "910b-single"} =>
              i <= 4 /\ (step = "cards" <=> i = 4) /\ step \notin {"nodes", "supernodes"}
      /\ Multi => step # "cards" /\ (step = "nodes" <=> i = 3)
      /\ args.template = "910c-multi" => (step = "supernodes" <=> i = 4)
      /\ args.template = "multi" => step # "supernodes"
  BY ScriptIs
<1>1. value \in Accepted(step, form)
  OBVIOUS
<1> HIDE DEF step
<1>2. CASE step = "nodes"
  <2>1. value \in 2..MaxNodes /\ value \in Nat
    BY <1>1, <1>2, LimitsAre, AcceptedIs
  <2>2. /\ DOMAIN filled = Fields
        /\ filled.nodes = value /\ filled.supernodes \in {1, form.supernodes}
        /\ filled.cards = form.cards /\ filled.framework = form.framework
    BY <1>2 DEF Filled, FormIs, Fields
  <2>3. FormIs(filled)
    BY <2>1, <2>2 DEF FormIs
  <2>4. args.template \notin {"910c-single", "910b-single"} /\ i + 1 <= 4
    BY <1>0, <1>2 DEF ForJobs, Templates, Multi
  <2> HIDE DEF filled
  <2>5. Answered(filled, i + 1)
    BY <1>0, <2>1, <2>2, <2>4 DEF Answered
  <2> QED
    BY <2>3, <2>5 DEF filled, step
<1>3. CASE step = "supernodes"
  <2>1. args.template = "910c-multi" /\ i = 4
    BY <1>0, <1>3 DEF ForJobs, Templates
  <2>2. Divides(value, form.nodes) /\ value \in Nat
    BY <1>1, <1>3, AcceptedIs DEF FormIs
  <2>3. /\ DOMAIN filled = Fields /\ filled.supernodes = value
        /\ filled.nodes = form.nodes
        /\ filled.cards = form.cards /\ filled.framework = form.framework
    BY <1>3 DEF Filled, FormIs, Fields
  <2>4. FormIs(filled)
    BY <2>2, <2>3 DEF FormIs
  <2> HIDE DEF filled
  <2>5. Answered(filled, i + 1)
    BY <2>1, <2>2, <2>3 DEF Answered
  <2> QED
    BY <2>4, <2>5 DEF filled, step
<1>4. CASE step = "cards"
  <2>1. value \in 1..MaxCards /\ value \in Nat
    BY <1>1, <1>4, LimitsAre, AcceptedIs
  <2>2. /\ DOMAIN filled = Fields /\ filled.cards = value
        /\ filled.nodes = form.nodes /\ filled.supernodes = form.supernodes
        /\ filled.framework = form.framework
    BY <1>4 DEF Filled, FormIs, Fields
  <2>3. FormIs(filled)
    BY <2>1, <2>2 DEF FormIs
  <2>4. ~ Multi /\ args.template # "910c-multi"
    BY <1>0, <1>4 DEF Multi
  <2> HIDE DEF filled
  <2>5. Answered(filled, i + 1)
    BY <2>1, <2>2, <2>4 DEF Answered
  <2> QED
    BY <2>3, <2>5 DEF filled, step
<1>5. CASE step \in {"name", "framework", "secret"}
  <2>1. /\ DOMAIN filled = Fields /\ filled.cards = form.cards
        /\ filled.nodes = form.nodes /\ filled.supernodes = form.supernodes
    BY <1>5 DEF Filled, FormIs, Fields
  <2>2. filled.framework \in {"PyTorch", "MPI"}
    <3>1. CASE step = "framework"
      BY <1>1, <3>1, AcceptedIs DEF Filled, FormIs, Fields
    <3>2. CASE step # "framework"
      BY <1>5, <3>2 DEF Filled, FormIs, Fields
    <3> QED
      BY <3>1, <3>2
  <2>3. FormIs(filled)
    BY <2>1, <2>2 DEF FormIs
  <2> HIDE DEF filled
  <2>4. Answered(filled, i + 1)
    BY <1>0, <1>5, <2>1 DEF Answered, Multi
  <2> QED
    BY <2>3, <2>4 DEF filled, step
<1> QED
  BY <1>0, <1>2, <1>3, <1>4, <1>5 DEF Fields

LEMMA AllAnswered ==
  ASSUME ForJobs, NEW form, FormIs(form), Answered(form, Len(Script) + 1)
  PROVE  Complete(form)
<1>1. 1 \in 1..Len(Script)
  <2>1. Len(Script) \in {4, 5}
    BY DEF ForJobs, Templates, Script, Steps
  <2> QED
    BY <2>1
<1>2. /\ args.template \in {"910c-single", "910b-single"} => Len(Script) = 4
      /\ args.template = "910c-multi" => Len(Script) = 5
      /\ args.template = "multi" => Len(Script) = 4
  BY <1>1, ScriptIs
<1>3. /\ args.template \in {"910c-single", "910b-single"} => form.cards \in 1..MaxCards
      /\ args.template = "910c-multi" => Divides(form.supernodes, form.nodes)
  <2>1. CASE args.template \in {"910c-single", "910b-single"}
    <3>1. Len(Script) = 4
      BY <1>2, <2>1, Zenon
    <3>2. 4 + 1 = 5
      OBVIOUS
    <3>3. Answered(form, 5)
      BY <3>1, <3>2, Zenon
    <3> QED
      BY <2>1, <3>3 DEF Answered
  <2>2. CASE args.template = "910c-multi"
    <3>1. Len(Script) = 5
      BY <1>2, <2>2, Zenon
    <3>2. 5 + 1 = 6
      OBVIOUS
    <3>3. Answered(form, 6)
      BY <3>1, <3>2, Zenon
    <3> QED
      BY <2>2, <3>3 DEF Answered
  <2> QED
    BY <2>1, <2>2
<1>4. Multi => form.nodes \in 2..MaxNodes
  BY <1>2 DEF Answered, Multi
<1> QED
  BY <1>3, <1>4 DEF FormIs, Complete

LEMMA ArgumentsAreComplete ==
  ASSUME ForJobs, NEW form \in Arguments
  PROVE  Complete(form)
<1>1. /\ form.framework \in {"PyTorch", "MPI"}
      /\ \A step \in Fields :
           step \in Range(Script) => form[step] \in Accepted(step, form)
  <2>1. DOMAIN Defaults = Fields
    BY DEF Defaults, Fields
  <2> QED
    BY <2>1 DEF Arguments
<1>2. \A i \in 1..Len(Script) : Script[i] \in Range(Script)
  <2>1. \/ Script = <<"name", "framework", "secret", "cards">>
        \/ Script = <<"name", "framework", "nodes", "supernodes", "secret">>
        \/ Script = <<"name", "framework", "nodes", "secret">>
    BY DEF ForJobs, Templates, Script, Steps
  <2>2. Script \in Seq(Fields)
    <3>1. CASE Script = <<"name", "framework", "secret", "cards">>
      BY <3>1 DEF Fields
    <3>2. CASE Script = <<"name", "framework", "nodes", "supernodes", "secret">>
      BY <3>2 DEF Fields
    <3>3. CASE Script = <<"name", "framework", "nodes", "secret">>
      BY <3>3 DEF Fields
    <3> QED
      BY <2>1, <3>1, <3>2, <3>3
  <2> QED
    BY <2>2 DEF Range
<1>3. CASE args.template \in {"910c-single", "910b-single"}
  <2>1. "cards" \in Range(Script)
    <3>1. Len(Script) = 4 /\ Script[4] = "cards"
      BY <1>3 DEF Script, Steps
    <3> QED
      BY <1>2, <3>1
  <2>2. form["cards"] \in Accepted("cards", form)
    BY <1>1, <2>1 DEF Fields
  <2>3. form.cards \in 1..MaxCards
    BY <2>2, AcceptedIs
  <2> QED
    BY <1>1, <1>3, <2>3 DEF Complete, Multi
<1>4. CASE Multi
  <2>1. "nodes" \in Range(Script) /\ (args.template = "910c-multi" => "supernodes" \in Range(Script))
    <3>1. /\ Len(Script) \in {4, 5} /\ Script[3] = "nodes"
          /\ args.template = "910c-multi" => Script[4] = "supernodes"
      BY <1>4 DEF Multi, Script, Steps
    <3>2. 3 \in 1..Len(Script) /\ 4 \in 1..Len(Script)
      BY <3>1
    <3> QED
      BY <1>2, <3>1, <3>2
  <2>2. form["nodes"] \in Accepted("nodes", form)
    BY <1>1, <2>1 DEF Fields
  <2>3. form.nodes \in 2..MaxNodes
    BY <2>2, AcceptedIs
  <2>4. ASSUME args.template = "910c-multi"  PROVE Divides(form.supernodes, form.nodes)
    <3>1. form["supernodes"] \in Accepted("supernodes", form)
      BY <1>1, <2>1, <2>4 DEF Fields
    <3> QED
      BY <3>1, AcceptedIs
  <2> QED
    BY <1>1, <1>4, <2>3, <2>4 DEF Complete, Multi
<1> QED
  BY <1>3, <1>4 DEF ForJobs, Templates, Multi

WizardInv ==
  command = "create" /\ args.template # "pvc" =>
    /\ ForJobs
    /\ pc = "ask" =>
         plan.step \in 1..Len(Script) /\ FormIs(plan.form) /\ Answered(plan.form, plan.step)
    /\ pc \in {"yaml", "confirm", "apply"} => Complete(plan.shown)
    /\ \A w \in Range(sent) : WholeJob(w.object)

\* The questions are the template's, and the template stays.
LEMMA QuestionsStay ==
  ASSUME UNCHANGED args
  PROVE  /\ Script' = Script /\ (ForJobs => ForJobs')
         /\ \A form : Complete(form) => Complete(form)'
         /\ \A form, step : Answered(form, step) => Answered(form, step)'
<1>1. Script' = Script /\ (ForJobs => ForJobs')
  BY DEF Script, ForJobs
<1>2. \A form : Complete(form) => Complete(form)'
  BY DEF Complete, Multi
<1>3. \A form, step : Answered(form, step) => Answered(form, step)'
  BY DEF Answered, Multi
<1> QED
  BY <1>1, <1>2, <1>3

LEMMA DefaultsAre == FormIs(Defaults) /\ Answered(Defaults, 1)
<1>1. FormIs(Defaults)
  BY DEF FormIs, Defaults, Fields
<1>2. Answered(Defaults, 1)
  BY DEF Answered
<1> QED
  BY <1>1, <1>2

LEMMA InitWizard == Init => WizardInv
<1> SUFFICES ASSUME Init, command = "create", args.template # "pvc"  PROVE WizardInv
  BY DEF WizardInv
<1>1. pc = "prepare" /\ sent = << >>
  BY DEF Init, CommandInit
<1>2. WizardInit
  BY DEF Init, RBACInit, AuthInit, SSPInit, NodesInit, PolicyInit, AFSInit, MutationInit
<1>3. ForJobs
  <2>1. PICK t \in Templates : args = [template |-> t]
    BY <1>2 DEF WizardInit
  <2>2. args.template = t
    BY <2>1
  <2> QED
    BY <2>2 DEF ForJobs
<1> QED
  BY <1>1, <1>3, EmptyRange DEF WizardInv

LEMMA WizardNext ==
  ASSUME ConsentInv, CreateInv, WizardInv, Next
  PROVE  WizardInv'
<1> USE DEF At
<1>i. pc # "end" /\ UNCHANGED <<command, args>>
  BY InputStays
<1>0. CASE ~ (command = "create" /\ args.template # "pvc")
  BY <1>0, <1>i DEF WizardInv
<1>c. CASE command = "create" /\ args.template # "pvc"
  <2>w. /\ ForJobs
        /\ pc = "ask" =>
             plan.step \in 1..Len(Script) /\ FormIs(plan.form) /\ Answered(plan.form, plan.step)
        /\ pc \in {"yaml", "confirm", "apply"} => Complete(plan.shown)
        /\ \A w \in Range(sent) : WholeJob(w.object)
    BY <1>c DEF WizardInv
  <2>j. Script' = Script /\ ForJobs'
    BY <1>i, <2>w, QuestionsStay
  <2>a. ASSUME sent' = sent, pc' \notin {"ask", "yaml", "confirm", "apply"}  PROVE WizardInv'
    BY <2>a, <2>j, <2>w DEF WizardInv
  <2>f. ASSUME NEW form, Complete(form), plan'.shown = form, sent' = sent, pc' # "ask"
        PROVE  WizardInv'
    <3>1. Complete(form)'
      BY <1>i, <2>f, QuestionsStay
    <3>2. Complete(plan.shown)'
      BY <2>f, <3>1 DEF Complete
    <3> QED
      BY <2>f, <2>j, <2>w, <3>2 DEF WizardInv
  <2>k. ASSUME NEW form, NEW step \in 1..Len(Script), FormIs(form), Answered(form, step),
               plan'.form = form, plan'.step = step, sent' = sent, pc' = "ask"
        PROVE  WizardInv'
    <3>1. Answered(form, step)'
      BY <1>i, <2>k, QuestionsStay
    <3>2. Answered(plan.form, plan.step)'
      BY <2>k, <3>1 DEF Answered
    <3> QED
      BY <2>j, <2>k, <2>w, <3>2 DEF WizardInv
  <2>s. ASSUME pc \in {"yaml", "confirm", "apply"}, plan' = plan, sent' = sent, pc' # "ask"
        PROVE  WizardInv'
    BY <2>f, <2>s, <2>w
  <2>1. CASE GivesUp
    BY <2>1, <2>a DEF GivesUp, consent
  <2>2. CASE Confirm
    BY <2>2, <2>s DEF Confirm, Goto
  <2>3. CASE StartWizard
    <3>1. 1 \in 1..Len(Script)
      <4>1. Len(Script) \in {4, 5}
        BY <2>w DEF ForJobs, Templates, Script, Steps
      <4> QED
        BY <4>1
    <3>2. plan'.form = Defaults /\ plan'.step = 1
      BY <2>3 DEF StartWizard, Asking
    <3>3. sent' = sent /\ pc' = "ask"
      BY <2>3 DEF StartWizard, Goto, consent
    <3> QED
      BY <2>k, <3>1, <3>2, <3>3, DefaultsAre
  <2>4. CASE ParameterMode
    <3>1. CASE Stop("error")
      BY <2>a, <3>1 DEF Stop, Finish, consent
    <3>2. CASE \E form \in Arguments : Proceed({CreateObject(form)}, form)
      <4>1. PICK form \in Arguments : Proceed({CreateObject(form)}, form)
        BY <3>2
      <4>2. plan'.shown = form /\ sent' = sent /\ pc' = "apply"
        BY <4>1 DEF Proceed, Goto
      <4>3. Complete(form)
        BY <2>w, ArgumentsAreComplete
      <4> QED
        BY <2>f, <4>2, <4>3
    <3> QED
      BY <2>4, <3>1, <3>2 DEF ParameterMode
  <2>5. CASE Answer
    <3> DEFINE step == Script[plan.step]
    <3>1. pc = "ask" /\ sent' = sent
      BY <2>5 DEF Answer, consent
    <3>2. PICK value \in Accepted(step, plan.form) :
            LET form == Filled(plan.form, step, value) IN
            IF plan.step < Len(Script)
              THEN Asking(form, plan.step + 1) /\ UNCHANGED <<pc, outcome>>
              ELSE /\ plan' = [writes |-> {CreateObject(form)}, shown |-> form, form |-> form]
                   /\ Goto(IF args.template = "pvc" THEN "confirm" ELSE "yaml")
      BY <2>5 DEF Answer
    <3> DEFINE form == Filled(plan.form, step, value)
    <3>3. FormIs(form) /\ Answered(form, plan.step + 1)
      BY <2>w, <3>1, AnswerKeeps
    <3>4. CASE plan.step < Len(Script)
      <4>1. Asking(form, plan.step + 1) /\ pc' = pc
        BY <3>2, <3>4
      <4> HIDE DEF form
      <4>2. plan'.form = form /\ plan'.step = plan.step + 1
        BY <4>1 DEF Asking
      <4>3. plan.step + 1 \in 1..Len(Script)
        <5>1. Len(Script) \in Nat
          BY <2>w, ScriptIs, <3>1
        <5> QED
          BY <2>w, <3>1, <3>4, <5>1
      <4> QED
        BY <2>k, <3>1, <3>3, <4>1, <4>2, <4>3
    <3>5. CASE ~ plan.step < Len(Script)
      <4>1. plan' = [writes |-> {CreateObject(form)}, shown |-> form, form |-> form] /\ pc' = "yaml"
        BY <1>c, <3>2, <3>5 DEF Goto
      <4>2. plan.step = Len(Script)
        <5>1. Len(Script) \in Nat
          BY <2>w, ScriptIs, <3>1
        <5> QED
          BY <2>w, <3>1, <3>5, <5>1
      <4> HIDE DEF form
      <4>3. Complete(form)
        BY <2>w, <3>3, <4>2, AllAnswered
      <4>4. plan'.shown = form
        BY <4>1
      <4> QED
        BY <2>f, <3>1, <4>1, <4>3, <4>4
    <3> QED
      BY <3>4, <3>5
  <2>6. CASE Back
    <3>1. /\ pc = "ask" /\ plan.step > 1 /\ Asking(plan.form, plan.step - 1)
          /\ pc' = "ask" /\ sent' = sent
      BY <1>c, <2>6 DEF Back, Goto, consent
    <3>2. plan'.form = plan.form /\ plan'.step = plan.step - 1
      BY <3>1 DEF Asking
    <3>3. Len(Script) \in Nat
      BY <2>w, <3>1, ScriptIs
    <3>4. plan.step \in Nat /\ plan.step - 1 \in 1..Len(Script)
      BY <2>w, <3>1, <3>3
    <3>5. Answered(plan.form, plan.step - 1)
      BY <2>w, <3>1, <3>4 DEF Answered
    <3> QED
      BY <2>k, <2>w, <3>1, <3>2, <3>4, <3>5
  <2>7. CASE AskYAML
    <3>1. CASE Stop("dry-run")
      BY <2>a, <3>1 DEF Stop, Finish, consent
    <3>2. CASE Goto("confirm") /\ UNCHANGED <<input, plan, world, consent>>
      BY <2>7, <2>s, <3>2 DEF AskYAML, Goto, consent
    <3> QED
      BY <2>7, <3>1, <3>2 DEF AskYAML
  <2>8. CASE ApplyCreate
    <3>0. pc = "apply" /\ sent = << >>
      BY <1>c, <2>8 DEF ApplyCreate, ConsentInv
    <3>1. CASE Stop("dry-run")
      BY <2>a, <3>1 DEF Stop, Finish, consent
    <3>2. CASE \E w \in plan.writes : sent' = Append(sent, w) /\ pc' = "end"
      <4>1. plan.writes = {CreateObject(plan.shown)}
        BY <1>c, <3>0 DEF CreateInv
      <4>2. sent' = Append(<< >>, CreateObject(plan.shown))
        BY <3>0, <3>2, <4>1
      <4>3. \A w \in Range(sent') : w = CreateObject(plan.shown)
        BY <4>2, OneSent
      <4>4. CreateObject(plan.shown).object = Manifest(plan.shown)
        BY <1>c DEF CreateObject, Object
      <4>5. WholeJob(Manifest(plan.shown))
        BY <2>w, <3>0, CompleteIsWhole DEF ForJobs
      <4>6. \A w \in Range(sent') : WholeJob(w.object)
        BY <4>3, <4>4, <4>5, Zenon
      <4> QED
        BY <2>j, <3>2, <4>6 DEF WizardInv
    <3> QED
      BY <2>8, <3>1, <3>2 DEF ApplyCreate, Rejected, Send, Finish
  <2>9. CASE WizardOthers
    <3>1. UNCHANGED <<pc, plan, sent>>
      BY <2>9 DEF WizardOthers, Touch, consent
    <3>2. CASE pc = "ask"
      BY <2>k, <2>w, <3>1, <3>2
    <3>3. CASE pc \in {"yaml", "confirm", "apply"}
      BY <2>s, <3>1, <3>3
    <3> QED
      BY <2>a, <3>1, <3>2, <3>3
  <2>10. QED
    BY <1>c, <2>1, <2>2, <2>3, <2>4, <2>5, <2>6, <2>7, <2>8, <2>9, NextOf
    DEF RBACStep, AuthStep, SSPStep, NodeStep, PolicyStep, AFSStep, WizardStep, MutationStep, WizardSteps
<1>q. QED
  BY <1>0, <1>c

\* Whatever was asked and answered, back and forth, and whatever the arguments
\* said: a job that is created can be scheduled and can end, for every number of
\* machines and accelerators.
THEOREM JobsCanRun == Spec => []JobsAreWhole
<1>1. CommandsInv /\ WizardInv /\ Next => WizardInv'
  BY WizardNext DEF CommandsInv
<1>2. WizardInv /\ UNCHANGED vars => WizardInv'
  <2> SUFFICES ASSUME WizardInv, UNCHANGED vars  PROVE WizardInv'
    OBVIOUS
  <2>1. UNCHANGED <<command, args, pc, plan, sent>>
    BY DEF vars, input, consent
  <2> QED
    BY <2>1 DEF WizardInv, ForJobs, Script, Answered, Complete, Multi
<1>3. WizardInv => JobsAreWhole
  BY Zenon DEF WizardInv, WholeJob, JobsAreWhole
<1>4. QED
  BY <1>1, <1>2, <1>3, InitWizard, CommandsInvariance, PTL DEF Spec
=============================================================================
