------------------------------ MODULE Commands ------------------------------
(***************************************************************************)
(* One invocation of any command that changes something, and the other     *)
(* clients of the services it changes.  Whatever the command, it keeps the *)
(* promise of ConfirmedWrite, and what it reports at its end is so.        *)
(***************************************************************************)
EXTENDS RBACGrants, AuthGrants, VCNodes, PolicyUpdate, AFSCreate,
        CreateWizards, NodeMutations

Init ==
  /\ CommandInit
  /\ \/ RBACInit \/ AuthInit \/ SSPInit \/ NodesInit
     \/ PolicyInit \/ AFSInit \/ WizardInit \/ MutationInit

Reads ==
  \/ ReadFails("prepare") \/ ReadFails("ask") \/ ReadFails("yaml")
  \/ command \in {"auth grant", "auth remove", "auth ssp grant", "create"} /\ ReadFails("apply")

User == Confirm \/ Decline

CommandSteps ==
  \/ RBACSteps \/ AuthSteps \/ SSPSteps \/ NodeSteps
  \/ PolicySteps \/ AFSSteps \/ WizardSteps \/ MutationSteps

Others ==
  \/ RBACOthers \/ AuthOthers \/ SSPOthers \/ NodeOthers \/ BindNode
  \/ PolicyOthers \/ AFSOthers \/ WizardOthers \/ MutationOthers

Next == CommandSteps \/ User \/ Reads \/ Others

\* What has been agreed to and waits for somebody who need not answer: a request
\* to a Kubernetes API server, whose client has no timeout, or the password of
\* an auth grant that has to sign in first.
Unanswered ==
  /\ pc = "apply"
  /\ \/ command \in {"policy update", "create", "auth grant"}
     \/ command = "node mutate" /\ ~(plan.writes \subseteq Range(sent))

\* What a command that ends has said of its requests.
Claim ==
  CASE pc # "end" -> ""
    [] outcome \in {"dry-run", "cancelled", "already granted", "already present", "not found"} -> "nothing"
    [] OTHER -> "something"

Stage ==
  CASE pc \in {"prepare", "ask", "yaml", "confirm"} -> "open"
    [] pc = "end" -> "over"
    [] OTHER -> "agreed"

\* The process runs on, and a request to the platform is answered or times out.
\* Nothing is assumed of the user, of the API servers, or of a command that has
\* not been agreed to.
Spec == Init /\ [][Next]_vars /\ WF_vars(Stage = "agreed" /\ ~Unanswered /\ CommandSteps)

\* A command that resolves its names again finds what it found for the question:
\* others have changed nothing, and one thing only bears the name.
Steady ==
  /\ command \in {"auth grant", "auth remove"} =>
       touched = {} /\ \A s, t \in Found : s = t
  /\ command = "auth ssp grant" =>
       touched = {} /\ \A v, w \in WorkspacesFound : v = w

Consent == INSTANCE ConfirmedWrite WITH stage <- Stage, claim <- Claim, steady <- Steady

\* Every command asks for exactly what it then does: no request before the
\* answer, none for another object, profile or role than was agreed to, each
\* once (a node that was named twice has two), and no change behind a result
\* that says there was none.  Only the auth commands, which resolve their names
\* again after the answer, may send another request for the same arguments, and
\* only if others changed something meanwhile or several things bear the name.
RefinesConfirmedWrite == Consent!ConsentSpec

\* What the result says is so, whatever others did meanwhile and whichever
\* answer was lost.
ReportIsTrue ==
  /\ RBACReport /\ AuthReport /\ SSPReport /\ NodeReport
  /\ PolicyReport /\ AFSReport /\ CreateReport /\ MutationReport

\* Once the user has agreed, the command ends, unless it waits for ever for
\* somebody who does not answer; nothing that others do to the service, and no
\* platform that never does what it has accepted, keeps it from its end.
AgreedEnds == (Stage = "agreed" ~> Stage = "over") \/ <>[]Unanswered
=============================================================================
