--------------------------- MODULE CreateWizards ---------------------------
(***************************************************************************)
(* rayctl job create <template> and rayctl pvc create (cmd/job_create.go,  *)
(* internal/service/job_create.go, cmd/pvc.go,                             *)
(* internal/service/storage_service.go).  Without arguments they ask step  *)
(* by step; ":b" goes back one step, Enter keeps what a step offers.  With *)
(* arguments they check them all and ask nothing.                          *)
(*                                                                         *)
(* Steps that treat their value alike are one step here: "name" is what    *)
(* must be typed, "framework" a choice with a default, "secret" what "-"   *)
(* leaves empty, "nodes", "supernodes" and "cards" are numbers.            *)
(***************************************************************************)
EXTENDS Command

CONSTANTS
  Texts,     \* what may be typed
  ClaimNamed,\* the name of the claim each makes
  MaxNodes,  \* most machines of a job (64)
  MaxCards   \* most accelerators of a machine (16)

ASSUME WizardAssumption ==
  /\ MaxNodes \in Nat /\ MaxCards \in Nat \ {0}
  /\ "" \notin Texts /\ DOMAIN ClaimNamed = Texts

Templates == {"910c-single", "910b-single", "910c-multi", "multi", "pvc"}

Steps(template) ==
  CASE template \in {"910c-single", "910b-single"} -> <<"name", "framework", "secret", "cards">>
    [] template = "910c-multi" -> <<"name", "framework", "nodes", "supernodes", "secret">>
    [] template = "multi" -> <<"name", "framework", "nodes", "secret">>
    [] template = "pvc" -> <<"name">>

\* What the variables hold before they are asked for; 0 and "" are no value.
Defaults == [name |-> "", framework |-> "PyTorch", secret |-> "", cards |-> 0,
             nodes |-> 0, supernodes |-> 1]

\* parse910CMultiLogicalSupernodes
Divides(supernodes, nodes) == supernodes \in 1..nodes /\ nodes % supernodes = 0

\* Mutant: Enter takes the supernodes that are offered unchecked.
AcceptedAsOffered(step, form) ==
  CASE step = "name" -> Texts
    [] step = "framework" -> {"PyTorch", "MPI"}
    [] step = "secret" -> Texts \cup {""}
    [] step = "cards" -> {n \in 1..MaxCards : args.template = "910c-single" => n % 2 = 0}
    [] step = "nodes" -> 2..MaxNodes
    [] step = "supernodes" -> {form.supernodes} \cup {n \in 1..form.nodes : Divides(n, form.nodes)}

\* What a step accepts, given the answers so far: promptIntInRange,
\* promptAcceleratorCount (even numbers on a 910c), promptFrameworkValue.
Accepted(step, form) ==
  CASE step = "name" -> Texts
    [] step = "framework" -> {"PyTorch", "MPI"}
    [] step = "secret" -> Texts \cup {""}
    [] step = "cards" -> {n \in 1..MaxCards : args.template = "910c-single" => n % 2 = 0}
    [] step = "nodes" -> 2..MaxNodes
    [] step = "supernodes" -> {n \in 1..form.nodes : Divides(n, form.nodes)}

\* The supernodes of an earlier answer are dropped when they exceed the machines.
Filled(form, step, value) ==
  LET next == [form EXCEPT ![step] = value] IN
  IF step = "nodes" /\ form.supernodes > value THEN [next EXCEPT !.supernodes = 1] ELSE next

WizardInit ==
  /\ \E t \in Templates : command = "create" /\ args = [template |-> t]
  /\ store = Just("object", Absent)

Script == Steps(args.template)
Multi == args.template \in {"910c-multi", "multi"}

MPI(form) == form.framework = "MPI"

\* buildTaskSpec: machines per task.
Tasks(form) ==
  IF Multi THEN With(Just("master", 1), "worker", form.nodes - 1)
  ELSE Just(IF MPI(form) THEN "master" ELSE "worker", 1)

\* Every machine of a multi job is used whole.
Chips(form) == IF Multi THEN MaxCards ELSE form.cards

\* sp-block: the chips of a supernode; templates other than 910c leave it out.
Block(form) ==
  CASE args.template = "910c-multi" -> (form.nodes * Chips(form)) \div form.supernodes
    [] args.template = "910c-single" -> Chips(form)
    [] OTHER -> 0

\* BuildJobManifest
Manifest(form) ==
  [is |-> "job", name |-> form.name, secret |-> form.secret,
   tasks |-> Tasks(form), completes |-> IF MPI(form) THEN {"master"} ELSE {},
   available |-> IF Multi THEN form.nodes ELSE 1,
   chips |-> Chips(form), block |-> Block(form)]

\* The object of the request: a job, or a claim under its normalised name.
Object(form) ==
  IF args.template = "pvc" THEN [is |-> "pvc", name |-> ClaimNamed[form.name]]
  ELSE Manifest(form)

CreateObject(form) == [op |-> "create", object |-> Object(form)]

Asking(form, step) == plan' = [writes |-> {}, shown |-> << >>, form |-> form, step |-> step]

\* No argument that is required is there: the questions begin.
StartWizard ==
  /\ At("create", "prepare") /\ Goto("ask")
  /\ Asking(Defaults, 1)
  /\ UNCHANGED <<input, world, consent>>

\* What the arguments can say: fields of the template, each checked by itself.
Arguments ==
  {form \in [name : Texts, framework : {"PyTorch", "MPI"}, secret : Texts \cup {""},
             cards : 0..MaxCards, nodes : 0..MaxNodes, supernodes : 1..MaxNodes] :
     \A step \in DOMAIN Defaults :
       form[step] \in IF step \in Range(Script) THEN Accepted(step, form) ELSE {Defaults[step]}}

\* Arguments were given: without a required one, or with a bad one, it ends.
ParameterMode ==
  /\ At("create", "prepare")
  /\ \/ Stop("error")
     \/ \E form \in Arguments : Proceed({CreateObject(form)}, form)

\* A step is answered; Enter offers the value the variable has, which is
\* checked as if it had been typed.  After the last step comes the preview.
Answer ==
  /\ At("create", "ask")
  /\ LET step == Script[plan.step] IN
     \E value \in Accepted(step, plan.form) :
       LET form == Filled(plan.form, step, value) IN
       IF plan.step < Len(Script)
         THEN Asking(form, plan.step + 1) /\ UNCHANGED <<pc, outcome>>
         ELSE /\ plan' = [writes |-> {CreateObject(form)}, shown |-> form, form |-> form]
              /\ Goto(IF args.template = "pvc" THEN "confirm" ELSE "yaml")
  /\ UNCHANGED <<input, world, consent>>

\* :b goes one step back and keeps what has been entered; the first step stays.
\* pvc create takes it at its question as well.
Back ==
  /\ command = "create"
  /\ \/ pc = "ask" /\ plan.step > 1 /\ Asking(plan.form, plan.step - 1)
     \/ pc = "confirm" /\ args.template = "pvc" /\ Asking(plan.form, Len(Script))
  /\ Goto("ask") /\ UNCHANGED <<input, world, consent>>

\* "Only write the YAML?"
AskYAML ==
  /\ At("create", "yaml")
  /\ \/ Stop("dry-run")
     \/ Goto("confirm") /\ UNCHANGED <<input, plan, world, consent>>

\* With --what-if the job is written to a file, whatever was answered.
ApplyCreate ==
  /\ At("create", "apply")
  /\ \/ args.template # "pvc" /\ Stop("dry-run")
     \/ \E w \in plan.writes :
          IF store["object"] # Absent
            THEN Rejected(w)
            ELSE Send(w, Just("object", w.object), "error", Finish("created") /\ UNCHANGED plan)

WizardSteps == StartWizard \/ ParameterMode \/ Answer \/ Back \/ AskYAML \/ ApplyCreate

WizardOthers == command = "create" /\ Touch("object", [is |-> "other"])

\* Whatever way the answers were given, back and forth or as arguments, the job
\* that is created is one that can be scheduled and end: its tasks together are
\* the machines it waits for, each supernode consists of whole machines and the
\* supernodes of all of them, and an MPI job has the task whose end is its end.
JobsAreWhole ==
  \A w \in Range(sent) : command = "create" /\ args.template # "pvc" =>
    LET job == w.object
        replicas(task) == IF task \in DOMAIN job.tasks THEN job.tasks[task] ELSE 0
        all == replicas("master") + replicas("worker")
    IN  /\ job.available = all
        /\ job.completes \subseteq DOMAIN job.tasks
        /\ job.block > 0 => job.block % job.chips = 0 /\ (all * job.chips) % job.block = 0

\* "created" is said of an object that is there, with the answers that were shown.
CreateReport ==
  command = "create" /\ outcome = "created" =>
    \/ "object" \in touched
    \/ store["object"] = Object(plan.shown)
=============================================================================
