------------------------------ MODULE Command ------------------------------
(***************************************************************************)
(* What the commands that change something have in common.  One invocation *)
(* of rayctl reads a service, prints a plan, asks, sends its requests and  *)
(* reports, while other clients change what it has read.  The modules that *)
(* extend this one add a command each; module Commands puts them together. *)
(*                                                                         *)
(* A flag is read at one place of the code, so its value is chosen there.  *)
(***************************************************************************)
EXTENDS Naturals, FiniteSets, Sequences, Functions

CONSTANT MaxTouched   \* bound on the things others change during one command

ASSUME CommandAssumption == MaxTouched \in Nat

VARIABLES
  command,  \* the subcommand
  args,     \* its arguments
  pc,
  plan,     \* what it has read, and the requests it is going to send
  store,    \* the things the service holds
  touched,  \* those that others have changed since the command began
  agreed,   \* the requests the user agreed to
  sent,     \* the requests sent, in order
  outcome   \* the result the command prints

input == <<command, args>>
world == <<store, touched>>
consent == <<agreed, sent>>
vars == <<input, pc, plan, world, consent, outcome>>

\* The function that maps one thing, and a function with one thing mapped anew.
Just(thing, value) == [x \in {thing} |-> value]
With(f, thing, value) ==
  [x \in DOMAIN f \cup {thing} |-> IF x = thing THEN value ELSE f[x]]

Absent == [is |-> "absent"]
Nothing == [writes |-> {}, shown |-> << >>]

CommandInit ==
  /\ pc = "prepare" /\ plan = Nothing
  /\ touched = {} /\ agreed = {} /\ sent = << >> /\ outcome = ""

At(c, place) == command = c /\ pc = place

Finish(result) == pc' = "end" /\ outcome' = result
Goto(place) == pc' = place /\ UNCHANGED outcome

\* The command ends before it has sent anything more.
Stop(result) == Finish(result) /\ UNCHANGED <<input, plan, world, consent>>

\* A plan is printed: its requests, and the things its text shows.  A dry run
\* ends here.
Present(writes, shown) ==
  /\ plan' = [writes |-> writes, shown |-> shown]
  /\ Goto("confirm") \/ Finish("dry-run")
  /\ UNCHANGED <<input, world, consent>>

\* The same without a question: the arguments are the agreement.
Proceed(writes, shown) ==
  /\ plan' = [writes |-> writes, shown |-> shown]
  /\ agreed' = writes
  /\ Goto("apply")
  /\ UNCHANGED <<input, world, sent>>

\* Mutant: whatever is answered.
ConfirmUnasked ==
  pc = "confirm" /\ Goto("apply") /\ UNCHANGED <<input, plan, world, consent>>

\* y, or --yes.
Confirm ==
  /\ pc = "confirm" /\ Goto("apply")
  /\ agreed' = plan.writes
  /\ UNCHANGED <<input, plan, world, sent>>

\* Any other answer, or an input that ends.
Decline == pc = "confirm" /\ (Stop("cancelled") \/ Stop("error"))

\* A call that only reads fails; the command returns the error.
ReadFails(place) == pc = place /\ Stop("error")

\* A request goes out.  The service performs it and answers (Answered says how
\* the command goes on), or refuses it; or the answer is lost, and nobody
\* knows whether it was performed.  The last two end in failure.
Send(w, after, failure, Answered) ==
  /\ sent' = Append(sent, w)
  /\ \/ store' = after /\ Answered
     \/ store' \in {store, after} /\ Finish(failure) /\ UNCHANGED plan
  /\ UNCHANGED <<input, touched, agreed>>

\* A request that cannot be performed, as things are.
Rejected(w) == Send(w, store, "error", Finish("error") /\ UNCHANGED plan)

\* Another client changes a thing, once, while the command runs.
Touch(thing, value) ==
  /\ pc # "end"
  /\ thing \notin touched /\ Cardinality(touched) < MaxTouched
  /\ value # store[thing]
  /\ store' = [store EXCEPT ![thing] = value]
  /\ touched' = touched \cup {thing}
  /\ UNCHANGED <<input, pc, plan, consent, outcome>>
=============================================================================
