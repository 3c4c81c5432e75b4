--------------------------- MODULE ConfirmedWrite ---------------------------
(***************************************************************************)
(* What every rayctl command that changes something promises: it asks once *)
(* (or takes its arguments for the answer, where it has no question or     *)
(* --yes is given), it sends only requests that were agreed to, each at    *)
(* most once, and when it says that nothing happened it has sent nothing.  *)
(*                                                                         *)
(* A request says what is done, to which object and where.  Where names    *)
(* are resolved again after the answer, the promise is weaker: while they  *)
(* may have come to stand for something else, the request that goes out is *)
(* one for the same arguments, and its object need not be the one that was *)
(* agreed to.                                                              *)
(***************************************************************************)
EXTENDS Sequences, Functions

VARIABLES
  stage,   \* "open", "agreed", "over"
  agreed,  \* the requests agreed to
  sent,    \* the requests sent, in order
  claim,   \* what the command says at its end: "", "nothing" or "something"
  steady   \* whether every name stands for what it stood for in the question

consentVars == <<stage, agreed, sent, claim>>

ConsentInit ==
  stage = "open" /\ agreed = {} /\ sent = << >> /\ claim = ""

\* The user says yes to requests the command has named.
Agree ==
  /\ stage = "open" /\ stage' = "agreed"
  /\ agreed' # {}
  /\ UNCHANGED <<sent, claim>>

\* Request v is what was agreed to in w: w itself, or w with its names resolved
\* again; `as` is what the arguments say.
Fulfils(v, w) == v = w \/ (~steady /\ v.op = w.op /\ v.as = w.as)

\* One request goes out, and it may be the last thing the command does.
SendAgreed ==
  /\ stage = "agreed"
  /\ \E w \in agreed, v \in Range(sent') :
       /\ Fulfils(v, w) /\ ~\E u \in Range(sent) : Fulfils(u, w)
       /\ sent' = Append(sent, v)
  /\ \/ UNCHANGED <<stage, claim>>
     \/ stage' = "over" /\ claim' = "something"
  /\ UNCHANGED agreed

\* The command ends.
Conclude ==
  /\ stage # "over" /\ stage' = "over"
  /\ claim' \in {"nothing", "something"}
  /\ claim' = "nothing" => sent = << >>
  /\ UNCHANGED <<agreed, sent>>

ConsentSpec == ConsentInit /\ [][Agree \/ SendAgreed \/ Conclude]_consentVars
=============================================================================
