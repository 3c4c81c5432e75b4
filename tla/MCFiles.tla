------------------------------- MODULE MCFiles -------------------------------
(***************************************************************************)
(* Three commands on configurations with no, one and several profiles,     *)
(* some of them in region cn-pj-03 or with addresses of the user's; or two *)
(* commands on the sessions of a profile "x", its "x-pt", and one of       *)
(* another account.                                                        *)
(***************************************************************************)
EXTENDS Files, TLC

CONSTANTS p1, p2, p3, u1, u2

ToCloud == [kind |-> "cluster", cluster |-> "dcloud"]
ToD == [kind |-> "cluster", cluster |-> "d"]
Add == [kind |-> "add", name |-> 1, keys |-> "k1"]
Refuse == [kind |-> "refuse"]

Profile(k) == [NoFields EXCEPT !.keys = k]
Old(k) == [NoConfig EXCEPT !.top = Profile(k)]
PT(k) == [Profile(k) EXCEPT !.region = "pt", !.iam = "pj"]
Own(k) == [Profile(k) EXCEPT !.cluster = "dcloud", !.base = "own",
                             !.iam = "own"]

MCUpdates == p1 :> ToCloud @@ p2 :> Add @@ p3 :> ToD
MCRefused == p1 :> ToCloud @@ p2 :> Refuse @@ p3 :> ToD

\* Profile 2 and 3; the current one is the second, or missing.
MCStarts ==
  {Old("k0")} \cup
  {[current |-> n, top |-> NoFields,
    profiles |-> 2 :> x @@ 3 :> y] :
     n \in {2, 3, 9}, x \in {Profile("k2"), PT("k2")},
     y \in {Profile("k3"), Own("k3")}}

\* A configuration with credentials only.
PlainStarts ==
  {Old("k0"), [current |-> 2, top |-> NoFields, profiles |-> 2 :> Profile("k2")]}

MCPaired == "x-pt" :> "x"

MCTasks ==
  [kind : {"login", "logout", "import"}, profile : {"x", "y"}, needs : {{}}]
  \cup [kind : {"use"}, profile : {"x", "x-pt"}, needs : {{"access"}, {"access", "id"}}]

MCUsers == Permutations({u1, u2})
==============================================================================
