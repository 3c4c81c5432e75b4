----------------------------- MODULE MCVCRenew -----------------------------
(***************************************************************************)
(* Two VCs of different scopes claim the file of environment d, one file   *)
(* belongs to environment pt, and one VC has a name that makes no safe     *)
(* path.  Either a run works alone, in either scope, among two edits or    *)
(* among one edit and one change of the platform, the other being over; or *)
(* two runs work on the file of environment d, which one VC claims, and    *)
(* nobody edits it.  What changes on the platform is one VC: it is         *)
(* deleted, or created, or v1 makes way for w1, a VC of the same name.     *)
(***************************************************************************)
EXTENDS VCRenew, TLC

CONSTANTS d, pt, p1, p2, v1, w1, v2, vx

MCEnvOf == [p \in Paths |-> IF p = p1 THEN d ELSE pt]
MCPathOf == [v \in Refs |-> IF v \in {v1, w1, v2} THEN p1 ELSE Unsafe]
MCAddressOf == [v \in Refs |-> IF v = w1 THEN v1 ELSE v]
MCScopes == {{d}, {d, pt}}
MCSame == Permutations(Runs) \cup Permutations(Written)

Alone ==
  /\ w1 \notin live
  /\ \/ edits = 0 /\ churn = MaxChurn
     \/ edits = MaxEdits - 1 /\ churn = 0
  /\ \E r \in Runs : /\ pc = [s \in Runs |-> IF s = r THEN "idle" ELSE "done"]
                     /\ \A s \in Runs \ {r} : scope[s] = {d} /\ ~dry[s]

Together ==
  /\ edits = MaxEdits /\ churn = 0
  /\ pc = [r \in Runs |-> "idle"]
  /\ scope = [r \in Runs |-> {d}]
  /\ file[p2] = None /\ live \subseteq {v1}

MCInit == Init /\ (Alone \/ Together)

MCSpec == MCInit /\ [][Next]_vars
=============================================================================
