-------------------------- MODULE MCVCConfigUpdate --------------------------
(***************************************************************************)
(* Two sizes with as many replicas, as those of medium and large: the      *)
(* count does not tell the size, and once a flavor was redefined the size  *)
(* need not tell the flavor.                                               *)
(***************************************************************************)
EXTENDS VCConfigUpdate

CONSTANTS u1, u2, small, medium, s1, s2

MCReplicas == [s \in Sizes |-> 1]
MCInitialSize == [f \in Flavors |-> IF f = medium THEN s2 ELSE s1]
MCTargetOf == [u \in Updaters |-> IF u = u1 THEN medium ELSE small]
=============================================================================
