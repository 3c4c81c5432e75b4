------------------------ MODULE MCPlatformTransport ------------------------
(***************************************************************************)
(* Instances of PlatformTransport for TLC: callers g1 (GET) and p1, p2, p3 *)
(* (POST) share one origin, and the callers of a method are alike.         *)
(***************************************************************************)
EXTENDS PlatformTransport, TLC

CONSTANTS g1, p1, p2, p3, api

MCOneOrigin == [c \in Callers |-> api]
MCHints == {0, 2, 4}
MCPacingHints == {0, 3}
MCPosts == Permutations(Callers \ Getters)
============================================================================
