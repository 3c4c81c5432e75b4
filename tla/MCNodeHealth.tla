----------------------------- MODULE MCNodeHealth -----------------------------
(***************************************************************************)
(* Three nodes on two workers: node n1 with two checks that enter it and   *)
(* share a lookup, n2 and n3 with one that only queries.                   *)
(***************************************************************************)
EXTENDS NodeHealth, TLC

CONSTANTS a, b, c, d, n1, n2, n3, ctx

MCNodeOf == [k \in Callers |-> IF k \in {a, b} THEN n1 ELSE IF k = c THEN n2 ELSE n3]
MCContextOf == [k \in Callers |-> ctx]
MCNodeList == <<n1, n2, n3>>
===============================================================================
