----------------------- MODULE MCPlayerRevisionState -----------------------
(* Model-checking instance of PlayerRevisionState: two players competing   *)
(* for one table slot, two components, revisions that run out.             *)
EXTENDS PlayerRevisionState

CONSTANTS p1, p2, status, items

MCPids == {p1, p2}
MCComponents == {status, items}
=============================================================================
