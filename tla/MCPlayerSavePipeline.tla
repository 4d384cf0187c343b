------------------------ MODULE MCPlayerSavePipeline ------------------------
(* Model-checking instance of PlayerSavePipeline: one player with two      *)
(* components.                                                             *)
EXTENDS PlayerSavePipeline, TLC

CONSTANTS p1, status, items

OnePlayer == {p1}
MCComponents == {status, items}

Camp == {"camp"}
Linkdead == {"linkdead"}
CampOrSync == {"camp", "synchronous"}
AllTerminal == {"camp", "linkdead", "death"}

Symmetry == Permutations(MCComponents)
=============================================================================
