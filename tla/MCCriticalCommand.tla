-------------------------- MODULE MCCriticalCommand --------------------------
(* Model-checking instance of CriticalCommand: an operation submitted for  *)
(* publication, one that shares its key, and a second command under the    *)
(* first one's id.  A stamp of 0 leaves the acceptance time to submit.     *)
EXTENDS CriticalCommand

CONSTANTS move, award, item, player

MCIds == {move, award}
MCKeys == {item, player}
MCRetained == {move}

Move == [id |-> move, keys |-> {item, player}, body |-> 1, stamp |-> -1]
Award == [id |-> award, keys |-> {player}, body |-> 1, stamp |-> 0]

MCCommands == {Move, Award, [Move EXCEPT !.body = 2]}
OneCommand == {Move}
=============================================================================
