------------------------- MODULE MCPlayerSaveWorker -------------------------
(* Model-checking instance of PlayerSaveWorker: a player, whose captures   *)
(* may be deaths, and a locker, whose jobs are larger and not journaled.   *)
EXTENDS PlayerSaveWorker

CONSTANTS player, locker

MCOwners == {player, locker}
MCPlayers == {player}

MCCaptures ==
  {[owner |-> player, death |-> FALSE, bytes |-> 1],
   [owner |-> player, death |-> TRUE, bytes |-> 1],
   [owner |-> locker, death |-> FALSE, bytes |-> 2]}
=============================================================================
