------------------------ MODULE MCPlayerSaveJournal ------------------------
(* Model-checking instance of PlayerSaveJournal: two players, one of whom  *)
(* may die.                                                                *)
EXTENDS PlayerSaveJournal

MCPids == {1, 2}
MCMortals == {1}
MCMaxRevision == <<2, 1>>
MCCleanLeavings == {"nothing", "short", "unsynced"}
MCLongLeavings == {"long"}
=============================================================================
