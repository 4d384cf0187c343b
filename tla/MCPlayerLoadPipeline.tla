------------------------ MODULE MCPlayerLoadPipeline ------------------------
(* Model-checking instance of PlayerLoadPipeline: the loader, the game     *)
(* thread and another borrower over a pool of one connection.              *)
EXTENDS PlayerLoadPipeline

CONSTANTS writer

MCThreads == {Loader, Game, writer}
=============================================================================
