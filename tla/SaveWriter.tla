----------------------------- MODULE SaveWriter -----------------------------
(***************************************************************************)
(* What the persistence writer promises its clients, player_save_worker.h: *)
(* saves are written one at a time in the order they were captured; a      *)
(* newer save replaces only the last one waiting, of the same owner, and   *)
(* never a death; every save taken ends in one completion, in the same     *)
(* order.  PlayerSaveWorker implements this specification, and             *)
(* PlayerSavePipeline is built on it.                                      *)
(***************************************************************************)
EXTENDS Integers, Sequences, SequencesExt

CONSTANTS
  Captures,  \* what may be submitted: records with at least owner and death
  Reports,   \* the outcomes a completion may report
  MaxJobs    \* jobs admitted and not yet consumed

VARIABLES
  pending,      \* captures not yet completed, oldest first
  taken,        \* whether the first of them is being written
  completions,  \* completions not yet consumed
  open          \* whether submissions are admitted

vars == <<pending, taken, completions, open>>

Init ==
  /\ pending = <<>>
  /\ taken = FALSE
  /\ completions = <<>>
  /\ open = FALSE

Waiting == IF taken THEN Tail(pending) ELSE pending

Replaces(c) ==
  /\ Waiting # <<>>
  /\ Last(pending).owner = c.owner
  /\ ~Last(pending).death /\ ~c.death

HasRoom(c) == Replaces(c) \/ Len(pending) + Len(completions) < MaxJobs

Put(c) ==
  /\ open /\ HasRoom(c)
  /\ pending' = Append(IF Replaces(c) THEN Front(pending) ELSE pending, c)
  /\ open' = open /\ UNCHANGED <<taken, completions>>

Take ==
  /\ open /\ ~taken /\ pending # <<>>
  /\ taken' = TRUE
  /\ open' = open /\ UNCHANGED <<pending, completions>>

Finish(report) ==
  /\ taken
  /\ completions' = Append(completions, [capture |-> Head(pending), outcome |-> report])
  /\ pending' = Tail(pending)
  /\ taken' = FALSE
  /\ open' = open

Consume(n) ==
  /\ n \in 1 .. Len(completions)
  /\ completions' = SubSeq(completions, n + 1, Len(completions))
  /\ open' = open /\ UNCHANGED <<pending, taken>>

Open == ~open /\ open' = TRUE /\ UNCHANGED <<pending, taken, completions>>
Close == open /\ open' = FALSE /\ UNCHANGED <<pending, taken, completions>>

Next ==
  \/ \E c \in Captures : Put(c)
  \/ Take
  \/ \E report \in Reports : Finish(report)
  \/ \E n \in 1 .. Len(completions) : Consume(n)
  \/ Open
  \/ Close

Spec == Init /\ [][Next]_vars
=============================================================================
