-------------------------- MODULE PlayerSaveJournal --------------------------
(***************************************************************************)
(* The local journal of player saves, player/player_save_journal.c: append *)
(* and sync, scan, checkpoint by rewriting, and replay at boot.  Callers:  *)
(* the dispatcher thread replays once and then appends; the writer thread  *)
(* checkpoints after a durable apply.  journal_mutex makes each call one   *)
(* action; replay, which holds it only while scanning and checkpointing,   *)
(* is one action per record.                                               *)
(*                                                                         *)
(* The database is external, kept as the durable save_revision of each     *)
(* player.  The revision table is kept as the revision each player is at:  *)
(* a login takes it from the row, whatever the journal still holds, so     *)
(* that after a crash a revision can be handed out a second time.  A       *)
(* snapshot is told apart by its player, its revision and whether it is a  *)
(* death, which is all that journal and repository look at.                *)
(***************************************************************************)
EXTENDS Integers, Sequences, FiniteSetsExt, Subsequences

CONSTANTS
  Pids,         \* player ids, positive integers: replay sorts by them
  MaxRevision,  \* bound on the revisions of each player
  Mortals,      \* the players who may die
  MaxRecords,   \* PLAYER_SAVE_JOURNAL_MAX_RECORDS
  Quota,        \* PLAYER_SAVE_JOURNAL_MAX_BYTES, in records
  Leavings,     \* what a failed append may leave in the file
  MaxCrashes    \* bound on crashes

ASSUME JournalAssumption ==
  /\ Pids \subseteq Nat \ {0} /\ MaxRevision \in [Pids -> Nat]
  /\ MaxRecords \in Nat /\ Quota \in Nat /\ MaxCrashes \in Nat
  /\ Mortals \subseteq Pids
  /\ Leavings \subseteq {"nothing", "short", "long", "unsynced"}

VARIABLES
  file,      \* player-save.journal: the records in append order
  save_revision,  \* the database: pid -> durable revision
  phase,     \* down, replaying or serving
  current_revision,  \* the revision table: pid -> revision, or NoEntry
  captured,  \* snapshots in pending_append or with the dispatcher
  writer_jobs,  \* journaled frames the writer has still to acknowledge
  evidence,  \* the writer, between apply and acknowledgement: <<>> or <<frame, durable revision>>
  todo,      \* replay: frames still to apply
  acknowledged,   \* replay: pid -> highest durable revision seen
  handed_off,     \* history: frames whose append returned ok
  committed,      \* history: frames whose apply changed the row
  crashes

game == <<current_revision, captured>>
database == <<save_revision, committed>>
vars == <<file, database, phase, game, writer_jobs, evidence, todo, acknowledged, handed_off, crashes>>

NoEntry == -1

\* <<pid, revision, whether the snapshot is a death>>
Frames == UNION {{p} \X (1 .. MaxRevision[p]) \X BOOLEAN : p \in Pids}
Death(frame) == frame[3]

(***************************************************************************)
(* A record in the file.  A failed append can leave nothing, a tail too    *)
(* short to hold its header fields, a tail that names its full length but  *)
(* misses part of it, or the whole record without a successful fdatasync.  *)
(***************************************************************************)
Record == [frame : Frames, kind : {"whole", "short", "long"}, synced : BOOLEAN]

Synced(records) == [i \in DOMAIN records |-> [records[i] EXCEPT !.synced = TRUE]]

(***************************************************************************)
(* scan_journal.  A record that fails its checks is quarantined.  A short  *)
(* one is skipped up to the next magic; a long one is skipped by the       *)
(* length it names, which reaches into the record after it, and the scan   *)
(* picks up at the next magic after that.                                  *)
(***************************************************************************)
\* Of a row of long records every other one is swallowed, and so is what follows an odd row.
Swallowed(records) ==
  LET row(i) == {j \in 1 .. i - 1 : \A k \in j .. i - 1 : records[k].kind = "long"}
  IN  {i \in DOMAIN records : Cardinality(row(i)) % 2 = 1}

Readable(records) ==
  Kept(records, {i \in DOMAIN records : records[i].kind = "whole"} \ Swallowed(records))

\* More records than MaxRecords leave the scan unfinished.
ScanOK == Len(Readable(file)) <= MaxRecords

ReadableFrames == {Readable(file)[i].frame : i \in DOMAIN Readable(file)}

Init ==
  /\ file = <<>>
  /\ save_revision = [p \in Pids |-> 0]
  /\ committed = {}
  /\ phase = "down"
  /\ current_revision = [p \in Pids |-> NoEntry]
  /\ captured = {}
  /\ writer_jobs = {}
  /\ evidence = <<>>
  /\ todo = {}
  /\ acknowledged = [p \in Pids |-> 0]
  /\ handed_off = {}
  /\ crashes = 0

-----------------------------------------------------------------------------
(***************************************************************************)
(* player_save_journal_init, then the scan of player_save_journal_replay,  *)
(* which skips exact duplicates.  An unfinished scan stops the server from *)
(* starting.                                                               *)
(***************************************************************************)
Boot ==
  /\ phase = "down" /\ ScanOK
  /\ file' = IF Len(Readable(file)) < Len(file) THEN Synced(Readable(file)) ELSE file
  /\ todo' = ReadableFrames
  /\ phase' = "replaying"
  /\ UNCHANGED <<database, game, writer_jobs, evidence, acknowledged, handed_off, crashes>>

-----------------------------------------------------------------------------
(***************************************************************************)
(* The game thread, which does not wait for the replay.  A load hydrates   *)
(* the table from the row.  An entry of an earlier login that is settled   *)
(* is moved up to the row, one that is not is left alone.                  *)
(***************************************************************************)
Login(p) ==
  /\ phase # "down" /\ current_revision[p] < save_revision[p]
  /\ current_revision' = [current_revision EXCEPT ![p] = save_revision[p]]
  /\ UNCHANGED <<file, database, phase, captured, writer_jobs, evidence, todo, acknowledged,
                 handed_off, crashes>>

(***************************************************************************)
(* player_save_pipeline_checkpoint_dirty seals what is unacknowledged at   *)
(* the current revision, player_save_pipeline_terminal_death at a fresh    *)
(* one.  A revision that the row lacks is sealed again if nothing of it    *)
(* waits to be appended: after a synchronous save that failed, or while    *)
(* the writer has it.                                                      *)
(***************************************************************************)
Capture(frame) ==
  LET p == frame[1]
      revision == frame[2]
  IN  /\ phase # "down" /\ current_revision[p] # NoEntry
      /\ \/ revision = current_revision[p] + 1
         \/ revision = current_revision[p] /\ save_revision[p] < revision /\ ~Death(frame)
      /\ Death(frame) => p \in Mortals
      /\ \A g \in captured : g[1] = p => g[2] # revision
      /\ current_revision' = [current_revision EXCEPT ![p] = revision]
  /\ captured' = captured \cup {frame}
  /\ UNCHANGED <<file, database, phase, writer_jobs, evidence, todo, acknowledged, handed_off,
                 crashes>>

(***************************************************************************)
(* player_save_journal_append, by the dispatcher.  A failure leaves its    *)
(* bytes in the file and puts the capture back.  A capture may be          *)
(* overtaken, while it waits, by a synchronous save or a newer capture.    *)
(***************************************************************************)
MayAppend(frame) == phase = "serving" /\ Len(file) < Quota /\ frame \in captured

AppendOK(frame) ==
  /\ MayAppend(frame)
  /\ file' = Synced(Append(file, [frame |-> frame, kind |-> "whole", synced |-> TRUE]))
  /\ handed_off' = handed_off \cup {frame}
  /\ writer_jobs' = writer_jobs \cup {frame}
  /\ captured' = captured \ {frame}
  /\ UNCHANGED <<database, phase, current_revision, evidence, todo, acknowledged, crashes>>

AppendFails(frame, left) ==
  /\ MayAppend(frame) /\ left # "nothing"
  /\ file' = Append(file, [frame |-> frame, synced |-> FALSE,
                           kind |-> IF left = "unsynced" THEN "whole" ELSE left])
  /\ UNCHANGED <<database, phase, game, writer_jobs, evidence, todo, acknowledged, handed_off,
                 crashes>>

-----------------------------------------------------------------------------
(***************************************************************************)
(* player_save_journal_checkpoint(pid, durable) rewrites the file without  *)
(* what durable supersedes.  It fails before the rename, and changes       *)
(* nothing, or at the directory sync, with the file already replaced.      *)
(***************************************************************************)
FaultSuperseded(frame, pid, durable) == frame[1] = pid /\ frame[2] <= durable

Superseded(frame, pid, durable) ==
  /\ frame[1] = pid /\ frame[2] <= durable
  /\ Death(frame) => frame[2] = durable

\* write_compacted: the readable records except those of the released frames, synced
Rewritten(released) ==
  LET records == Synced(Readable(file))
  IN  Kept(records, {i \in DOMAIN records : records[i].frame \notin released})

Compacted(pid, durable) == Rewritten({frame \in Frames : Superseded(frame, pid, durable)})

\* player_save_journal_worker_ack, after the apply whose durable revision is evidence
Checkpoint ==
  /\ evidence # <<>> /\ ScanOK
  /\ file' = Compacted(evidence[1][1], evidence[2])
  /\ writer_jobs' = {g \in writer_jobs \ {evidence[1]} :
                      ~Superseded(g, evidence[1][1], evidence[2])}
  /\ evidence' = <<>>
  /\ UNCHANGED <<database, phase, game, todo, acknowledged, handed_off, crashes>>

\* The writer then applies the same job again.
CheckpointFails(replaced) ==
  /\ evidence # <<>>
  /\ replaced => ScanOK
  /\ file' = IF replaced THEN Compacted(evidence[1][1], evidence[2]) ELSE file
  /\ evidence' = <<>>
  /\ UNCHANGED <<database, phase, game, writer_jobs, todo, acknowledged, handed_off, crashes>>

-----------------------------------------------------------------------------
(***************************************************************************)
(* The database.  player_snapshot_repository_apply commits a snapshot over *)
(* an older revision, a death with its disposition, and otherwise only     *)
(* reports the revision it found.                                          *)
(***************************************************************************)
DurableAfter(frame) == Max({save_revision[frame[1]], frame[2]})

Apply(frame) ==
  /\ save_revision' = [save_revision EXCEPT ![frame[1]] = DurableAfter(frame)]
  /\ committed' = IF save_revision[frame[1]] < frame[2] THEN committed \cup {frame} ELSE committed

\* The writer applies a journaled snapshot, in any order: one the database refuses for good
\* is passed over and stays in the journal.
WriterApply(frame) ==
  /\ evidence = <<>> /\ frame \in writer_jobs
  /\ Apply(frame)
  /\ evidence' = <<frame, DurableAfter(frame)>>
  /\ UNCHANGED <<file, phase, game, writer_jobs, todo, acknowledged, handed_off, crashes>>

(***************************************************************************)
(* sql_save_player marks a fresh revision and writes it over an older one, *)
(* not by way of the journal.  Where the row is not older it fails, with   *)
(* the mark made.                                                          *)
(***************************************************************************)
SynchronousSave(p) ==
  /\ phase # "down" /\ current_revision[p] # NoEntry /\ current_revision[p] < MaxRevision[p]
  /\ Apply(<<p, current_revision[p] + 1, FALSE>>)
  /\ current_revision' = [current_revision EXCEPT ![p] = @ + 1]
  /\ UNCHANGED <<file, phase, captured, writer_jobs, evidence, todo, acknowledged, handed_off, crashes>>

(***************************************************************************)
(* player_save_journal_replay, one frame at a time, sorted by player and   *)
(* revision; what decides between two of the same revision holds the clock *)
(* and is left open.  A death is released when it was applied or the row   *)
(* is found at its very revision; one found stale, or any failure, blocks  *)
(* the replay and the dispatcher goes on to serve.                         *)
(***************************************************************************)
Before(f, g) == f[1] < g[1] \/ (f[1] = g[1] /\ f[2] < g[2])

NextToReplay(frame) ==
  /\ phase = "replaying" /\ frame \in todo
  /\ ~\E g \in todo : Before(g, frame)

FaultStaleDeath(frame) == FALSE

StaleDeath(frame) == Death(frame) /\ save_revision[frame[1]] > frame[2]

ReplayFrame(frame) ==
  /\ NextToReplay(frame) /\ ~StaleDeath(frame)
  /\ Apply(frame)
  /\ Death(frame) => ScanOK
  /\ file' = IF Death(frame) THEN Compacted(frame[1], frame[2]) ELSE file
  /\ acknowledged' = [acknowledged EXCEPT ![frame[1]] = Max({@, DurableAfter(frame)})]
  /\ todo' = todo \ {frame}
  /\ UNCHANGED <<phase, game, writer_jobs, evidence, handed_off, crashes>>

\* The failure may come after the commit: its answer lost, or the death's checkpoint refused.
ReplayBlocked(frame, effective) ==
  /\ NextToReplay(frame)
  /\ IF effective THEN Apply(frame) ELSE UNCHANGED database
  /\ phase' = "serving"
  /\ todo' = {}
  /\ acknowledged' = [p \in Pids |-> 0]
  /\ UNCHANGED <<file, game, writer_jobs, evidence, handed_off, crashes>>

(***************************************************************************)
(* The last loop of the replay: a checkpoint for each player replayed, by  *)
(* player, up to the last one if none fails.                               *)
(***************************************************************************)
Drained(last) ==
  Rewritten({frame \in Frames : /\ frame[1] <= last
                                /\ Superseded(frame, frame[1], acknowledged[frame[1]])})

ReplayEnds(last) ==
  /\ phase = "replaying" /\ todo = {}
  /\ last > 0 => ScanOK
  /\ file' = IF last > 0 THEN Drained(last) ELSE file
  /\ phase' = "serving"
  /\ acknowledged' = [p \in Pids |-> 0]
  /\ UNCHANGED <<database, game, writer_jobs, evidence, todo, handed_off, crashes>>

(***************************************************************************)
(* A crash loses the process; of the records not yet synced, a suffix is   *)
(* lost with it.                                                           *)
(***************************************************************************)
Crash(kept) ==
  /\ phase # "down" /\ crashes < MaxCrashes
  /\ kept \in 0 .. Len(file)
  /\ \A i \in kept + 1 .. Len(file) : ~file[i].synced
  /\ file' = SubSeq(file, 1, kept)
  /\ phase' = "down"
  /\ current_revision' = [p \in Pids |-> NoEntry]
  /\ captured' = {}
  /\ writer_jobs' = {}
  /\ evidence' = <<>>
  /\ todo' = {}
  /\ acknowledged' = [p \in Pids |-> 0]
  /\ crashes' = crashes + 1
  /\ UNCHANGED <<database, handed_off>>

Next ==
  \/ Boot
  \/ \E p \in Pids : Login(p)
  \/ \E frame \in Frames : Capture(frame)
  \/ \E frame \in Frames : AppendOK(frame)
  \/ \E frame \in Frames, left \in Leavings : AppendFails(frame, left)
  \/ Checkpoint
  \/ \E replaced \in BOOLEAN : CheckpointFails(replaced)
  \/ \E frame \in Frames : WriterApply(frame)
  \/ \E p \in Pids : SynchronousSave(p)
  \/ \E frame \in Frames : ReplayFrame(frame)
  \/ \E frame \in Frames, effective \in BOOLEAN : ReplayBlocked(frame, effective)
  \/ \E last \in Pids \cup {0} : ReplayEnds(last)
  \/ \E kept \in 0 .. Quota : Crash(kept)

Spec == Init /\ [][Next]_vars

-----------------------------------------------------------------------------
TypeOK ==
  /\ file \in Seq(Record)
  /\ save_revision \in [Pids -> Nat]
  /\ phase \in {"down", "replaying", "serving"}
  /\ current_revision \in [Pids -> Nat \cup {NoEntry}]
  /\ captured \subseteq Frames
  /\ writer_jobs \subseteq handed_off
  /\ evidence \in {<<>>} \cup (Frames \X Nat)
  /\ todo \subseteq Frames
  /\ acknowledged \in [Pids -> Nat]
  /\ handed_off \subseteq Frames
  /\ committed \subseteq Frames
  /\ crashes \in 0 .. MaxCrashes

(***************************************************************************)
(* The evidence on which the journal may let go of a save: the row went to *)
(* its revision or past it or, for a death, was once at exactly its        *)
(* revision.  Usually that was its own application, which also wrote the   *)
(* disposition; it may have been another save of the same revision, given  *)
(* out again to a character that logged in before the replay, or sealed    *)
(* again before the row had it.                                            *)
(***************************************************************************)
Durable(frame) ==
  \E g \in committed :
    g[1] = frame[1] /\ IF Death(frame) THEN g[2] = frame[2] ELSE g[2] >= frame[2]

(***************************************************************************)
(* A save handed to the journal stays readable until there is such         *)
(* evidence for it, through failed appends, checkpoints of this and other  *)
(* players, logins and synchronous saves at any time, crashes and replays. *)
(* Above all a newer save does not release a death.                        *)
(***************************************************************************)
JournaledUntilDurable ==
  \A frame \in handed_off : frame \in ReadableFrames \/ Durable(frame)

\* The journal's variables have their types and no save that was handed off is lost.
JournalInv == TypeOK /\ JournaledUntilDurable

(***************************************************************************)
(* A replay that ends without a failure has emptied the journal, on        *)
(* evidence for every save ever handed off, also where characters logged   *)
(* in and were saved beside it.                                            *)
(***************************************************************************)
ReplayRecovers ==
  [][\A last \in Pids : (\A p \in Pids : p <= last) /\ ReplayEnds(last) =>
       (\A frame \in handed_off : Durable(frame)) /\ file' = <<>>]_vars
=============================================================================
