------------------------- MODULE PlayerSavePipeline -------------------------
(***************************************************************************)
(* Player saves end to end, player/player_save_pipeline.c: the game thread *)
(* marks, captures and waits; the dispatcher thread replays the journal    *)
(* and then appends captures to it; the pulse hands journaled captures to  *)
(* the writer and applies its completions; the writer updates the database *)
(* and checkpoints the journal.  Revisions are those of                    *)
(* PlayerRevisionState, the writer is the one SaveWriter specifies, the    *)
(* journal holds what PlayerSaveJournal keeps readable.  Each critical     *)
(* section of pipeline_mutex that another thread can come between is one   *)
(* action.                                                                 *)
(*                                                                         *)
(* A component's value is the number of the change that produced it: the   *)
(* i-th change of the history writes i, and 0 is what the database held at *)
(* the start.  Snapshot sizes are an input (fits) of each admission.       *)
(***************************************************************************)
EXTENDS Integers, Sequences, SequencesExt, FiniteSets, FiniteSetsExt

CONSTANTS
  Pids, Components, MaxRevision, MaxStates,   \* as in PlayerRevisionState; MaxRevision is
                 \* only a bound here, that module has what happens when they run out
  MaxSnapshots,  \* PLAYER_SAVE_PIPELINE_MAX_SNAPSHOTS, of captures and of fences
  MaxJobs,       \* PLAYER_SAVE_WORKER_MAX_PENDING_JOBS
  Budget,        \* PLAYER_SAVE_PIPELINE_PULSE_BUDGET
  Intents,       \* the saves that occur besides checkpoints
  MaxChanges, MaxLogins, MaxCrashes, MaxDrains, MaxStops, MaxAppendFailures,
  MaxWriteFailures  \* bounds

ASSUME IntentAssumption == Intents \subseteq {"camp", "linkdead", "death", "synchronous"}

ASSUME LimitAssumption ==
  /\ MaxRevision \in Nat /\ MaxStates \in Nat /\ MaxChanges \in Nat
  /\ MaxSnapshots \in Nat /\ MaxJobs \in Nat /\ Budget \in Nat

VARIABLES
  revision_states,
  pending_append, durable_ready,  \* captures before and after the journal
  append_inflight,  \* a sequence of at most one: the capture the dispatcher holds
  accepting,
  terminal_fences,           \* pid -> terminal_fence
  target_save_login_fences,  \* pid -> whether the recipient fence is held
  game,       \* the game thread: inside a pulse or not, and what it waits for
  todo, replayed,    \* replay: frames left; durable revisions seen
  replaying,
  w_pending, w_taken, w_completions,  \* the writer, as SaveWriter
  w_outcome,  \* the writer, between apply and completion
  journal,    \* readable frames of the journal
  db,         \* pid -> durable revision and value of each component
  live,       \* pid -> the character in the game
  history,    \* ghost: the changes made, each a pid and the character it left behind
  released,   \* ghost: pid -> values a successful terminal save let go, or <<>>
  logins, crashes, drains, stops, append_failures, write_failures

pipeline == <<pending_append, durable_ready, append_inflight>>
fences == <<terminal_fences, target_save_login_fences>>
replay == <<todo, replayed, replaying>>
writer == <<w_pending, w_taken, w_completions, w_outcome>>
ghosts == <<history, released, logins, crashes, drains, stops, append_failures,
            write_failures>>
vars == <<revision_states, pipeline, accepting, fences, game, replay, writer, journal, db, live,
          ghosts>>

Rev == INSTANCE PlayerRevisionState

Values == [Components -> 0 .. MaxChanges]

Snapshot ==
  [owner : Pids, revision : Rev!Revisions, components : SUBSET Components,
   death : BOOLEAN, values : Values]

Saved == {"applied", "already_applied", "stale_revision"}
Writer == INSTANCE SaveWriter
  WITH Captures <- Snapshot, Reports <- Saved \cup {"terminal_failure"},
       pending <- w_pending, taken <- w_taken, completions <- w_completions, open <- TRUE

NoFence == [held |-> FALSE, revision |-> 0, journaled |-> FALSE, acknowledged |-> FALSE]
Fence(r) == [NoFence EXCEPT !.held = TRUE, !.revision = r]

\* What the game thread waits for: nothing, a terminal fence or a drain.
NoWait == [for |-> "nothing"]
Free == [step |-> "idle", left |-> 0, wait |-> NoWait]

Offline == [online |-> FALSE, values |-> [c \in Components |-> 0]]

Init ==
  /\ Rev!Init
  /\ pending_append = <<>> /\ durable_ready = <<>> /\ append_inflight = <<>>
  /\ accepting = TRUE
  /\ terminal_fences = [p \in Pids |-> NoFence]
  /\ target_save_login_fences = [p \in Pids |-> FALSE]
  /\ game = Free
  /\ todo = {} /\ replayed = [p \in Pids |-> 0] /\ replaying = TRUE
  /\ w_pending = <<>> /\ w_taken = FALSE /\ w_completions = <<>> /\ w_outcome = "none"
  /\ journal = {}
  /\ db = [p \in Pids |-> [revision |-> 0, values |-> [c \in Components |-> 0]]]
  /\ live = [p \in Pids |-> Offline]
  /\ history = <<>> /\ released = [p \in Pids |-> <<>>]
  /\ logins = 0 /\ crashes = 0 /\ drains = 0 /\ stops = 0 /\ append_failures = 0 /\ write_failures = 0

-----------------------------------------------------------------------------
(***************************************************************************)
(* Admission of a capture, enqueue_snapshot: a newer capture of the same   *)
(* player takes the place of the first one pending, if it covers it.       *)
(***************************************************************************)
OfOwner(captures, p) == {i \in DOMAIN captures : captures[i].owner = p}

Retained(p) == OfOwner(pending_append, p) \cup OfOwner(durable_ready, p) # {}

RetainedAt(p, r) ==
  \/ \E i \in OfOwner(pending_append, p) : pending_append[i].revision = r
  \/ \E i \in OfOwner(durable_ready, p) : durable_ready[i].revision = r

EnqueueResult(s, fits) ==
  LET queued == pending_append[Min(OfOwner(pending_append, s.owner))]
  IN  IF target_save_login_fences[s.owner] THEN "unavailable"
      ELSE IF OfOwner(pending_append, s.owner) # {}
      THEN CASE s.revision <= queued.revision -> "superseded"
             [] /\ s.revision > queued.revision
                /\ ~(queued.components \subseteq s.components) -> "capture_failed"
             [] OTHER -> IF fits THEN "coalesced" ELSE "overloaded"
      ELSE IF Len(pending_append) + Len(durable_ready) < MaxSnapshots /\ fits
      THEN "queued" ELSE "overloaded"

Enqueued(s, fits) ==
  CASE EnqueueResult(s, fits) = "coalesced" ->
         ReplaceAt(pending_append, Min(OfOwner(pending_append, s.owner)), s)
    [] EnqueueResult(s, fits) = "queued" -> Append(pending_append, s)
    [] OTHER -> pending_append

\* A capture of what was marked last, not of all that is unacknowledged
FaultCapture(p, e, death) ==
  LET last == {c \in e.queued : e.component_revisions[c] = e.current}
  IN  [owner |-> p, revision |-> e.queued_revision, components |-> last, death |-> death,
       values |-> [c \in Components |-> IF c \in last THEN live[p].values[c] ELSE 0]]

\* player_snapshot_capture of what player_revision_queue sealed in entry e
Capture(p, e, death) ==
  [owner |-> p, revision |-> e.queued_revision, components |-> e.queued, death |-> death,
   values |-> [c \in Components |-> IF c \in e.queued THEN live[p].values[c] ELSE 0]]

-----------------------------------------------------------------------------
(***************************************************************************)
(* The game thread.                                                        *)
(***************************************************************************)
Playing(p) == game = Free /\ live[p].online

\* player_save_pipeline_mark: an outstanding terminal fence moves to the new revision.
\* Equipment and inventory, which are always marked together, are one component.
Advanced(fence, r) == IF fence.held THEN Fence(r) ELSE fence

Changed(p, comps) ==
  [c \in Components |-> IF c \in comps THEN Len(history) + 1 ELSE live[p].values[c]]

Change(p, comps) ==
  /\ Playing(p) /\ accepting /\ Len(history) < MaxChanges
  /\ ~target_save_login_fences[p]
  /\ Rev!Mark(p, comps)
  /\ terminal_fences' =
       [terminal_fences EXCEPT ![p] = Advanced(@, revision_states[p].current + 1)]
  /\ history' = Append(history, [pid |-> p, values |-> Changed(p, comps)])
  /\ live' = [live EXCEPT ![p].values = Changed(p, comps)]
  /\ UNCHANGED <<pipeline, accepting, target_save_login_fences, game, replay, writer, journal,
                 db, released, logins, crashes, drains, stops, append_failures, write_failures>>

\* A checkpoint with nothing dirty captures again only what no queue holds any more.
NeedsCapture(p) ==
  LET e == revision_states[p]
  IN  \/ e.dirty # {}
      \/ e.inflight = {} /\ e.queued # {} /\ ~RetainedAt(p, e.queued_revision)

\* player_save_pipeline_checkpoint_dirty
Checkpoint(p, captured, fits) ==
  /\ Playing(p) /\ ~target_save_login_fences[p]
  /\ NeedsCapture(p)
  /\ Rev!Queue(p)
  /\ pending_append' =
       IF captured THEN Enqueued(Capture(p, Rev!Sealed(revision_states[p]), FALSE), fits)
       ELSE pending_append
  /\ UNCHANGED <<durable_ready, append_inflight, accepting, fences, game, replay, writer,
                 journal, db, live, ghosts>>

(***************************************************************************)
(* begin_terminal_fence: reserve the fence and mark everything at a fresh  *)
(* revision.  A second terminal save of the player takes its fence over.   *)
(***************************************************************************)
MayFence(p) ==
  /\ ~target_save_login_fences[p]
  /\ \/ terminal_fences[p].held
     \/ Cardinality({q \in Pids : terminal_fences[q].held}) < MaxSnapshots
  /\ Rev!MarkAccepts(p, Components)

TerminalEntry(p) == Rev!Marked(revision_states[p], Components)

Await(p, handoff) ==
  [Free EXCEPT !.wait = [for |-> "fence", pid |-> p, revision |-> TerminalEntry(p).current,
                         handoff |-> handoff]]

\* player_save_pipeline_terminal; it waits whatever became of its capture, which an item
\* grant under way puts off before anything is sealed.  A link-dead character may leave on
\* a synced journal record, one that camps may not.
Terminal(p, intent, capture, fits) ==
  LET sealed == Rev!Sealed(TerminalEntry(p))
  IN  /\ intent \in {"camp", "linkdead"}
      /\ Playing(p) /\ MayFence(p)
      /\ revision_states' =
           [revision_states EXCEPT ![p] = IF capture = "put off" THEN TerminalEntry(p) ELSE sealed]
      /\ terminal_fences' = [terminal_fences EXCEPT ![p] = Fence(sealed.current)]
      /\ pending_append' =
           IF capture = "taken" THEN Enqueued(Capture(p, sealed, FALSE), fits) ELSE pending_append
      /\ game' = Await(p, intent = "linkdead")
      /\ UNCHANGED <<durable_ready, append_inflight, accepting, target_save_login_fences, replay,
                     writer, journal, db, live, ghosts>>

(***************************************************************************)
(* player_save_pipeline_terminal_death: captured before it is sealed; the  *)
(* fence is given back when nothing was queued.                            *)
(***************************************************************************)
TerminalDeath(p, captured, fits) ==
  LET sealed == Rev!Sealed(TerminalEntry(p))
      s == Capture(p, sealed, TRUE)
      queued == captured /\ EnqueueResult(s, fits) \in {"queued", "coalesced", "superseded"}
  IN  /\ "death" \in Intents
      /\ Playing(p) /\ MayFence(p)
      /\ revision_states' =
           [revision_states EXCEPT ![p] = IF captured THEN sealed ELSE TerminalEntry(p)]
      /\ terminal_fences' =
           [terminal_fences EXCEPT ![p] = IF queued THEN Fence(sealed.current) ELSE NoFence]
      /\ pending_append' = IF captured THEN Enqueued(s, fits) ELSE pending_append
      /\ game' = IF queued THEN Await(p, FALSE) ELSE game
      /\ UNCHANGED <<durable_ready, append_inflight, accepting, target_save_login_fences, replay,
                     writer, journal, db, live, ghosts>>

(***************************************************************************)
(* sql_save_player: everything is written in one transaction at a fresh    *)
(* revision and acknowledged after the commit, beside the pipeline; the    *)
(* answer to the commit may be lost.                                       *)
(***************************************************************************)
SynchronousSave(p, commits, answered) ==
  LET e == TerminalEntry(p)
      saved == commits /\ db[p].revision < e.current
  IN  /\ "synchronous" \in Intents
      /\ Playing(p) /\ Rev!MarkAccepts(p, Components)
      /\ revision_states' =
           [revision_states EXCEPT ![p] =
              IF saved /\ answered THEN Rev!DurablyAcknowledged(e, e.current, Components) ELSE e]
      /\ db' = IF saved
               THEN [db EXCEPT ![p] = [revision |-> e.current, values |-> live[p].values]]
               ELSE db
      /\ UNCHANGED <<pipeline, accepting, fences, game, replay, writer, journal, live, ghosts>>

-----------------------------------------------------------------------------
(***************************************************************************)
(* player_save_pipeline_pulse: up to Budget completions are applied, the   *)
(* players whose session ended are retired, then up to Budget journaled    *)
(* captures are submitted, one critical section each.  Of the pulses that  *)
(* find nothing to do, only those of a waiting game are steps.             *)
(***************************************************************************)
FaultAcknowledged(e, done) ==
  LET s == done.capture
  IN  IF Rev!AcknowledgeDurableAccepts(e, s.revision, s.components)
      THEN Rev!DurablyAcknowledged(e, s.revision, s.components)
      ELSE e

Acknowledged(e, done) ==
  LET s == done.capture
  IN  IF done.outcome \in Saved /\ Rev!AcknowledgeDurableAccepts(e, s.revision, s.components)
      THEN Rev!DurablyAcknowledged(e, s.revision, s.components)
      ELSE e

FaultAcknowledges(fence, done) == fence.held /\ done.outcome \in Saved

Acknowledges(fence, done) ==
  fence.held /\ fence.revision = done.capture.revision /\ done.outcome \in Saved

\* player_save_worker_pid_pending with the completions left over
WriterPending(p, completions) ==
  \/ \E i \in DOMAIN w_pending : w_pending[i].owner = p
  \/ \E i \in DOMAIN completions : completions[i].capture.owner = p

\* retire_ended_player
Retired(p, e, completions) ==
  IF e.session_ended /\ ~live[p].online /\ ~WriterPending(p, completions) THEN Rev!Absent ELSE e

\* The entries once the first n completions have been acknowledged, each in its turn.
Completed(n) ==
  LET entries[i \in 0 .. n] ==
        IF i = 0 THEN revision_states
        ELSE [entries[i - 1] EXCEPT ![w_completions[i].capture.owner] =
                Acknowledged(@, w_completions[i])]
  IN  entries[n]

\* The first part of a pulse: completions applied, players retired.
ApplyCompletions ==
  LET n == IF Budget <= Len(w_completions) THEN Budget ELSE Len(w_completions)
      rest == SubSeq(w_completions, n + 1, Len(w_completions))
      of(p) == {i \in 1 .. n : w_completions[i].capture.owner = p}
  IN  /\ n = 0 \/ Writer!Consume(n)
      /\ n = 0 => UNCHANGED <<w_pending, w_taken, w_completions>>
      /\ revision_states' = [p \in Pids |-> IF of(p) = {} THEN revision_states[p]
                                            ELSE Retired(p, Completed(n)[p], rest)]
      /\ terminal_fences' =
           [p \in Pids |->
              IF \E i \in of(p) : Acknowledges(terminal_fences[p], w_completions[i])
              THEN [terminal_fences[p] EXCEPT !.acknowledged = TRUE]
              ELSE terminal_fences[p]]

Pulse ==
  /\ game.step = "idle"
  /\ w_completions # <<>> \/ durable_ready # <<>> \/ game.wait # NoWait
  /\ ApplyCompletions
  /\ game' = [game EXCEPT !.step = "submitting", !.left = Budget]
  /\ UNCHANGED <<pipeline, accepting, target_save_login_fences, replay, w_outcome, journal, db,
                 live, ghosts>>

FaultMaySubmit ==
  /\ game.step = "submitting" /\ game.left > 1
  /\ durable_ready # <<>> /\ Writer!HasRoom(Head(durable_ready))

MaySubmit ==
  /\ game.step = "submitting" /\ game.left > 0
  /\ durable_ready # <<>> /\ Writer!HasRoom(Head(durable_ready))

PulseSubmit ==
  /\ MaySubmit
  /\ Writer!Put(Head(durable_ready))
  /\ durable_ready' = Tail(durable_ready)
  /\ game' = [game EXCEPT !.left = @ - 1]
  /\ UNCHANGED <<revision_states, pending_append, append_inflight, accepting, fences, replay,
                 w_outcome, journal, db, live, ghosts>>

PulseEnds ==
  /\ game.step = "submitting" /\ ~MaySubmit
  /\ game' = [game EXCEPT !.step = IF game.wait = NoWait THEN "idle" ELSE "checking", !.left = 0]
  /\ UNCHANGED <<revision_states, pipeline, accepting, fences, replay, writer, journal, db, live,
                 ghosts>>

-----------------------------------------------------------------------------
(***************************************************************************)
(* await_terminal_fence after each pulse; no one moves the fence while the *)
(* game thread waits.  On success the caller may extract the character:    *)
(* player_save_pipeline_end_session, from free_char.                       *)
(***************************************************************************)
FaultSecured(fence, handoff) == fence.acknowledged \/ handoff

Secured(fence, handoff) == fence.acknowledged \/ (handoff /\ fence.journaled)

Leaves(p) ==
  /\ live' = [live EXCEPT ![p] = Offline]
  /\ revision_states' =
       [revision_states EXCEPT ![p] = 
          IF WriterPending(p, w_completions) THEN [@ EXCEPT !.session_ended = TRUE]
          ELSE Rev!Absent]
  /\ released' = [released EXCEPT ![p] = live[p].values]

AwaitSucceeds(leaves) ==
  LET p == game.wait.pid
  IN  /\ game.step = "checking" /\ game.wait.for = "fence"
      /\ terminal_fences[p].held /\ terminal_fences[p].revision = game.wait.revision
      /\ Secured(terminal_fences[p], game.wait.handoff)
      /\ terminal_fences' = [terminal_fences EXCEPT ![p] = NoFence]
      /\ IF leaves THEN Leaves(p) ELSE UNCHANGED <<live, revision_states, released>>
      /\ game' = Free
      /\ UNCHANGED <<pipeline, accepting, target_save_login_fences, replay, writer, journal, db,
                     history, logins, crashes, drains, stops, append_failures,
                 write_failures>>

\* player_save_pipeline_drain: every capture through the journal and the writer idle
Drained ==
  /\ pending_append = <<>> /\ append_inflight = <<>> /\ durable_ready = <<>>
  /\ w_pending = <<>>

AwaitContinues ==
  /\ game.step = "checking" /\ game.wait.for \in {"fence", "drain"}
  /\ CASE game.wait.for = "fence" ->
            /\ terminal_fences[game.wait.pid].revision = game.wait.revision
            /\ ~Secured(terminal_fences[game.wait.pid], game.wait.handoff)
       [] game.wait.for = "drain" -> ~Drained
  /\ game' = [game EXCEPT !.step = "idle"]
  /\ UNCHANGED <<revision_states, pipeline, accepting, fences, replay, writer, journal, db, live,
                 ghosts>>

\* The deadline passes; a terminal fence stays, and so does the quiescence of a failed drain.
AwaitTimesOut ==
  /\ game.step = "idle" /\ game.wait.for \in {"fence", "drain"}
  /\ game' = Free
  /\ UNCHANGED <<revision_states, pipeline, accepting, fences, replay, writer, journal, db, live,
                 ghosts>>

\* player_save_pipeline_quiesce and _drain; the caller later resumes, or the process ends.
Drain ==
  /\ game = Free /\ drains < MaxDrains
  /\ drains' = drains + 1
  /\ accepting' = FALSE
  /\ game' = [Free EXCEPT !.wait = [for |-> "drain"]]
  /\ UNCHANGED <<revision_states, pipeline, fences, replay, writer, journal, db, live, history,
                 released, logins, crashes, stops, append_failures, write_failures>>

\* One more pulse, which finds nothing to submit, and the drain is over.
DrainSucceeds ==
  /\ game.step = "checking" /\ game.wait.for = "drain" /\ Drained
  /\ ApplyCompletions
  /\ game' = Free
  /\ UNCHANGED <<pipeline, accepting, target_save_login_fences, replay, w_outcome, journal, db,
                 live, ghosts>>

Resume ==
  /\ game = Free /\ ~accepting
  /\ accepting' = TRUE
  /\ UNCHANGED <<revision_states, pipeline, fences, game, replay, writer, journal, db, live,
                 ghosts>>

-----------------------------------------------------------------------------
(***************************************************************************)
(* player_save_pipeline_acquire_target_save_login_fence, for a player who  *)
(* is offline, at the revision the database shows.  The fence is reserved  *)
(* first and the rest checked after it; no other thread can make a check   *)
(* fail that held, so the whole is one step.                               *)
(***************************************************************************)
FaultUnsettled(p) == FALSE

\* What still belongs to an earlier save of the player.
Unsettled(p) ==
  LET e == revision_states[p]
  IN  \/ terminal_fences[p].held \/ Retained(p)
      \/ OfOwner(append_inflight, p) # {}
      \/ WriterPending(p, w_completions)
      \/ e.present /\ (e.overflowed \/ ~Rev!Settled(e) \/ e.dirty # {}
                       \/ e.current # db[p].revision \/ e.acknowledged # db[p].revision)

AcquireTargetFence(p) ==
  /\ game = Free /\ accepting /\ ~live[p].online
  /\ ~target_save_login_fences[p]
  /\ Cardinality({q \in Pids : target_save_login_fences[q]}) < MaxSnapshots
  /\ ~Unsettled(p)
  /\ target_save_login_fences' = [target_save_login_fences EXCEPT ![p] = TRUE]
  /\ UNCHANGED <<revision_states, pipeline, accepting, terminal_fences, game, replay, writer,
                 journal, db, live, ghosts>>

ReleaseTargetFence(p) ==
  /\ game = Free /\ target_save_login_fences[p]
  /\ target_save_login_fences' = [target_save_login_fences EXCEPT ![p] = FALSE]
  /\ UNCHANGED <<revision_states, pipeline, accepting, terminal_fences, game, replay, writer,
                 journal, db, live, ghosts>>

\* A load publishes what the database holds (player_load_materialize); a player under
\* a target fence, or whose revision is refused, enters degraded and saves nothing.
Login(p) ==
  /\ game = Free /\ ~live[p].online /\ logins < MaxLogins
  /\ ~target_save_login_fences[p]
  /\ Rev!Hydrate(p, db[p].revision)
  /\ live' = [live EXCEPT ![p] = [online |-> TRUE, values |-> db[p].values]]
  /\ released' = [released EXCEPT ![p] = <<>>]
  /\ logins' = logins + 1
  /\ UNCHANGED <<pipeline, accepting, fences, game, replay, writer, journal, db, history, crashes,
                 drains, stops, append_failures,
                 write_failures>>

-----------------------------------------------------------------------------
(***************************************************************************)
(* dispatcher_main: one capture at a time is appended and synced; after a  *)
(* failure, which may leave the frame in the file, it goes back in front.  *)
(***************************************************************************)
DispatchTake ==
  /\ ~replaying /\ append_inflight = <<>> /\ pending_append # <<>>
  /\ append_inflight' = <<Head(pending_append)>>
  /\ pending_append' = Tail(pending_append)
  /\ UNCHANGED <<revision_states, durable_ready, accepting, fences, game, replay, writer, journal,
                 db, live, ghosts>>

AppendOK ==
  LET s == Head(append_inflight)
      fence == terminal_fences[s.owner]
  IN  /\ append_inflight # <<>>
      /\ journal' = journal \cup {s}
      /\ durable_ready' = Append(durable_ready, s)
      /\ append_inflight' = <<>>
      /\ terminal_fences' =
           [terminal_fences EXCEPT ![s.owner].journaled =
              @ \/ (fence.held /\ fence.revision = s.revision)]
      /\ UNCHANGED <<revision_states, pending_append, accepting, target_save_login_fences, game,
                     replay, writer, db, live, ghosts>>

AppendFails(left) ==
  /\ append_inflight # <<>> /\ append_failures < MaxAppendFailures
  /\ journal' = IF left THEN journal \cup {Head(append_inflight)} ELSE journal
  /\ pending_append' = append_inflight \o pending_append
  /\ append_inflight' = <<>>
  /\ append_failures' = append_failures + 1
  /\ UNCHANGED <<revision_states, durable_ready, accepting, fences, game, replay, writer, db, live,
                 history, released, logins, crashes, drains, stops, write_failures>>

-----------------------------------------------------------------------------
(***************************************************************************)
(* The database, player_snapshot_repository_apply: the components of a     *)
(* newer revision replace the stored ones.                                 *)
(***************************************************************************)
FaultNewer(s) == TRUE

Newer(s) == db[s.owner].revision < s.revision

Applied(s) ==
  IF Newer(s)
  THEN [db EXCEPT ![s.owner] =
          [revision |-> s.revision,
           values |-> [c \in Components |-> IF c \in s.components THEN s.values[c]
                                            ELSE @.values[c]]]]
  ELSE db

ApplyOutcome(s) ==
  CASE Newer(s) -> "applied"
    [] db[s.owner].revision = s.revision -> "already_applied"
    [] OTHER -> "stale_revision"

WriterTake ==
  /\ Writer!Take
  /\ UNCHANGED <<revision_states, pipeline, accepting, fences, game, replay, w_outcome, journal, db,
                 live, ghosts>>

\* A commit whose answer is lost is applied, and the job tried again.
WriterApplies(answered) ==
  /\ w_taken /\ w_outcome = "none"
  /\ db' = Applied(Head(w_pending))
  /\ w_outcome' = IF answered THEN ApplyOutcome(Head(w_pending)) ELSE "none"
  /\ UNCHANGED <<revision_states, pipeline, accepting, fences, game, replay, w_pending, w_taken,
                 w_completions, journal, live, ghosts>>

WriterFails ==
  /\ w_taken /\ w_outcome = "none" /\ write_failures < MaxWriteFailures
  /\ w_outcome' = "terminal_failure"
  /\ write_failures' = write_failures + 1
  /\ UNCHANGED <<revision_states, pipeline, accepting, fences, game, replay, w_pending, w_taken,
                 w_completions, journal, db, live, history, released, logins, crashes,
                 drains, stops, append_failures>>

\* player_save_journal_checkpoint
Compacted(frames, p, durable) ==
  {s \in frames : ~(/\ s.owner = p /\ s.revision <= durable
                    /\ s.death => s.revision = durable)}

\* The writer acknowledges the journal with the durable revision of a job that succeeded.
AcknowledgedJournal(s) == Compacted(journal, s.owner, db[s.owner].revision)

WriterFinishes ==
  /\ w_taken /\ w_outcome # "none"
  /\ Writer!Finish(w_outcome)
  /\ journal' = IF w_outcome \in Saved THEN AcknowledgedJournal(Head(w_pending)) ELSE journal
  /\ w_outcome' = "none"
  /\ UNCHANGED <<revision_states, pipeline, accepting, fences, game, replay, db, live, ghosts>>

-----------------------------------------------------------------------------
(***************************************************************************)
(* player_save_journal_replay, by the dispatcher before its first append,  *)
(* beside a game that already runs.  Frames are applied by player and      *)
(* revision; the order between players does not matter here.               *)
(***************************************************************************)
FirstOfPlayer(s) == \A g \in todo : g.owner = s.owner => s.revision <= g.revision

ReplayFrame(s) ==
  /\ replaying /\ s \in todo /\ FirstOfPlayer(s)
  /\ ~(s.death /\ db[s.owner].revision > s.revision)
  /\ db' = Applied(s)
  /\ journal' = IF s.death THEN Compacted(journal, s.owner, s.revision) ELSE journal
  /\ replayed' = [replayed EXCEPT ![s.owner] = Max({@, db'[s.owner].revision})]
  /\ todo' = todo \ {s}
  /\ UNCHANGED <<revision_states, pipeline, accepting, fences, game, replaying, writer, live,
                 ghosts>>

\* An application fails, perhaps after its commit, and the dispatcher goes on without replay.
ReplayBlocked(s, effective) ==
  /\ replaying /\ s \in todo /\ FirstOfPlayer(s)
  /\ db' = IF effective THEN Applied(s) ELSE db
  /\ replaying' = FALSE /\ todo' = {}
  /\ UNCHANGED <<revision_states, pipeline, accepting, fences, game, replayed, writer, journal,
                 live, ghosts>>

\* The checkpoints that end a replay, of all players unless one fails.
ReplayEnds(ended) ==
  /\ replaying /\ todo = {}
  /\ journal' = {s \in journal :
                   s.owner \in ended => s \in Compacted(journal, s.owner, replayed[s.owner])}
  /\ replaying' = FALSE
  /\ UNCHANGED <<revision_states, pipeline, accepting, fences, game, todo, replayed, writer, db,
                 live, ghosts>>

\* The process starts again: only the journal and the database are left.
Restarted ==
  /\ revision_states' = [p \in Pids |-> Rev!Absent]
  /\ pending_append' = <<>> /\ durable_ready' = <<>> /\ append_inflight' = <<>>
  /\ accepting' = TRUE
  /\ terminal_fences' = [p \in Pids |-> NoFence]
  /\ target_save_login_fences' = [p \in Pids |-> FALSE]
  /\ game' = Free
  /\ todo' = journal /\ replayed' = [p \in Pids |-> 0] /\ replaying' = TRUE
  /\ w_pending' = <<>> /\ w_taken' = FALSE /\ w_completions' = <<>> /\ w_outcome' = "none"
  /\ live' = [p \in Pids |-> Offline]
  /\ UNCHANGED <<journal, db, history, released, logins, drains, stops, append_failures,
                 write_failures>>

Crash ==
  /\ crashes < MaxCrashes
  /\ crashes' = crashes + 1
  /\ Restarted

(***************************************************************************)
(* player_save_pipeline_shutdown: the game thread joins the dispatcher,    *)
(* which leaves only with nothing left to append, pulses, gives the writer *)
(* a while to become idle, pulses again and joins the writer, who finishes *)
(* what is behind its commit and drops the rest of its queue.              *)
(***************************************************************************)
Stops == {"join", "idle", "stop"}

Shutdown ==
  /\ game = Free /\ stops < MaxStops
  /\ stops' = stops + 1
  /\ game' = [Free EXCEPT !.step = "joining", !.wait = [for |-> "join"]]
  /\ UNCHANGED <<revision_states, pipeline, accepting, fences, replay, writer, journal, db, live,
                 history, released, logins, crashes, drains, append_failures, write_failures>>

FaultDispatcherLeaves == ~replaying /\ append_inflight = <<>>

\* The dispatcher, once told to stop, leaves its loop.
DispatcherLeaves == ~replaying /\ append_inflight = <<>> /\ pending_append = <<>>

Joined ==
  /\ game.step = "joining" /\ DispatcherLeaves
  /\ game' = [Free EXCEPT !.wait = [for |-> "idle"]]
  /\ UNCHANGED <<revision_states, pipeline, accepting, fences, replay, writer, journal, db, live,
                 ghosts>>

\* persistence_writer_wait_idle, whether the writer is idle by then or not
WriterIdles ==
  /\ game.step = "checking" /\ game.wait.for = "idle"
  /\ game' = [Free EXCEPT !.wait = [for |-> "stop"]]
  /\ UNCHANGED <<revision_states, pipeline, accepting, fences, replay, writer, journal, db, live,
                 ghosts>>

Stopped ==
  /\ game.step = "checking" /\ game.wait.for = "stop" /\ w_outcome = "none"
  /\ Restarted
  /\ UNCHANGED crashes

GameOperation(p) ==
  \/ \E comps \in SUBSET Components : Change(p, comps)
  \/ \E captured, fits \in BOOLEAN : Checkpoint(p, captured, fits)
  \/ \E intent \in Intents, capture \in {"taken", "failed", "put off"}, fits \in BOOLEAN :
       Terminal(p, intent, capture, fits)
  \/ \E captured, fits \in BOOLEAN : TerminalDeath(p, captured, fits)
  \/ \E commits, answered \in BOOLEAN : SynchronousSave(p, commits, answered)
  \/ AcquireTargetFence(p)
  \/ ReleaseTargetFence(p)
  \/ Login(p)

GameLoop ==
  \/ Pulse
  \/ PulseSubmit
  \/ PulseEnds
  \/ \E leaves \in BOOLEAN : AwaitSucceeds(leaves)
  \/ AwaitContinues
  \/ AwaitTimesOut
  \/ Drain
  \/ DrainSucceeds
  \/ Resume
  \/ Shutdown
  \/ Joined
  \/ WriterIdles
  \/ Stopped

Dispatcher ==
  \/ DispatchTake
  \/ AppendOK
  \/ \E left \in BOOLEAN : AppendFails(left)
  \/ \E s \in todo : ReplayFrame(s)
  \/ \E s \in todo, effective \in BOOLEAN : ReplayBlocked(s, effective)
  \/ \E ended \in SUBSET Pids : ReplayEnds(ended)

WriterThread ==
  \/ WriterTake
  \/ \E answered \in BOOLEAN : WriterApplies(answered)
  \/ WriterFails
  \/ WriterFinishes

Next ==
  \/ \E p \in Pids : GameOperation(p)
  \/ GameLoop
  \/ Dispatcher
  \/ WriterThread
  \/ Crash

Spec == Init /\ [][Next]_vars

(***************************************************************************)
(* The threads keep running: the game loop pulses and its waits end, the   *)
(* dispatcher appends, the writer writes, and a lost answer is not lost    *)
(* forever.                                                                *)
(***************************************************************************)
FairSpec ==
  /\ Spec
  /\ WF_vars(Pulse) /\ WF_vars(PulseSubmit) /\ WF_vars(PulseEnds)
  /\ WF_vars(\E leaves \in BOOLEAN : AwaitSucceeds(leaves))
  /\ WF_vars(AwaitContinues) /\ WF_vars(DrainSucceeds)
  /\ WF_vars(Joined) /\ WF_vars(WriterIdles) /\ WF_vars(Stopped)
  /\ WF_vars(DispatchTake) /\ WF_vars(AppendOK)
  /\ WF_vars(\E s \in todo : ReplayFrame(s))
  /\ WF_vars(\E ended \in SUBSET Pids : ReplayEnds(ended))
  /\ WF_vars(WriterTake) /\ SF_vars(WriterApplies(TRUE)) /\ WF_vars(WriterFinishes)

-----------------------------------------------------------------------------
Waits ==
  {NoWait} \cup [for : {"drain"} \cup Stops]
    \cup [for : {"fence"}, pid : Pids, revision : Rev!Revisions, handoff : BOOLEAN]

TypeOK ==
  /\ Rev!TypeOK
  /\ pending_append \in Seq(Snapshot) /\ durable_ready \in Seq(Snapshot)
  /\ append_inflight \in Seq(Snapshot) /\ Len(append_inflight) <= 1
  /\ accepting \in BOOLEAN
  /\ terminal_fences \in [Pids -> [held : BOOLEAN, revision : Rev!Revisions,
                                   journaled : BOOLEAN, acknowledged : BOOLEAN]]
  /\ target_save_login_fences \in [Pids -> BOOLEAN]
  /\ game \in [step : {"idle", "submitting", "checking", "joining"}, left : 0 .. Budget, wait : Waits]
  /\ todo \subseteq Snapshot /\ replayed \in [Pids -> Rev!Revisions] /\ replaying \in BOOLEAN
  /\ w_pending \in Seq(Snapshot) /\ w_taken \in BOOLEAN
  /\ \A i \in DOMAIN w_completions : w_completions[i].capture \in Snapshot
  /\ w_outcome \in Saved \cup {"terminal_failure", "none"}
  /\ journal \subseteq Snapshot
  /\ db \in [Pids -> [revision : Rev!Revisions, values : Values]]
  /\ live \in [Pids -> [online : BOOLEAN, values : Values]]

(***************************************************************************)
(* The database row of a player is always the whole character as it stood  *)
(* at one moment of its history, never components of different moments:    *)
(* captures carry only the unacknowledged components, are replaced, fail,  *)
(* are applied twice and are overtaken by synchronous saves.               *)
(***************************************************************************)
Moments(p) ==
  {[c \in Components |-> 0]} \cup {history[i].values : i \in {j \in DOMAIN history : history[j].pid = p}}

DatabaseIsOneCut == \A p \in Pids : db[p].values \in Moments(p)

(***************************************************************************)
(* What the revision table counts as saved is in the database: for a       *)
(* character in the game every component that is not unacknowledged has    *)
(* its current value there.                                                *)
(***************************************************************************)
SavedIsDurable ==
  \A p \in Pids : live[p].online =>
    \A c \in Components \ revision_states[p].unacknowledged :
      db[p].values[c] = live[p].values[c]

(***************************************************************************)
(* A released character is not lost: what it was when a terminal save let  *)
(* it go is in the database, or in a journal frame that a replay will      *)
(* apply over the database, through crashes and later checkpoints.         *)
(***************************************************************************)
Recoverable(p, values) ==
  \/ db[p].values = values
  \/ \E s \in journal : /\ s.owner = p /\ s.components = Components
                        /\ s.values = values /\ Newer(s)

ReleasedIsRecoverable ==
  \A p \in Pids : released[p] # <<>> => Recoverable(p, released[p])

(***************************************************************************)
(* A terminal fence tells the truth about its own revision: acknowledged   *)
(* means that the database holds it, journaled that the journal or the     *)
(* database does; completions of older captures, later changes and a       *)
(* second terminal save in between do not confuse it.                      *)
(***************************************************************************)
FenceIsTruthful ==
  \A p \in Pids :
    LET fence == terminal_fences[p]
    IN  /\ fence.acknowledged => fence.revision <= db[p].revision
        /\ fence.journaled => \/ fence.revision <= db[p].revision
                              \/ \E s \in journal : s.owner = p /\ s.revision = fence.revision

(***************************************************************************)
(* Under a target fence no save of the player is under way anywhere, and   *)
(* nothing but the replay of the journal touches the player's row.         *)
(***************************************************************************)
UnderFence(p) ==
  /\ ~Retained(p) /\ OfOwner(append_inflight, p) = {}
  /\ ~WriterPending(p, w_completions)
  /\ revision_states[p].present => Rev!Settled(revision_states[p])

TargetFenceExcludesSaves ==
  \A p \in Pids : target_save_login_fences[p] => UnderFence(p)

\* The state keeps its types, and a recipient fence excludes saves: it was granted
\* only where acquire_target_save_login_fence found nothing of the player unsettled.
FencesInv == TypeOK /\ TargetFenceExcludesSaves

\* The row that the fence holder read stays as it read it.
TargetRowIsStill ==
  [][\A p \in Pids : target_save_login_fences[p] /\ db'[p] # db[p] => replaying]_vars

(***************************************************************************)
(* "A single background thread applies every queued save in the order it   *)
(* was captured" (player_save_worker.h) does not hold of the pipeline: a   *)
(* failed append puts its capture back in front, the next one replaces it  *)
(* there and overtakes a third, which the database then refuses.  Nothing  *)
(* is lost with it: of two captures on the way that the row has not        *)
(* reached, whatever the older carries and the newer does not is in the    *)
(* row already.                                                            *)
(***************************************************************************)
OnTheWay == w_pending \o durable_ready \o append_inflight \o pending_append

NewerMakesUp ==
  \A i, j \in DOMAIN OnTheWay :
    LET older == OnTheWay[i]
        newer == OnTheWay[j]
    IN  older.owner = newer.owner /\ Newer(older) /\ older.revision < newer.revision =>
          \A c \in older.components \ newer.components :
            db[older.owner].values[c] = older.values[c]

(***************************************************************************)
(* A capture once admitted reaches the database, itself or a newer one,    *)
(* unless the server crashes or the database refuses a save for good.      *)
(* After an orderly stop it may be left to the journal's replay.           *)
(***************************************************************************)
AdmittedIsSaved ==
  \A p \in Pids, r \in 1 .. MaxRevision :
    RetainedAt(p, r) ~> \/ r <= db[p].revision \/ crashes > 0 \/ write_failures > 0
                        \/ stops > 0 /\ \E s \in journal : s.owner = p /\ s.revision >= r

(***************************************************************************)
(* player_save_pipeline_shutdown ends, and loses no save: what was queued  *)
(* anywhere in the process is in the database, itself or a newer one, or   *)
(* in the journal for the next boot.                                       *)
(***************************************************************************)
Stopping == game.wait.for \in Stops

KeepsOnTheWay ==
  \A i \in DOMAIN OnTheWay :
    LET s == OnTheWay[i] IN s \in journal \/ s.revision <= db[s.owner].revision

StopKeepsSaves ==
  [][Stopping /\ ~Stopping' /\ crashes' = crashes => KeepsOnTheWay]_vars

StopsWithoutLoss == (Stopping ~> ~Stopping) /\ StopKeepsSaves

(***************************************************************************)
(* "A load of this character waits while its save is queued"               *)
(* (player_save_pipeline.h): a login gets what the last terminal save of   *)
(* the character let go.                                                   *)
(***************************************************************************)
LoginSeesReleased ==
  [][\A p \in Pids : released[p] # <<>> /\ live'[p].online => live'[p].values = released[p]]_vars

(***************************************************************************)
(* A login that waits for the saves of its character: none of them, queued *)
(* or journaled, is newer than the row it loads.  It is the wait that the  *)
(* header promises, and for the journal too.                               *)
(***************************************************************************)
Unwritten(p) ==
  {s \in Range(OnTheWay) \cup todo \cup journal : s.owner = p /\ Newer(s)}

LoadWaits == \A p \in Pids : ~live[p].online /\ live'[p].online => Unwritten(p) = {}

LoadsWait == [][LoadWaits]_vars
=============================================================================
