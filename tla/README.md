# Duris persistence core: TLA+ models, checks and proofs

Duris is a multi-user game server in C/C++. One game thread runs the world; beside
it run the threads that make it durable. This project verifies the part in which
threads, disk, database and crashes meet: how a change to a character becomes a row
in the database and comes back from it, how operations that must not happen twice are
carried out, and what is known about each at every moment in between. The game rules
are sequential code on one thread and are not modelled.

All paths below are relative to the repository root (`src/player/...` is the file
`src/src/player/...` of `PROJECT.json`).

## The system

### Components, their state and their operations

| Part | Source | State | Operations |
|---|---|---|---|
| Revision table | `src/player/player_revision_state.c` | per player: current, acknowledged, queued and in-flight revision; dirty, unacknowledged, queued, in-flight component sets; revision of each component | hydrate, mark, queue, begin_inflight, acknowledge, acknowledge_durable, fail_inflight, end_session, forget |
| Save pipeline | `src/player/player_save_pipeline.c` | `pending_append`, `durable_ready`, the capture in the dispatcher's hands, terminal fences, recipient (target save/login) fences, `accepting` | mark, checkpoint, terminal, terminal_death, pulse, quiesce/drain/resume, acquire/release recipient fence, end_session, `dispatcher_main` |
| Journal | `src/player/player_save_journal.c` | one append-only file of framed snapshots | init, append (write and fdatasync), checkpoint (rewrite and rename), replay |
| Writer | `src/player/player_save_worker.c` | job queue, owner index, job in flight, completion ring, byte count | submit, `writer_main` (take, write, acknowledge, retry, complete), pulse, shutdown |
| Snapshot repository | `src/player/player_snapshot_repository.c` | the database rows of a player and their `save_revision` | apply (one transaction, only over an older revision), with its handling of an ambiguous commit |
| Synchronous save | `src/sql/sql_player.c` | the same rows | `sql_save_player`: all components at a fresh revision, beside the pipeline |
| Load pipeline | `src/player/player_load_pipeline.c`, its callers in `src/account/account.c` and `src/net/comm.c` | `jobs`, `completions`, `active_ids`, `cancelled_ids`, `inflight_id`; per session its state and the request it waits for | submit, cancel, wait, execute_sync, pulse, shutdown, `worker_main` |
| Load repository | `src/player/player_load_repository.c`, `player_load_materialize.c` | the character in the game | read the row, materialize, hydrate the revision |
| Checkpoint triggers | `src/persistence/persistence_checkpoint.c` | timers | mark and checkpoint |
| Critical commands | `src/persistence/critical_command_coordinator.c`, `critical_command_repository.c` | operation table, entity fences, completion deliveries, cache of completed ids; `critical_operation_inbox` | submit, execute (on the writer), pulse, acknowledge_publication, quiesce/resume/drain, init, shutdown; apply and reconcile |
| Critical outbox | `src/persistence/critical_outbox.c` | outbox rows | deliver committed messages to the game |
| Maintenance | `src/persistence/maintenance_scheduler.c`, `maintenance_repository.c`, `src/world/epic_task_catalog.c` | per job its run, page cursor, request and completion, in memory and in a state file; page markers and timers in the database; the catalogue | pulse, `worker_main`, init (recovery), shutdown; paged execution |
| SQL pool | `src/sql/sql_pool.c`, `sql_exclusion_guard.h` | slots with connection, `in_use`, `needs_replacement`; `pool_closing`; the latch of the runtime lock | acquire, replace_connection, release, shutdown, probe |
| Corpses, death restitution | `src/persistence/corpse_lifecycle_*.c`, `player_death_restitution_*.c` | custody and restitution rows | critical commands; holder of recipient fences |
| Locker saves, older queue | `src/persistence/locker_async.c`, `persistence_queue.c` | job tables | clients of the writer or of their own thread |
| Copyover | `src/persistence/copyover.c` | descriptors | drain, exec |
| Redis, flat files, network, game | the rest of `src/` | | environment, or sequential code |

### How they interact

1. Game code changes a character and marks components (`mark`): the revision table
   hands out a new revision. A terminal fence of the player moves along with it.
2. A checkpoint seals what is unacknowledged (`player_revision_queue`), captures it and
   admits the capture to `pending_append`; a newer capture takes the place of the first
   one of the same player there, if it covers its components.
3. The dispatcher thread, after replaying the journal once, appends one capture at a
   time, synced, and moves it to `durable_ready`. A failure puts it back in front.
4. The pulse of the game loop applies up to 32 completions of the writer (acknowledging
   the revision table, setting fences, retiring ended sessions) and submits up to 32
   captures to the writer.
5. The writer applies jobs in order, retries a lost connection with the job in its
   hands, acknowledges the journal with the durable revision and leaves a completion.
6. Terminal saves (camping, link-death, death) mark everything, capture and block the
   game thread, pulsing, until the fence says that exactly their revision is in the
   database or, where the caller allows it, in the journal; then the character leaves.
7. A session that selects a character submits a load and waits for the pulse to bring its
   result, or has the game thread wait; where the pipeline refuses, times out or answers
   retryable, the game thread loads the character itself. Closing the session cancels.
8. A critical command reserves its operation and its entity fences and is queued on the
   same writer. Its transaction inserts the inbox row, makes the change and commits; a
   connection lost at COMMIT is settled by looking for the row on another connection, and
   the command is tried again before anything queued behind it.
9. The maintenance pulse hands out results and submits the job that is due; its worker
   writes the state file before and after each page. Init resumes the run the file names.
10. Loader, writer, maintenance worker and game thread borrow connections from one pool.
    A connection is probed for the lock that makes this server the only one; one that
    broke is replaced outside the mutex.

### What is hard here

Background threads and the game thread meet in queues that are updated in place;
captures carry only part of a character and are coalesced, put back, retried, applied
twice and overtaken; appends tear, commits lose their answer, checkpoints fail with the
file already replaced; the process dies between any two of these; timeouts leave fences
behind that later events still touch; a transaction of a lost connection lands after its
command was tried again; results arrive for sessions that closed and for coordinators
that were restarted; connections are replaced while the pool closes. `PROJECT.json` lists the hazards, each at its line
with the properties aimed at it, and with a note where none is yet.

## The modules

| Module | Models | Notes |
|---|---|---|
| `PlayerRevisionState` | the revision table | one action per operation; a pid without entry is `Absent`; exhaustion of revisions (`MarkOverflow`) and of table slots included |
| `SaveWriter` | what clients may assume of the writer | abstract: one ordered queue, a completion per save, a bound on both together |
| `PlayerSaveWorker` | the writer | a job carries the ghost time `at` of its admission; a byte size and a death flag are what admission tells captures apart by; implements `SaveWriter` |
| `PlayerSaveJournal` | the journal file, its scan, checkpoint and replay | a record is whole, `short` (torn before its length field) or `long` (torn behind it), and synced or not; the database is reduced to `save_revision` and the history of committed saves, the game to the revision each player is at and the captures that wait |
| `PlayerSavePipeline` | the composition | instantiates `PlayerRevisionState` and `SaveWriter`; the journal is the set of its readable frames; the database and the live character are values of components |
| `CriticalCommand` | the coordinator, its execution on the writer, and the transaction | instantiates `SaveWriter` for the writer's queue; a command is its id, entity keys, content and acceptance time; the change of a transaction is counted per operation (`effects`) and ordered per entity (`landed`) |
| `MaintenanceScheduler` | scheduler, worker, state file, the paged job and the catalogue job | a page is the list of zones it covers; a run is its work id and cursor; time of day is nondeterminism |
| `SqlPool` | the connection pool and the lock guard | a connection is the number of its opening; an abstract specification for its clients, `PoolSpec` |
| `PlayerLoadPipeline` | the load pipeline with the sessions that use it | extends `SqlPool`: loader, game thread and another borrower share the pool; implements `PoolSpec` |
| `Subsequences` | the elements of a sequence at some indexes, and its last elements | what `SelectSeq` gives, defined by ranks instead of by recursion, so that proofs can expand it; used for fences, the completed cache and the restart of maintenance |
| `PlayerRevisionStateProofs`, `PlayerSaveWorkerProofs`, `PlayerSaveJournalProofs`, `PlayerSavePipelineProofs`, `CriticalCommandProofs`, `MaintenanceSchedulerProofs`, `PlayerLoadPipelineProofs` | the theorems, those about the pool in the last one | |
| `SequenceLemmas` | facts about queues that the proofs share | appending, taking, removing, keeping and counting elements, and induction over `0 .. n` |
| `MC...` | instances for TLC | |

`Fault...` operators are deliberately wrong versions of the definition that follows
them; the runs are repeated with each in its place to see that the property notices.

### State and actions against the code

* **Atomicity.** A critical section of `worker_mutex`, `journal_mutex` or
  `pipeline_mutex` is one action where another thread can come between it and the next.
  Game-thread code between two of them that only the game thread touches is merged
  (`Terminal` is mark, seal, capture and enqueue). The pulse is `Pulse` (completions),
  then `PulseSubmit` for each capture, then `PulseEnds`, because the dispatcher runs in
  between. The wait of a terminal save is the loop `Pulse` ... `AwaitContinues` until
  `AwaitSucceeds` or `AwaitTimesOut`; nothing else of the game runs meanwhile.
* **Writer.** `stage` is the program counter of `writer_main`. `WriteJob` and
  `AckJournal` are the two halves of `write_job`: a stop, a submission or a pulse can
  come between. An ambiguous commit may or may not have taken effect.
* **Journal.** `Crash(kept)` loses a suffix of the records not yet synced. `Boot` is
  init (which compacts a file with bad records) and the scan and sort of replay.
  Nothing makes the game wait for the replay: `Login` takes the revision of a player from
  the row whatever the journal still holds, `Capture` and `SynchronousSave` go on from it,
  and so a journaled revision can be handed out a second time.
  `ReplayBlocked` may follow a commit whose answer was lost or a death whose checkpoint
  was refused; `ReplayEnds(last)` stops after the first checkpoint that fails.
* **Pipeline.** The value of a component is the number of the change that wrote it, so
  that a mix of moments is visible; the ghost `history` records the character that each
  change left behind. `Terminal`'s capture may be taken, fail after the
  components were sealed, or be put off before (an item grant under way); `fits` is the
  byte budget, an input. A synchronous save may commit and lose its answer. The orderly
  shutdown is `Shutdown`, `Joined` (the dispatcher has left), a pulse, `WriterIdles`, a
  pulse and `Stopped`, after which the process boots again as after a `Crash`.
* **Equipment and inventory** are always marked together; they are one component here.
* **Critical commands.** `stage` is where `execute` is on the writer thread. A COMMIT
  whose connection is lost leaves its transaction in `limbo`, where the server commits it
  or rolls it back at any later time; a second transaction for the same id blocks on the
  inbox row until then (`LockedByLimbo`). Only the kind that tests use locks a row per
  entity key (`execute_entity`); item transfers lock item and owner rows, awards the
  player's, so that a transaction in limbo need not keep another on the same entity away,
  and in the model it does not. `Reconcile(o)` is the look-up on another
  connection, which may itself fail with `o`. An acceptance time the caller leaves out is
  filled in by submit and is part of the hash that `identity_matches` compares. A restart
  of the coordinator (`Shutdown`, `Initialize`) leaves its jobs on the writer; a `Crash`
  loses everything but the database.
* **Maintenance.** The worker's stages are the places where it is outside the mutex: it
  flushes a copy of the durable state, records a request, executes, records the result.
  A write of the file may fail before the rename, and change nothing, or after it, with
  the file replaced; the former also covers a rename that a power loss undoes. The game's
  handling of a result is part of the pulse that takes it. Quiesce, drain and resume are
  within one call of the game thread between two pulses, hence no actions; a copyover may
  still replace the process while the worker flushes, so results can be delivered again,
  and a restart may come at every stage.
* **Pool.** `at[t]` is where thread `t` is in acquire or replace: `pool_mutex` is left
  and taken again around every probe and connect. `Woken` and `TimesOut` are the two ends
  of the wait; a wait that timed out does not scan the slots again. The guard's latch
  `lost` is a `std::atomic<bool>`, set once and never reset.
* **Load.** The stages of `loader` and `game` are the places where each is outside
  `pipeline_mutex`. A result is its request and an outcome; `applied` stands for degraded
  too. The repository reads by the pid of the request, so that the identity checks of a
  result never apply. `batch` is what the last pulse took and the loop has not delivered.
  The game thread reads itself where a request was refused or a wait ended without a result
  (`sync`, `reading`) and once more where a result, its own first one included, is to be
  retried (`retry`, `rereading`).
  The older login dialogue has the same control as the account menu and is not modelled
  apart; a result that only admits saves is not either.
* **Revisions.** In `PlayerRevisionState` the limit is the program's 64-bit maximum,
  made small; in the other modules `MaxRevision` only bounds the run.

## What TLC checks

Times are with two workers.

| Run | Instance | States | Shows |
|---|---|---|---|
| `revision_state` | 2 players, 1 table slot, 2 components, 3 revisions | 7.9 k | `NothingStranded`, `NoLostMark`, `RevisionsOnlyGrow` |
| `save_worker` | a player (with deaths) and a locker with jobs twice as large, 2 slots, 3 bytes, 5 admissions | 73 k, 0.6 min | `IInv`, exact byte count, pending test, ordered writes, refinement of `SaveWriter`, `StopEnds`, `EveryJobLeaves` |
| `save_journal` | 2 players with 2 and 1 revisions, one of whom may die, 2 records, 1 crash | 1.5 M, 1.5 min | `JournalInv`, `ReplayRecovers` |
| `save_pipeline` | 1 player, 2 components, 3 revisions, 3 changes, camping, 1 failed append | 1.6 M, 1.5 min | `DatabaseIsOneCut`, `FenceIsTruthful`, `NewerMakesUp` |
| `save_pipeline_fences` | 2 revisions, camping, link-death, deaths, 1 drain, 1 crash, recipient fences | 1.0 M, 1 min | `FencesInv`, `ReleasedIsRecoverable`, `TargetRowIsStill` |
| `save_pipeline_progress` | 2 revisions, 1 change, camping, synchronous saves, 1 failed write, 1 shutdown, fairness | 409 k, 2.5 min | `SavedIsDurable`, `AdmittedIsSaved`, `StopsWithoutLoss` |
| `critical_command` | 2 operations that share an entity, a second command under one id, 2 submissions, 2 connections lost at COMMIT, 1 crash or restart, a cache of 1 | 303 k, 2 min | `EffectOnce`, `AnswerIsTrue`, `TableInv`, `AcceptanceOrder`, `AcceptedIsAnswered` |
| `maintenance` | a job that changes rows and the catalogue job, 3 zones in pages of 2, 2 runs, 1 failure, 1 restart | 43 k, 1 min | `StateFileLoads`, `SchedulerInv`, `EachZoneOnce`, `ForgottenIsDelivered`, `CatalogIsWhole`, `RunEnds` |
| `player_loading` | 1 session, 3 requests, 3 threads, 1 slot, 2 connections | 482 k, 2 min | `PipelineInv`, `ClosedIsCancelled`, `EveryLoadEnds`; `LentToOne`, `Accounted`, `LentIsUsable`, `ShutdownEnds`; refinement of the pool |
| `save_journal_torn`, `save_pipeline_login`, `critical_failure` | small | | counterexamples, below |

The properties, in words:

* **Revision table.** `NothingStranded`: an unacknowledged component is dirty, queued or
  in flight, so some later capture takes it. `NoLostMark`: a component marked after the
  acknowledged revision is still unacknowledged. `RevisionsOnlyGrow`: within an entry's
  life. The inductive invariant `IInv` of the proofs adds types, the bounds between the
  revisions of an entry, and that a settled entry is current.
* **Writer.** `IInv` holds the limits (queue, flight and completions share `MaxJobs`
  slots, so the completion ring, which only asserts, always has room), the order of
  admission in one chain, and that the index names the newest job of an owner.
  `BytesExact`: the count equals the sum, so the unsigned subtraction cannot wrap.
  `PendingIsExact`: the pending test is exact though it asks the index. `WritesInOrder`:
  no write takes effect after that of a later capture. `ImplementsWriter`: jobs leave
  by completion or replacement only, never a death by replacement, in order, and an
  abandoned job stays in flight: that is `SaveWriter`. `StopEnds`: a stop ends the thread,
  also in an outage that lasts. `EveryJobLeaves`: where outages end, every job does.
* **Journal.** `JournalInv`: types, and what append accepted is readable until there is
  durable evidence for its revision (`JournaledUntilDurable`): the row has gone to it or
  past it or, for a death, was once at exactly its revision, so that a newer save does not
  release it. `ReplayRecovers`: a replay that did not fail has emptied the file, on such
  evidence for everything handed off. Neither says that the save of that revision was the
  one in the file: see disagreement 5.
* **Save pipeline.** `DatabaseIsOneCut`: a row is the whole character as it stood after
  one of its changes, or as the database first had it.
  `SavedIsDurable`: what the table counts as saved is in the row. `FenceIsTruthful`:
  a fence marked acknowledged or journaled is so at its own revision.
  `ReleasedIsRecoverable`: a character that left is in the row or in a frame that replay
  will apply. `FencesInv`, `TargetRowIsStill`: under a recipient fence no save of the
  player is anywhere, and only the replay touches the row. `NewerMakesUp`: captures of a
  player may overtake each other, and the one overtaken will be refused; whatever it
  carries and the newer one does not is in the row already. `AdmittedIsSaved`: an
  admitted capture, or a newer one, gets to the row. `StopsWithoutLoss`: an orderly
  shutdown, whatever is queued when it begins, ends, and leaves every capture in the
  database or in the journal.
* **Critical commands.** `EffectOnce`: an operation has changed the database exactly once
  if its inbox row is committed and not rejected, and never otherwise, whatever was
  submitted, lost, landed late or restarted. `AnswerIsTrue`: who is told of success or
  rejection is told what the database says. `AcceptanceOrder`: on one entity changes land
  in the order their commands were accepted; the one exception is a COMMIT on a lost
  connection that the server carries out after its command was given up (disagreement 7).
  `TableInv`: an operation in the table has
  exactly one thing that will end it, and a fence names exactly the operations that hold it, the oldest
  first. `AcceptedIsAnswered`: every accepted command is answered, unless the coordinator
  is stopped or the process dies.
* **Maintenance.** `EachZoneOnce`: a run changes a zone at most once, and one that
  was reported complete and changed any has skipped none.
  `StateFileLoads`: init accepts the file whatever moment it was written at.
  `ForgottenIsDelivered`: a result leaves the file only after the game had it.
  `CatalogIsWhole`: the published catalogue has every zone. `SchedulerInv`: the page of a
  job is in one place only. `RunEnds`: a run that began ends.
* **Pool.** `LentToOne`: no connection is used by two threads or after it was closed.
  `Accounted`: a slot is marked exactly while a thread works with its connection, and
  every connection opened is in a slot, with its opener, or closed. `LentIsUsable`: no
  borrower gets a connection whose repair failed, nor any once the loss of the lock was
  confirmed. `ShutdownEnds`: the shutdown does not wait for ever for a borrower.
* **Load pipeline.** `PipelineInv`: every active id, cancellation and result belongs to a
  request still on its way, so nothing fills up. `ClosedIsCancelled`: nothing is loaded
  for a session that closed. `EveryLoadEnds`: a session that waits gets its answer,
  unless the pipeline stops. `ImplementsPool`: loads do to the pool what `PoolSpec` allows.

### Bounds, and why they are enough

* Two components are the least that can be mixed; three revisions give an old, a current
  and a terminal capture of one player; three changes let one fall before, one between
  and one after the two captures of which one overtakes the other. Two queue slots and a writer slot let one capture wait, one travel and one
  be written, and let each limit be reached; the run with fences has two writer slots,
  and so has the writer's own; a pulse budget of one makes every pulse stop early. The players of the pipeline share only slots, so the checks of data use one.
* The journal has two players because a checkpoint of one rewrites the records of the
  other, and room for two records, of the same or of both; one crash lets a player log in
  between the boot and the replay and use a journaled revision again. The theorems
  bound neither records nor crashes.
* The writer's instance needs two owners with different sizes, more admissions than
  slots, and death captures, for every branch of admission.
* `MaxLogins = 1` in the passing runs of the pipeline: with a second login the known
  disagreement below (`save_pipeline_login`) would be the only thing they show. The
  theorems have no such bound: they show that a login that waits for the saves of its
  character is all that is missing.
* Critical commands: two lost connections let a transaction land late while its command is
  tried again and lost again; a cache of one forgets the first operation when the second
  completes; one restart suffices to leave a job of the old coordinator on the writer.
* Maintenance: three zones in pages of two make a full and a partial page, so a run has a
  middle; two runs let a marker of the first meet the second.
* Loads and pool: one slot for three threads makes every acquire compete; a second
  connection is a replacement; three requests let a session close, load again and be
  refused. Safety was also checked, outside the listed runs, with two sessions (687 k
  states) and of the pool alone with three threads, two slots and four connections (166 k).
* Component symmetry is used where no liveness is checked.
* Deadlock checking is off where every bounded counter can be used up or a thread can be
  shut down for good; it is on for the revision table and for maintenance.

### Fairness

* `PlayerSaveWorker!FairSpec`: only that the writer thread runs (weak fairness of its
  steps). `StopEnds` needs no more: the retry wait is woken by the stop.
  `EveryJobLeaves` takes as hypothesis that a write tried again and again is finally
  answered (`OutagesEnd`, strong, because other attempts come between) and that the game
  loop pulses (`GamePulses`).
* `PlayerSavePipeline!FairSpec`: the game loop pulses and leaves its waits, the
  dispatcher and the writer run, an append succeeds when it may (while appends fail for
  ever a shutdown does not end), a write is finally
  answered. No fairness on players' actions, timeouts, failures or crashes.
* `CriticalCommand!FairSpec`: the writer runs, the game loop pulses, the database server
  settles a transaction of a lost connection, and an operation applied again and again is
  finally answered (strong, because losses come between; they are bounded too).
* `MaintenanceScheduler!FairSpec`: the worker runs, a stopped server boots again, and the
  pulse comes with each job due again and again: the scheduler's ticks are periodic.
* `PlayerLoadPipeline!FairSpec`: the loader runs, the game thread goes on with what it is
  in and pulses, each thread goes on inside the pool, and the other borrower gives its
  connection back. Nothing makes sessions select, close or the server stop.

### Disagreements found

With a run each:

1. `save_journal_torn`: a torn append that got past its header is skipped by the length
   it names, which ends inside the next good record; that record is dropped at the next
   compaction although its append had returned ok.
2. `save_pipeline_login`: `player_save_pipeline_load_held` is never called; a link-dead
   character released on its journal record can log in and get the older row.
3. `critical_failure`: when the read that should settle a lost COMMIT fails with an error
   that is not retryable, the caller is told of a terminal failure, which the guide for
   epic stones says rolls everything back, although the COMMIT may have landed.

Met on the way, without a run:

4. Append checks bytes only, while the scan reads at most
   `PLAYER_SAVE_JOURNAL_MAX_RECORDS`. One record too many and every checkpoint and replay
   fails from then on; the writer retries its job for ever. The model's append keeps to
   the limit.
5. "A newer character save does not prove that this death's assets were disposed of. Only
   its own successful application can release it" (`player_save_journal.c:657`). The code
   keeps the first sentence and not the second. After a crash, or while the replay is
   blocked, a player whose death is journaled and not applied can log in, at the row's
   revision, and be saved: that save takes the death's revision, the replay finds the row
   at it, is answered already_applied and drops the death without its disposition. TLC
   refutes the stronger reading, that a death stays until its own application, in ten
   steps. If the row gets past the death's revision instead, the death is stale: it stays
   in the file and blocks this and every later replay.
6. "A single background thread applies every queued save in the order it was captured"
   (`player_save_worker.h`). After a failed append the older capture returns in front of a
   newer one and the next capture replaces the older: captures then travel out of order and
   the database refuses one of them. `save_pipeline` includes this and shows that row and
   fences survive it and why: a capture carries everything unacknowledged (`NewerMakesUp`).
7. "Conflicting key sets execute in acceptance order" (`docs/reference/ARCHITECTURE.md:239`).
   A command whose COMMIT was lost is given up if the read that should settle it fails for
   good, or if the process dies; a later command on the same entity can then commit, and the lost
   COMMIT land behind it. The window is that between the loss and the server noticing it.
8. The comment at `player_save_worker.c:57` ("Each owner has at most one queued job here")
   is stricter than the code and the header, which queue a second one behind other
   owners' jobs or a death.
9. The time of acceptance is part of a command's hash. A command submitted again without
   one, after a restart or once the cache forgot it, gets a new time, does not match its
   own inbox row and is answered with a failure (`EEXIST`) although it was applied.
   `EffectOnce` and `AnswerIsTrue` allow for it: that answer is no claim about the row.
10. Docs describe a journal of critical commands (`critical_command_journal.c`); the
    coordinator does not write it.
11. If the loader thread cannot initialize after requests were accepted, their sessions
    wait until they close; `EveryLoadEnds` excuses a pipeline that stopped.
12. `sql_save_player` inside a transaction of its caller acknowledges its revision before
    that transaction commits. `auction_offer` (`src/economy/auction_houses.c:2065`) is such
    a caller: when its COMMIT fails it gives money and items back, but the other components
    stay acknowledged at a revision the database does not have, and a change to them that
    was pending is not saved until they change again.
13. A maintenance page that fails for good abandons its run midway; the next run starts
    over. `EachZoneOnce` is per run.

## What is proved

The theorems hold for every set of players, components, owners, captures, commands,
keys, jobs, zones, threads and sessions, every limit and every number of failures,
crashes and restarts, under the assumptions named in the component modules and the hypotheses a theorem states. Limits and
sizes are naturals and a pool has a slot. `CriticalCommand` assumes
`MaxOperations =< MaxResults`, as the code's 1024 and 2048 are: a completion then always
has room. `MaintenanceScheduler` assumes that the registry names a job once and that a
page holds a row. `PlayerSaveJournal` assumes that player ids are positive, which
`player_save_journal_checkpoint` insists on.

An invariant that TLC checks is seldom inductive. Each component's inductive invariant
is named here with what it adds and why.

* **Revision table.** `RevisionInvariant`: `Spec => []IInv`. That an acknowledgement
  forgets no mark needs the bounds between the current, queued, in-flight and component
  revisions, and that a failed flight strands nothing needs to know what a re-sealed set
  holds. `IInv` is the conjunction, entry by entry (`EntryInv`), so that each action has
  one entry to argue about. `RevisionsNeverStranded`, `MarksNeverLost`,
  `SettledEntriesAreCurrent` and `RevisionMonotone` follow.
* **Writer.** `WorkerInvariant`: `Spec => []IInv`, with the limits, the order of
  completions, flight and queue in one chain of admission times, the index, and what each
  stage of the writer holds. Slots need the stage (a completion is added exactly when the
  flight empties), order needs that all times are behind the clock, the index needs the
  order (its entry is at the front exactly if it names the job taken).
  `WorkerKeepsItsLimits`, `WorkerKeepsCaptureOrder` and `WorkerPendingIsExact` restate
  what clients rely on; `WorkerWritesInOrder` and `WorkerKeepsInflight` prove the action
  properties from the chain. `WorkerBytesExact`: the byte count is a sum over the queue,
  which no proof can compute; `Summed` says instead that a function of prefix sums exists
  that ends in the count, and each step extends, cuts or shifts it.
  `WorkerImplementsWriter`: the refinement of `SaveWriter`, one step of the writer at a
  time. The mapping is `Pending`, `Taken` and `Completions`: the flight in front of the
  queue, and the reports.
* **Journal.** `HandedOffIsKept` proves `JournalInv` and `ReplayRecoversAll` the action
  property `ReplayRecovers`, both under the hypothesis `"long" \notin Leavings`: with a
  record that reaches into the next they are false (finding 1). Inductive is `IInv`. A
  save handed off is durable or in a *synced* record (`HandedOff`), or a crash could take
  it. A checkpoint releases by a revision it is given, so every revision it may be given
  later, by the writer or by the replay, must already be evidence (`Evidence`): a save at
  exactly that revision was committed. It cannot say that this was the save in the file,
  since logins before the replay use revisions again (disagreement 5). `Replaying` says
  what a replay has still to do: a whole record is still to be replayed, or is no death and is covered
  by what the replay saw; that the writer is idle until then (`Idle`) keeps it so.
* **Save pipeline.** `Typed` is the type invariant, with what each wait of the game
  thread may hold. `TargetFenceHolds` proves `FencesInv`; inductive is `Fenced`, by which
  the player of a recipient fence is also offline, so that nothing can mark or capture,
  and has no capture in the queues, in flight, with the writer or in its completions.
  `TargetRowStaysStill` follows: what the writer applies was captured.
  `FencesTellTheTruth` proves `FenceIsTruthful`; inductive is `Truthful`: reports that
  claim success name a revision the row has, captures past the journal are in it or in
  the row, and what the replay has applied is in the row. It rests on
  `NothingIsDroppedEarly`: no step takes a row back, and a frame leaves the journal only
  if the row makes up for it. `ShutdownKeepsSaves` is the safety half of
  `StopsWithoutLoss`; it needs `Quiet`, that once the dispatcher has left nothing waits
  for the journal any more.

  The others are about the data, and a login that does not wait (finding 2) breaks
  the argument: with the constants of `save_pipeline_login` TLC refutes `SavedIsDurable`
  and `ReleasedIsRecoverable`, while `DatabaseIsOneCut` and `NewerMakesUp` survive that
  small instance. Their hypothesis is `LoadsWait`: at a login none of the character's
  saves, queued or journaled, is newer than the row. It is the wait that
  `player_save_pipeline.h` promises and no caller performs, and for the journal as well.
  Under it `SavedStaysDurable`, `RowsAreOneCut`, `OvertakenIsMadeUpFor` and
  `ReleasedStaysRecoverable` prove `SavedIsDurable`, `DatabaseIsOneCut`, `NewerMakesUp`
  and `ReleasedIsRecoverable` for any number of players, logins,
  failed appends and writes, lost answers, synchronous saves, crashes and stops;
  and `WaitingLoginSeesReleased` proves the very property that `save_pipeline_login`
  refutes without it. The hypothesis can be met: `LoadsWaitWithoutRestarts` shows that it
  holds by itself, for any number of logins, where
  characters do not leave on journal records and the server does not go down;
  `SoundWithoutRestarts` draws the conclusion.

  None of these is inductive. `Faithful` is; it says of each player (`Sound`):
  `Knows`, that a component counted as saved was last marked no later than the
  acknowledged revision; `Fits`, that a save the row does not have yet carries the current
  value of every component not marked since, or leaves the component to a row that has
  it; `OneCut`, that every such save, laid over the row or over the saves before it,
  completes to one moment; and `LetGo`, that a character let go is in the row with nothing
  newer on its way, or whole in a frame that nothing newer can overtake. `FenceWaits` adds
  that the player the game waits for is still as it was when the fence was marked, so that
  what the fence secures is what is released. Captures put back, coalesced, applied twice
  or replayed keep these because the facts are about the *set* of a player's saves,
  wherever they are and in whatever order; `NewerMakesUp` follows from
  `OneCut`.
* **Critical commands.** `EffectsAreExactlyOnce`: `Spec => []EffectOnce`. Inductive with
  one more fact: an operation with a transaction in limbo has no committed row, and only
  one such transaction exists, because a second attempt cannot get past the first one's
  row lock. `ChangesLandInOrder` proves the action property `AcceptanceOrder` from
  `OrderInv`: jobs are queued in the order of acceptance, and nothing that has landed or is
  in limbo is newer than a command still queued; so only a transaction whose command is
  queued no more can land behind a newer change. `TableIsInOrder` proves `TableInv`
  with `TabInv`, which says of every operation which job, flight or delivery will end it,
  of which generation, and of the fences that they are in the order of acceptance.
  `AnswersAreTrue` proves `AnswerIsTrue`; inductive is `Told`: every answer on its way, in
  the stage of `execute`, the delivery, a retained operation or the cache, agrees with the
  inbox already.
* **Maintenance.** `MaintenanceIsInductive`: `Spec => [](Typed /\ IInv)`, from which
  `StateFileAlwaysLoads`, `ZonesChangeOnce`, `NothingForgottenEarly`,
  `CatalogAlwaysWhole` and `JobsHaveOneOwner` follow. `IInv` says what an entry of the
  state may be, the same in memory, in the copy being written and on disk (`EntryOK`): a
  run whose zones are changed exactly up to its cursor, and those of the page at the
  cursor exactly if the marker names that page (`Progress`); with a request for that page,
  and an answer only next to the request. No property can be proved without the others:
  that a page is not repeated needs the marker, the marker needs that works are handed out
  once (`Distinct`, `Fresh`), that a retired run is ended once needs that its result is on
  disk as it was handed out (`Handed`), and that needs that a job is in one place
  (`Alone`, `Present`). A pulse is proved in two halves: what the results make of the jobs
  (`Drains`), and what is then submitted (`Submits`).
* **Pool.** `ConnectionsAreExclusive`, `PoolIsAccountedFor`, `LentConnectionsAreUsable`.
  Their common invariant `Lending` says of the four places a connection can be in (a slot,
  its borrower, the thread that opened it as a replacement, closed) how they exclude each
  other: exclusiveness needs that marks belong to borrowers, which needs that slots hold
  different connections, which needs that a replacement is in no slot before its swap.
* **Load pipeline.** `LoadsUseThePool`: every step of the load pipeline is a step of the
  pool or leaves it alone, so the pool's theorems carry over (`LoadsAreExclusive`).
  `NoRequestLeaks` proves `PipelineInv` and `ClosedNeverLoads` proves `ClosedIsCancelled`,
  both from `LoadInv`: queue, loader and results hold different requests, which together
  are the active ones, a closed session's request is marked or its result a cancellation,
  and no session waits for a request of another.

Only model-checked, and why:

* Liveness (`StopEnds`, `EveryJobLeaves`, `AdmittedIsSaved`, the first half of
  `StopsWithoutLoss`, `AcceptedIsAnswered`, `RunEnds`, `EveryLoadEnds`, `ShutdownEnds`) is
  out of the prover's reach.
* What a sum or a selection over a whole sequence computes is defined by recursion and
  cannot be proved by induction here; the proofs use it through functions of prefix sums
  and ranks instead.

## Not modelled

SQL of the components, item custody and its recapture (with the memory that limits it to
one per player), the fallback for a missing row, enclosing transactions of the synchronous
save, retained-byte accounting and exhaustion of fence slots of the save pipeline; what each kind of critical command changes, and the outbox that delivers its
messages; the SQL of the other maintenance jobs and a worker thread that cannot initialize;
locker and older queues, copyover's hand-over (its drain waits on the outbox's cached
count), Redis, flat files, network and game rules. The revision table's begin_inflight,
acknowledge and fail_inflight are modelled although only its tests call them: they are part
of its interface. The game content, most of the repository's lines, is sequential code over
a large object graph; a model of it would restate it. `PROJECT.json` gives the reason for
each part.

## Plan

Every safety property that a passing run checks is proved. Left to model:

1. The save pipeline: slot exhaustion of fences with two players, the synchronous save
   inside a caller's transaction that rolls back.
2. `CriticalOutbox`: delivery of committed rows, at least once and in order, composed with
   `CriticalCommand`; then death restitution as the holder of recipient fences.
3. `LockerAsync` as a further client of the writer; the login of `PlayerSavePipeline` in
   the steps of `PlayerLoadPipeline`.
