--------------------------- MODULE CriticalCommand ---------------------------
(***************************************************************************)
(* Critical commands: the operation table and entity fences of             *)
(* persistence/critical_command_coordinator.c, the transaction of          *)
(* critical_command_repository.c and the persistence writer between them.  *)
(* The game thread submits commands and consumes their completions; the    *)
(* writer thread applies them one at a time and retries a lost connection  *)
(* before anything queued behind.  Nothing of a command is on disk before  *)
(* its transaction commits: a crash loses what is queued, and a caller may *)
(* submit the same operation again.                                        *)
(*                                                                         *)
(* A command is its operation id, its entity keys, its content and the     *)
(* time of its acceptance, which submit fills in when the caller left it   *)
(* out and which is part of the command's hash.  An operation is the       *)
(* command it executes.                                                    *)
(***************************************************************************)
EXTENDS Integers, Sequences, SequencesExt, FiniteSets, Subsequences

CONSTANTS
  Ids,            \* operation ids
  Keys,           \* entity keys
  Commands,       \* what may be submitted: records with id, keys, body and stamp
  Retained,       \* ids whose caller submits for publication
  MaxOperations,  \* CRITICAL_COORDINATOR_MAX_OPERATIONS
  MaxResults,     \* CRITICAL_COORDINATOR_MAX_RESULTS
  MaxCompleted,   \* CRITICAL_COORDINATOR_COMPLETED_CACHE_MAX
  MaxJobs,        \* PLAYER_SAVE_WORKER_MAX_PENDING_JOBS
  MaxSubmits,     \* bound on submissions
  MaxLosses,      \* bound on connections lost at COMMIT
  MaxRestarts     \* bound on coordinator restarts and on crashes

Command == [id : Ids, keys : SUBSET Keys, body : Nat, stamp : Int]

ASSUME CommandAssumption == Commands \subseteq Command

ASSUME BoundAssumption ==
  /\ MaxOperations \in Nat /\ MaxResults \in Nat /\ MaxCompleted \in Nat \ {0}
  /\ MaxOperations =< MaxResults
  /\ MaxJobs \in Nat /\ MaxSubmits \in Nat /\ MaxLosses \in Nat /\ MaxRestarts \in Nat

VARIABLES
  initialized,  \* health.initialized
  accepting,    \* health.accepting
  generation,
  sequence,     \* writer_sequence, and the clock that stamps commands
  operations,   \* id -> its operation_state, or NoOperation
  fences,       \* key -> ids, oldest first
  delivery,     \* completion_delivery
  completed,    \* completed_order and completed_cache: the oldest first
  jobs, taken, consumable, open,  \* the persistence writer, see SaveWriter
  stage,        \* where the writer thread is in its job
  result,       \* the local `applied` of execute
  inbox,        \* critical_operation_inbox: id -> committed row, or NoRow
  limbo,        \* transactions whose COMMIT was sent on a connection now lost
  losses, restarts,
  effects,      \* history: id -> how often its change was committed
  landed,       \* history: key -> the last operation whose change to it was committed
  reported      \* history: answers the game thread was given

coordinator == <<initialized, accepting, generation, operations, fences, delivery, completed>>
writer == <<jobs, taken, consumable, open>>
database == <<inbox, limbo, effects, landed>>
vars == <<coordinator, sequence, writer, stage, result, database, losses, restarts, reported>>

Writer == INSTANCE SaveWriter WITH
  Captures <- {}, Reports <- {}, pending <- jobs, completions <- consumable

NoOperation == [command |-> "none"]
NoRow == [command |-> "none"]

(***************************************************************************)
(* enum critical_apply_outcome.  A terminal failure is "rejected" when it  *)
(* is the stored result of a committed row, "failed" otherwise.            *)
(***************************************************************************)
Succeeded == {"applied", "already_applied"}
Answers == Succeeded \cup {"rejected", "failed"}
Lost == {"retryable_failure", "ambiguous_commit"}

Active == {id \in Ids : operations[id] # NoOperation}

Init ==
  /\ initialized = TRUE /\ accepting = TRUE
  /\ generation = 1
  /\ sequence = 0
  /\ operations = [id \in Ids |-> NoOperation]
  /\ fences = [k \in Keys |-> <<>>]
  /\ delivery = <<>> /\ completed = <<>>
  /\ jobs = <<>> /\ taken = FALSE /\ consumable = <<>> /\ open = TRUE
  /\ stage = "idle" /\ result = "applied"
  /\ inbox = [id \in Ids |-> NoRow]
  /\ limbo = {}
  /\ losses = 0 /\ restarts = 0
  /\ effects = [id \in Ids |-> 0]
  /\ landed = [k \in Keys |-> 0]
  /\ reported = {}

-----------------------------------------------------------------------------
(***************************************************************************)
(* submit_command.                                                         *)
(***************************************************************************)
\* critical_command_equal, after a missing acceptance time was copied
SameCommand(stored, c) ==
  stored = [c EXCEPT !.stamp = IF c.stamp = 0 THEN stored.stamp ELSE c.stamp]

Stamped(c) == [c EXCEPT !.stamp = IF @ = 0 THEN sequence + 1 ELSE @]

CachedIndexes(id) == {i \in 1 .. Len(completed) : completed[i].command.id = id}

AddFences(c) == [k \in Keys |-> IF k \in c.keys THEN Append(fences[k], c.id) ELSE fences[k]]

HasRoom == Cardinality(Active) < MaxOperations

\* reserve_locked and queue_on_writer.  The game thread is the only one to look at the
\* table in between, and a writer that refuses leaves everything as it was.
Submit(c) ==
  /\ initialized /\ accepting /\ sequence < MaxSubmits
  /\ CachedIndexes(c.id) = {} /\ c.id \notin Active
  /\ HasRoom
  /\ sequence' = sequence + 1
  /\ operations' = [operations EXCEPT ![c.id] =
       [command |-> Stamped(c), number |-> sequence', pending |-> FALSE, answer |-> "none"]]
  /\ fences' = AddFences(c)
  /\ Writer!Put([owner |-> sequence', death |-> FALSE, command |-> Stamped(c),
                 generation |-> generation])
  /\ UNCHANGED <<initialized, accepting, generation, delivery, completed, stage, result,
                 database, losses, restarts, reported>>

\* A submission that attaches to a finished operation, and
\* critical_command_coordinator_get_completed with which its caller reads the answer.
Attach(c) ==
  /\ initialized /\ accepting
  /\ \/ \E i \in CachedIndexes(c.id) :
          /\ SameCommand(completed[i].command, c)
          /\ reported' = reported \cup {[command |-> c, answer |-> completed[i].answer]}
     \/ /\ CachedIndexes(c.id) = {} /\ c.id \in Active
        /\ operations[c.id].pending
        /\ SameCommand(operations[c.id].command, c)
        /\ reported' = reported \cup {[command |-> c, answer |-> operations[c.id].answer]}
  /\ UNCHANGED <<coordinator, sequence, writer, stage, result, database, losses, restarts>>

-----------------------------------------------------------------------------
(***************************************************************************)
(* critical_command_repository_apply on the writer thread.  A transaction  *)
(* in limbo still holds its inbox row: one that inserts the same id waits  *)
(* and gives up.  What other rows it holds depends on the kind of command, *)
(* and need not keep another on the same entity away.                      *)
(***************************************************************************)
Current == Head(jobs).command

TakeJob ==
  /\ stage = "idle"
  /\ Writer!Take
  /\ stage' = "applying"
  /\ UNCHANGED <<coordinator, sequence, result, database, losses, restarts, reported>>

Answered(o) == stage' = "applied" /\ result' = o

LockedByLimbo(c) == \E t \in limbo : t.command.id = c.id

Settle(c, number, rejected) ==
  /\ inbox' = [inbox EXCEPT ![c.id] = [command |-> c, rejected |-> rejected]]
  /\ effects' = [effects EXCEPT ![c.id] = IF rejected THEN @ ELSE @ + 1]
  /\ landed' = [k \in Keys |-> IF k \in c.keys /\ ~rejected THEN number ELSE landed[k]]

\* Any statement may fail, and the transaction with it.
ApplyFails(o) ==
  /\ stage = "applying"
  /\ o \in {"retryable_failure", "failed"}
  /\ Answered(o)
  /\ UNCHANGED <<coordinator, sequence, writer, database, losses, restarts, reported>>

FaultStored(row, c) == IF row.rejected THEN "rejected" ELSE "already_applied"

\* identity_matches and stored_result
Stored(row, c) ==
  IF row.command # c THEN "failed"
  ELSE IF row.rejected THEN "rejected" ELSE "already_applied"

FaultDuplicate(c) == FALSE

Duplicate(c) == inbox[c.id] # NoRow

ApplyDuplicate ==
  /\ stage = "applying" /\ Duplicate(Current)
  /\ Answered(Stored(inbox[Current.id], Current))
  /\ UNCHANGED <<coordinator, sequence, writer, database, losses, restarts, reported>>

\* The inbox row, the change and its outbox row are committed together.
ApplyCommits(rejected) ==
  /\ stage = "applying"
  /\ ~Duplicate(Current) /\ ~LockedByLimbo(Current)
  /\ Settle(Current, Head(jobs).owner, rejected)
  /\ Answered(IF rejected THEN "rejected" ELSE "applied")
  /\ UNCHANGED <<coordinator, sequence, writer, limbo, losses, restarts, reported>>

\* The connection is lost at COMMIT: the server may commit or roll back, now or later.
ApplyAmbiguous(rejected) ==
  /\ stage = "applying" /\ losses < MaxLosses
  /\ ~Duplicate(Current) /\ ~LockedByLimbo(Current)
  /\ limbo' = limbo \cup {[command |-> Current, number |-> Head(jobs).owner,
                           rejected |-> rejected]}
  /\ losses' = losses + 1
  /\ stage' = "reconciling"
  /\ UNCHANGED <<coordinator, sequence, writer, result, inbox, effects, landed, restarts,
                 reported>>

LimboCommits(t) ==
  /\ Settle(t.command, t.number, t.rejected)
  /\ limbo' = limbo \ {t}
  /\ UNCHANGED <<coordinator, sequence, writer, stage, result, losses, restarts, reported>>

LimboRollsBack(t) ==
  /\ limbo' = limbo \ {t}
  /\ UNCHANGED <<coordinator, sequence, writer, stage, result, inbox, effects, landed,
                 losses, restarts, reported>>

\* An operation the inbox does not hold is applied again, under the same id.
NotFound == "retryable_failure"

\* critical_command_repository_reconcile on a new connection: o is what a read that
\* fails is taken for, and ambiguous_commit when there is no new connection.
Reconcile(o) ==
  /\ stage = "reconciling"
  /\ Answered(IF o # "none" THEN o
              ELSE IF Duplicate(Current) THEN Stored(inbox[Current.id], Current)
              ELSE NotFound)
  /\ UNCHANGED <<coordinator, sequence, writer, database, losses, restarts, reported>>

ReconcileFailures == {"ambiguous_commit", "retryable_failure", "failed"}

-----------------------------------------------------------------------------
(***************************************************************************)
(* execute and writer_main after the transaction.                          *)
(***************************************************************************)
\* A retry that queues the command again, behind the others.
FaultRetry ==
  /\ stage = "applied" /\ result \in Lost
  /\ jobs' = Append(Tail(jobs), Head(jobs)) /\ taken' = FALSE
  /\ stage' = "idle" /\ result' = "applied"
  /\ UNCHANGED <<coordinator, sequence, consumable, open, database, losses, restarts,
                 reported>>

Retry ==
  /\ stage = "applied" /\ result \in Lost
  /\ stage' = "applying" /\ result' = "applied"
  /\ UNCHANGED <<coordinator, sequence, writer, database, losses, restarts, reported>>

FaultForThisCoordinator == initialized

ForThisCoordinator == initialized /\ Head(jobs).generation = generation

Deliver ==
  /\ stage = "applied" /\ result \in Answers
  /\ delivery' = IF ForThisCoordinator /\ Len(delivery) < MaxResults
                 THEN Append(delivery, [id |-> Current.id, answer |-> result])
                 ELSE delivery
  /\ stage' = "delivered"
  /\ UNCHANGED <<initialized, accepting, generation, operations, fences, completed, sequence,
                 writer, result, database, losses, restarts, reported>>

FinishJob ==
  /\ stage = "delivered"
  /\ Writer!Finish("applied")
  /\ stage' = "idle" /\ result' = "applied"
  /\ UNCHANGED <<coordinator, sequence, database, losses, restarts, reported>>

\* player_save_worker_pulse: the completion of a critical job only frees its slot.
ConsumeJobs ==
  /\ Writer!Consume(Len(consumable))
  /\ UNCHANGED <<coordinator, sequence, stage, result, database, losses, restarts, reported>>

-----------------------------------------------------------------------------
(***************************************************************************)
(* critical_command_coordinator_pulse, also called by _drain, and          *)
(* _acknowledge_publication, on the game thread.                           *)
(***************************************************************************)
RemoveFences(ids) ==
  [k \in Keys |-> Kept(fences[k], {i \in DOMAIN fences[k] : fences[k][i] \notin ids})]

\* remember_completed, of several operations one after the other
Remembered(entries) == LastOf(completed \o entries, MaxCompleted)

KeepsFence(id) == id \in Retained

FaultFresh(i) == i = 1 /\ delivery[i].id \in Active /\ ~operations[delivery[i].id].pending

\* Whether the i-th completion is for an operation that waits for it
Fresh(i) ==
  LET id == delivery[i].id
  IN  /\ id \in Active /\ ~operations[id].pending
      /\ ~\E j \in 1 .. i - 1 : delivery[j].id = id

\* What becomes of operation id when the completions in fresh are taken
AfterPulse(id, fresh) ==
  IF ~\E i \in fresh : delivery[i].id = id THEN operations[id]
  ELSE IF KeepsFence(id)
       THEN [operations[id] EXCEPT
               !.pending = TRUE,
               !.answer = delivery[CHOOSE i \in fresh : delivery[i].id = id].answer]
       ELSE NoOperation

Entry(i) == [command |-> operations[delivery[i].id].command, answer |-> delivery[i].answer]

\* The first n completions.  The caller takes 64 in a pulse, and one whose key cannot be
\* allocated stays, with those behind it, for the next.
PulseTakes(n) ==
  LET fresh == {i \in 1 .. n : Fresh(i)}
      ended == {i \in fresh : ~KeepsFence(delivery[i].id)}
  IN  /\ delivery' = SubSeq(delivery, n + 1, Len(delivery))
      /\ operations' = [id \in Ids |-> AfterPulse(id, fresh)]
      /\ fences' = RemoveFences({delivery[i].id : i \in ended})
      /\ completed' = Remembered(Kept([i \in 1 .. n |-> Entry(i)], ended))
      /\ reported' = reported \cup {Entry(i) : i \in fresh}

Pulse ==
  /\ \E n \in 1 .. Len(delivery) : PulseTakes(n)
  /\ UNCHANGED <<initialized, accepting, generation, sequence, writer, stage, result,
                 database, losses, restarts>>

Acknowledge(id) ==
  /\ id \in Active /\ operations[id].pending
  /\ completed' = Remembered(<<[command |-> operations[id].command,
                                answer |-> operations[id].answer]>>)
  /\ fences' = RemoveFences({id})
  /\ operations' = [operations EXCEPT ![id] = NoOperation]
  /\ UNCHANGED <<initialized, accepting, generation, delivery, sequence, writer, stage, result,
                 database, losses, restarts, reported>>

SetAccepting(on) ==
  /\ initialized /\ accepting # on
  /\ accepting' = on
  /\ UNCHANGED <<initialized, generation, operations, fences, delivery, completed, sequence,
                 writer, stage, result, database, losses, restarts, reported>>

ClearCoordinator ==
  /\ operations' = [id \in Ids |-> NoOperation]
  /\ fences' = [k \in Keys |-> <<>>]
  /\ delivery' = <<>> /\ completed' = <<>>

\* critical_command_coordinator_shutdown; jobs already queued still land.
Shutdown ==
  /\ initialized /\ restarts < MaxRestarts
  /\ ClearCoordinator
  /\ initialized' = FALSE /\ accepting' = FALSE
  /\ generation' = generation + 1
  /\ restarts' = restarts + 1
  /\ UNCHANGED <<sequence, writer, stage, result, database, losses, reported>>

\* critical_command_coordinator_init
Initialize ==
  /\ ~initialized
  /\ ClearCoordinator
  /\ initialized' = TRUE /\ accepting' = TRUE
  /\ generation' = generation + 1
  /\ UNCHANGED <<sequence, writer, stage, result, database, losses, restarts, reported>>

\* The process dies and starts again; only the database is left.
Crash ==
  /\ restarts < MaxRestarts
  /\ ClearCoordinator
  /\ initialized' = TRUE /\ accepting' = TRUE
  /\ generation' = 1
  /\ jobs' = <<>> /\ taken' = FALSE /\ consumable' = <<>> /\ open' = TRUE
  /\ stage' = "idle" /\ result' = "applied"
  /\ restarts' = restarts + 1
  /\ UNCHANGED <<sequence, database, losses, reported>>

Next ==
  \/ \E c \in Commands : Submit(c) \/ Attach(c)
  \/ TakeJob
  \/ \E o \in {"retryable_failure", "failed"} : ApplyFails(o)
  \/ ApplyDuplicate
  \/ \E rejected \in BOOLEAN : ApplyCommits(rejected) \/ ApplyAmbiguous(rejected)
  \/ \E t \in limbo : LimboCommits(t) \/ LimboRollsBack(t)
  \/ \E o \in ReconcileFailures \cup {"none"} : Reconcile(o)
  \/ Retry
  \/ Deliver
  \/ FinishJob
  \/ ConsumeJobs
  \/ Pulse
  \/ \E id \in Ids : Acknowledge(id)
  \/ \E on \in BOOLEAN : SetAccepting(on)
  \/ Shutdown
  \/ Initialize
  \/ Crash

Spec == Init /\ [][Next]_vars

\* The writer thread and the game loop keep running, the server ends a transaction whose
\* connection is gone, and an outage ends: a command tried again and again finally gets a
\* definite answer.
ApplyAnswers ==
  ApplyFails("failed") \/ ApplyDuplicate \/ \E rejected \in BOOLEAN : ApplyCommits(rejected)

ApplyAny ==
  \/ \E o \in {"retryable_failure", "failed"} : ApplyFails(o)
  \/ ApplyAnswers
  \/ \E rejected \in BOOLEAN : ApplyAmbiguous(rejected)

Fairness ==
  /\ WF_vars(TakeJob)
  /\ WF_vars(ApplyAny)
  /\ SF_vars(ApplyAnswers)
  /\ WF_vars(\E o \in ReconcileFailures \cup {"none"} : Reconcile(o))
  /\ WF_vars(Retry)
  /\ WF_vars(Deliver)
  /\ WF_vars(FinishJob)
  /\ WF_vars(\E t \in limbo : LimboCommits(t) \/ LimboRollsBack(t))
  /\ WF_vars(Pulse)

FairSpec == Spec /\ Fairness
-----------------------------------------------------------------------------
Answer == [command : Command, answer : Answers]
Job == [owner : 1 .. MaxSubmits, death : {FALSE}, command : Command,
        generation : 1 .. 2 * MaxRestarts + 1]

TypeOK ==
  /\ initialized \in BOOLEAN /\ accepting \in BOOLEAN
  /\ generation \in 1 .. 2 * MaxRestarts + 1
  /\ sequence \in 0 .. MaxSubmits
  /\ operations \in [Ids -> {NoOperation} \cup
       [command : Command, number : 1 .. MaxSubmits, pending : BOOLEAN,
        answer : Answers \cup {"none"}]]
  /\ fences \in [Keys -> Seq(Ids)]
  /\ delivery \in Seq([id : Ids, answer : Answers])
  /\ completed \in Seq(Answer) /\ Len(completed) <= MaxCompleted
  /\ jobs \in Seq(Job) /\ taken \in BOOLEAN /\ open \in BOOLEAN
  /\ consumable \in Seq([capture : Job, outcome : {"applied"}])
  /\ stage \in {"idle", "applying", "reconciling", "applied", "delivered"}
  /\ result \in Answers \cup Lost
  /\ inbox \in [Ids -> {NoRow} \cup [command : Command, rejected : BOOLEAN]]
  /\ limbo \subseteq [command : Command, number : 1 .. MaxSubmits, rejected : BOOLEAN]
  /\ losses \in 0 .. MaxLosses /\ restarts \in 0 .. MaxRestarts
  /\ effects \in [Ids -> Nat]
  /\ landed \in [Keys -> 0 .. MaxSubmits]
  /\ reported \subseteq Answer

(***************************************************************************)
(* An operation changes the database at most once, and exactly when its    *)
(* inbox row was committed without a rejection: through retries, a COMMIT  *)
(* that lands after its connection was lost, crashes and submissions of    *)
(* the same id again (critical_command_repository_apply).                  *)
(***************************************************************************)
EffectOnce ==
  \A id \in Ids :
    effects[id] = IF inbox[id] # NoRow /\ ~inbox[id].rejected THEN 1 ELSE 0

(***************************************************************************)
(* A caller told that its command succeeded, or was rejected, was told so  *)
(* of this very command, and the database agrees; another command under    *)
(* the same id never gets its answer (identity_matches and                 *)
(* critical_command_equal).                                                *)
(***************************************************************************)
AnswerIsTrue ==
  \A a \in reported :
    a.answer # "failed" =>
      LET row == inbox[a.command.id]
      IN  /\ row # NoRow
          /\ SameCommand(row.command, a.command)
          /\ row.rejected <=> a.answer = "rejected"

(***************************************************************************)
(* Every operation in the table has exactly one thing that will end it: a  *)
(* job of this coordinator that has not delivered, a completion not yet    *)
(* pulsed, or the publication its caller owes.  None is left without, and  *)
(* none is ended by the job of an earlier coordinator.                     *)
(***************************************************************************)
Undelivered ==
  {i \in 1 .. Len(jobs) : jobs[i].generation = generation /\ (i = 1 => stage # "delivered")}

OneAnswerPending ==
  initialized =>
    \A id \in Ids :
      LET waiting == {i \in Undelivered : jobs[i].command.id = id}
          answers == {i \in 1 .. Len(delivery) : delivery[i].id = id}
          owed == id \in Active /\ operations[id].pending
      IN  Cardinality(waiting) + Cardinality(answers) + (IF owed THEN 1 ELSE 0)
            = IF id \in Active THEN 1 ELSE 0

(***************************************************************************)
(* The fences of a key name exactly the operations in the table that       *)
(* affect it, in the order of their acceptance, so that the one            *)
(* critical_command_coordinator_is_fenced names is the oldest.             *)
(***************************************************************************)
FencesName ==
  \A k \in Keys :
    /\ Range(fences[k]) = {id \in Active : k \in operations[id].command.keys}
    /\ \A i, j \in 1 .. Len(fences[k]) :
         i < j => operations[fences[k][i]].number < operations[fences[k][j]].number

(***************************************************************************)
(* The operation table is in order: its variables have their types, every  *)
(* operation has the one thing that will end it, and the fences name it.   *)
(* The retries and restarts of execute, pulse and init keep it so.         *)
(***************************************************************************)
TableInv == TypeOK /\ OneAnswerPending /\ FencesName

(***************************************************************************)
(* While the writer has a command in hand, through whatever connections it *)
(* loses and retries it makes, no later one on the same entity takes       *)
(* effect before it (writer_main).  A change lands behind a later one only *)
(* as a COMMIT on a lost connection that the server carries out after the  *)
(* command was given up: answered with a failure, or lost in a crash.      *)
(***************************************************************************)
GivenUp(t) == \A i \in 1 .. Len(jobs) : jobs[i].owner # t.number

AcceptanceOrder ==
  [][\A k \in Keys :
       landed'[k] < landed[k] =>
         \E t \in limbo \ limbo' : k \in t.command.keys /\ GivenUp(t)]_vars

(***************************************************************************)
(* Every accepted command is answered, unless the coordinator goes down:   *)
(* its fence does not stay behind a retry, a lost connection, an older     *)
(* coordinator's job or a full queue.                                      *)
(***************************************************************************)
AcceptedIsAnswered ==
  \A id \in Ids :
    (id \in Active /\ ~operations[id].pending) ~> (id \in Active => operations[id].pending)

(***************************************************************************)
(* docs/guides/epic-stone-recovery.md: "A terminal failure rolls back the  *)
(* entire reward."                                                         *)
(***************************************************************************)
FailureRollsBack ==
  \A a \in reported :
    a.answer = "failed" =>
      ~(inbox[a.command.id] # NoRow /\ SameCommand(inbox[a.command.id].command, a.command)
        /\ effects[a.command.id] > 0)
=============================================================================
