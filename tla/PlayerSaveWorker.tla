-------------------------- MODULE PlayerSaveWorker --------------------------
(***************************************************************************)
(* The one persistence writer, player/player_save_worker.c.  The game      *)
(* thread submits captures and consumes completions; one background thread *)
(* takes jobs in capture order, writes each, retries a lost connection at  *)
(* the head of the queue and delivers a completion.  Each critical section *)
(* of worker_mutex is one action, and so is each call the writer makes     *)
(* outside it.                                                             *)
(*                                                                         *)
(* A job is a capture with the time it was admitted (queued_at_usec), a    *)
(* logical clock here.  An iterator of queued_by_owner is represented by   *)
(* the admission time of the job it points at, and is 0 when absent.       *)
(***************************************************************************)
EXTENDS Integers, Sequences, SequencesExt

CONSTANTS
  Owners,    \* (kind, owner) pairs
  Players,   \* the owners of kind player, whose saves are journaled
  Captures,  \* what may be submitted: records with owner, death and bytes
  MaxJobs,   \* PLAYER_SAVE_WORKER_MAX_PENDING_JOBS
  MaxBytes,  \* PLAYER_SAVE_WORKER_MAX_PENDING_BYTES
  MaxClock   \* bound on submissions

ASSUME LimitAssumption == MaxJobs \in Nat /\ MaxBytes \in Nat /\ MaxClock \in Nat

ASSUME CaptureAssumption == \A c \in Captures : c.owner \in Owners /\ c.bytes \in Nat

VARIABLES
  clock,            \* the last admission time handed out
  queue,            \* queued jobs, in capture order
  queued_by_owner,  \* owner -> the newest queued job of that owner
  queued_bytes,
  inflight,         \* a sequence of at most one job: std::optional<queued_job>
  stage,            \* where the writer thread is
  outcome,          \* the local `applied` of writer_main, of the job in flight
  results,          \* completion_queue: completions not yet consumed
  running,          \* health.running
  stop_requested,
  written           \* history: admission time of the last job whose write took effect

vars == <<clock, queue, queued_by_owner, queued_bytes, inflight, stage, outcome,
          results, running, stop_requested, written>>

Clock == 0 .. MaxClock

Succeeded == {"applied", "already_applied", "stale_revision"}
ConnectionLost == {"retryable_failure", "ambiguous_commit"}
Outcomes == Succeeded \cup ConnectionLost \cup {"terminal_failure"}

\* struct queued_job and struct player_save_completion
Job == [capture : Captures, at : Clock]
Completion == [capture : Captures, at : Clock, outcome : Outcomes]

\* The writer thread: not started, waiting for a job, writing it, acknowledging it
\* in the journal, waiting to retry, completing it, past its loop, gone.
Stages == {"none", "waiting", "writing", "acking", "retrying", "completing", "leaving", "exited"}

Init ==
  /\ clock = 0
  /\ queue = <<>>
  /\ queued_by_owner = [o \in Owners |-> 0]
  /\ queued_bytes = 0
  /\ inflight = <<>>
  /\ stage = "none"
  /\ outcome = "applied"
  /\ results = <<>>
  /\ running = FALSE
  /\ stop_requested = FALSE
  /\ written = 0

-----------------------------------------------------------------------------
(***************************************************************************)
(* player_save_worker_init; the pipeline starts the worker once.           *)
(***************************************************************************)
WorkerInit ==
  /\ ~running /\ stage = "none" /\ ~stop_requested
  /\ running' = TRUE
  /\ stage' = "waiting"
  /\ UNCHANGED <<clock, queue, queued_by_owner, queued_bytes, inflight, outcome,
                 results, stop_requested, written>>

(***************************************************************************)
(* enqueue.  A job that finds its owner's newest job at the tail replaces  *)
(* it, unless one of the two is a death; any other is queued behind.       *)
(***************************************************************************)
FaultReplacesDeath(c) ==
  queue # <<>> /\ queued_by_owner[c.owner] = Last(queue).at

ReplacesTail(c) ==
  /\ queue # <<>>
  /\ queued_by_owner[c.owner] = Last(queue).at
  /\ ~c.death /\ ~Last(queue).capture.death

InflightBytes == IF inflight = <<>> THEN 0 ELSE Head(inflight).capture.bytes

Fits(c, replaced_bytes) ==
  queued_bytes + InflightBytes - replaced_bytes + c.bytes <= MaxBytes

HasSlot == Len(queue) + Len(inflight) + Len(results) < MaxJobs

FaultBytesAfter(c, replaced_bytes) == queued_bytes + c.bytes

BytesAfter(c, replaced_bytes) == queued_bytes - replaced_bytes + c.bytes

Accepting == running /\ ~stop_requested

Replace(c) ==
  /\ Accepting /\ clock < MaxClock
  /\ ReplacesTail(c)
  /\ Fits(c, Last(queue).capture.bytes)
  /\ clock' = clock + 1
  /\ queue' = Append(Front(queue), [capture |-> c, at |-> clock'])
  /\ queued_by_owner' = [queued_by_owner EXCEPT ![c.owner] = clock']
  /\ queued_bytes' = BytesAfter(c, Last(queue).capture.bytes)
  /\ UNCHANGED <<inflight, stage, outcome, results, running, stop_requested, written>>

Enqueue(c) ==
  /\ Accepting /\ clock < MaxClock
  /\ ~ReplacesTail(c)
  /\ Fits(c, 0) /\ HasSlot
  /\ clock' = clock + 1
  /\ queue' = Append(queue, [capture |-> c, at |-> clock'])
  /\ queued_by_owner' = [queued_by_owner EXCEPT ![c.owner] = clock']
  /\ queued_bytes' = BytesAfter(c, 0)
  /\ UNCHANGED <<inflight, stage, outcome, results, running, stop_requested, written>>

\* player_save_worker_submit, _submit_retained and persistence_writer_submit; a
\* refusal changes nothing and leaves the capture with the caller.
Submit(c) == Replace(c) \/ Enqueue(c)

-----------------------------------------------------------------------------
(***************************************************************************)
(* writer_main.                                                            *)
(***************************************************************************)
FaultIndexWithout(job) == [queued_by_owner EXCEPT ![job.capture.owner] = 0]

\* An owner can have an older save ahead of its newest one, which the index names.
IndexWithout(job) ==
  [queued_by_owner EXCEPT ![job.capture.owner] = IF @ = job.at THEN 0 ELSE @]

MayTake == stage = "waiting" /\ ~stop_requested /\ queue # <<>>

TakeJob ==
  /\ MayTake
  /\ queued_by_owner' = IndexWithout(Head(queue))
  /\ inflight' = Append(inflight, Head(queue))
  /\ queue' = Tail(queue)
  /\ queued_bytes' = queued_bytes - Head(queue).capture.bytes
  /\ stage' = "writing"
  /\ UNCHANGED <<clock, outcome, results, running, stop_requested, written>>

(***************************************************************************)
(* write_job: the write itself, then for a player save that succeeded the  *)
(* journal acknowledgement, whose failure turns the outcome into a lost    *)
(* connection.  A write whose outcome is ambiguous may have taken effect.  *)
(***************************************************************************)
WriteJob(o, effective) ==
  LET job == Head(inflight)
  IN  /\ stage = "writing"
      /\ o = "applied" => effective
      /\ effective => o \in {"applied", "ambiguous_commit"}
      /\ outcome' = o
      /\ written' = IF effective THEN job.at ELSE written
      /\ stage' = IF o \in Succeeded
                  THEN IF job.capture.owner \in Players THEN "acking" ELSE "completing"
                  ELSE IF o \in ConnectionLost THEN "retrying" ELSE "completing"
      /\ UNCHANGED <<clock, queue, queued_by_owner, queued_bytes, inflight, results,
                     running, stop_requested>>

AckJournal(acked) ==
  /\ stage = "acking"
  /\ outcome' = IF acked THEN outcome ELSE "retryable_failure"
  /\ stage' = IF acked THEN "completing" ELSE "retrying"
  /\ UNCHANGED <<clock, queue, queued_by_owner, queued_bytes, inflight, results,
                 running, stop_requested, written>>

FaultStopUnseen == "writing"
FaultNoWakeup == IF stop_requested THEN "completing" ELSE "retrying"

\* retry_wakeup: the delay passes and the same job is tried again, or a stop ends
\* the attempts.
AfterRetry == IF stop_requested THEN "completing" ELSE "writing"

\* A retry that queues the job again, behind the others.
FaultRequeue ==
  /\ stage = "retrying"
  /\ stage' = "waiting"
  /\ queue' = queue \o inflight
  /\ inflight' = <<>>
  /\ queued_bytes' = queued_bytes + InflightBytes
  /\ queued_by_owner' = [queued_by_owner EXCEPT ![Head(inflight).capture.owner] = Head(inflight).at]
  /\ UNCHANGED <<clock, outcome, results, running, stop_requested, written>>

Retry ==
  /\ stage = "retrying"
  /\ stage' = AfterRetry
  /\ UNCHANGED <<clock, queue, queued_by_owner, queued_bytes, inflight, outcome, results,
                 running, stop_requested, written>>

\* An abandoned retry at shutdown stays in flight, so that it can be named.
Abandoned == stop_requested /\ outcome \in ConnectionLost

Complete ==
  LET job == Head(inflight)
  IN  /\ stage = "completing"
      /\ results' = IF Abandoned THEN results
                    ELSE Append(results, [capture |-> job.capture, at |-> job.at,
                                          outcome |-> outcome])
      /\ inflight' = IF Abandoned THEN inflight ELSE <<>>
      /\ stage' = IF stop_requested THEN "leaving" ELSE "waiting"
      /\ outcome' = "applied"
      /\ UNCHANGED <<clock, queue, queued_by_owner, queued_bytes, running,
                     stop_requested, written>>

WriterExit ==
  /\ \/ stage = "leaving"
     \/ stage = "waiting" /\ stop_requested
  /\ stage' = "exited"
  /\ UNCHANGED <<clock, queue, queued_by_owner, queued_bytes, inflight, outcome, results,
                 running, stop_requested, written>>

-----------------------------------------------------------------------------
\* player_save_worker_pulse with room for n completions
Pulse(n) ==
  /\ results # <<>> /\ n > 0
  /\ results' = IF n < Len(results) THEN SubSeq(results, n + 1, Len(results)) ELSE <<>>
  /\ UNCHANGED <<clock, queue, queued_by_owner, queued_bytes, inflight, stage, outcome,
                 running, stop_requested, written>>

(***************************************************************************)
(* player_save_worker_shutdown: request the stop, then return once the     *)
(* writer is gone, or with an interrupt once it was left behind while      *)
(* writing.                                                                *)
(***************************************************************************)
RequestStop ==
  /\ running /\ ~stop_requested
  /\ stop_requested' = TRUE
  /\ UNCHANGED <<clock, queue, queued_by_owner, queued_bytes, inflight, stage, outcome,
                 results, running, written>>

FinishStop ==
  /\ running /\ stop_requested
  /\ stage = "exited" \/ inflight # <<>>
  /\ running' = FALSE
  /\ UNCHANGED <<clock, queue, queued_by_owner, queued_bytes, inflight, stage, outcome,
                 results, stop_requested, written>>

\* player_save_worker_pid_pending
PidPending(o) ==
  \/ \E i \in 1 .. Len(inflight) : inflight[i].capture.owner = o
  \/ queued_by_owner[o] # 0
  \/ \E i \in 1 .. Len(results) : results[i].capture.owner = o

Next ==
  \/ WorkerInit
  \/ \E c \in Captures : Submit(c)
  \/ TakeJob
  \/ \E o \in Outcomes, effective \in BOOLEAN : WriteJob(o, effective)
  \/ \E acked \in BOOLEAN : AckJournal(acked)
  \/ Retry
  \/ Complete
  \/ WriterExit
  \/ \E n \in 1 .. MaxJobs : Pulse(n)
  \/ RequestStop
  \/ FinishStop

Spec == Init /\ [][Next]_vars

\* The writer thread keeps running: every call it makes returns, with whatever outcome.
WriterFairness ==
  /\ WF_vars(TakeJob)
  /\ WF_vars(\E o \in Outcomes, effective \in BOOLEAN : WriteJob(o, effective))
  /\ WF_vars(\E acked \in BOOLEAN : AckJournal(acked))
  /\ WF_vars(Retry)
  /\ WF_vars(Complete)
  /\ WF_vars(WriterExit)

\* Outages end: a write, and a journal acknowledgement, tried again and again
\* finally gets a definite answer.
WriteAnswered ==
  \E o \in Succeeded \cup {"terminal_failure"}, effective \in BOOLEAN : WriteJob(o, effective)

OutagesEnd == SF_vars(WriteAnswered) /\ SF_vars(AckJournal(TRUE))

\* The game loop keeps consuming completions.
GamePulses == WF_vars(\E n \in 1 .. MaxJobs : Pulse(n))

FairSpec == Spec /\ WriterFairness

-----------------------------------------------------------------------------
TypeOK ==
  /\ clock \in Clock
  /\ queue \in Seq(Job)
  /\ queued_by_owner \in [Owners -> Clock]
  /\ queued_bytes \in Int
  /\ inflight \in Seq(Job) /\ Len(inflight) <= 1
  /\ stage \in Stages
  /\ outcome \in Outcomes
  /\ results \in Seq(Completion)
  /\ running \in BOOLEAN
  /\ stop_requested \in BOOLEAN
  /\ written \in Clock

(***************************************************************************)
(* Admission reserves a slot through completion consumption: however       *)
(* submissions, the writer and the pulse interleave, the completion ring   *)
(* has room when the writer delivers (completion_queue::push_back asserts  *)
(* it and cannot fail), and the retained payload stays within its budget.  *)
(***************************************************************************)
SlotsReserved == Len(queue) + Len(inflight) + Len(results) <= MaxJobs
BytesWithinBudget == queued_bytes + InflightBytes <= MaxBytes

WithinLimits == SlotsReserved /\ BytesWithinBudget

(***************************************************************************)
(* The byte counter is exactly the bytes queued, through every             *)
(* replacement and take, so it never wraps below zero.                     *)
(***************************************************************************)
SumsOf(jobs, sums) ==
  /\ sums[0] = 0
  /\ \A i \in 1 .. Len(jobs) : sums[i] = sums[i - 1] + jobs[i].capture.bytes

BytesExact ==
  \E sums \in [0 .. Len(queue) -> 0 .. MaxBytes] :
    SumsOf(queue, sums) /\ queued_bytes = sums[Len(queue)]

(***************************************************************************)
(* Capture order: completions, the job in flight and the queue, read in    *)
(* that order, are in the order of submission, so no job overtakes one it  *)
(* may rely on; nothing later than the job in flight has been written.     *)
(***************************************************************************)
Increasing(jobs) == \A i, j \in 1 .. Len(jobs) : i < j => jobs[i].at < jobs[j].at

Before(first, second) ==
  \A i \in 1 .. Len(first), j \in 1 .. Len(second) : first[i].at < second[j].at

CaptureOrder ==
  /\ Increasing(queue) /\ Increasing(results)
  /\ Before(results, inflight) /\ Before(results, queue) /\ Before(inflight, queue)
  /\ \A i \in 1 .. Len(inflight) : written <= inflight[i].at
  /\ \A i \in 1 .. Len(queue) : written < queue[i].at

(***************************************************************************)
(* The owner index names the newest queued job of each owner and nothing   *)
(* else: a submission can only ever replace its owner's newest job, and    *)
(* player_save_worker_pid_pending misses no queued save.                   *)
(***************************************************************************)
NewestOf(o, t) ==
  /\ t = 0 => \A i \in 1 .. Len(queue) : queue[i].capture.owner # o
  /\ t # 0 => \E i \in 1 .. Len(queue) :
                /\ queue[i].capture.owner = o /\ queue[i].at = t
                /\ \A j \in 1 .. Len(queue) : queue[j].capture.owner = o => j <= i

IndexNamesNewest == \A o \in Owners : NewestOf(o, queued_by_owner[o])

(***************************************************************************)
(* The inductive invariant: the properties above with what they rest on -  *)
(* the writer holds exactly the job its stage says, and the clock is ahead *)
(* of every admission.                                                     *)
(***************************************************************************)
StageHoldsJob ==
  /\ stage \in {"none", "waiting"} => inflight = <<>>
  /\ stage \in {"writing", "acking", "retrying", "completing"} => Len(inflight) = 1

Admitted(jobs) == \A i \in 1 .. Len(jobs) : 0 < jobs[i].at /\ jobs[i].at <= clock

ClockAhead ==
  Admitted(queue) /\ Admitted(inflight) /\ Admitted(results) /\ written <= clock

IInv ==
  /\ TypeOK
  /\ WithinLimits
  /\ StageHoldsJob
  /\ ClockAhead
  /\ CaptureOrder
  /\ IndexNamesNewest

(***************************************************************************)
(* player_save_worker_pid_pending says so exactly while a save of the      *)
(* owner is anywhere in the worker, though the index it asks names only    *)
(* the newest: on its answer a session's revisions are dropped and a       *)
(* recipient fence is granted.                                             *)
(***************************************************************************)
PendingIsExact ==
  \A o \in Owners :
    PidPending(o) <=>
      \E job \in Range(queue) \cup Range(inflight) \cup Range(results) : job.capture.owner = o

\* The job in flight, which no queue holds any more, leaves only with a completion that
\* says what became of it: a retry or a stop does not drop it.
NoInflightLost ==
  [][inflight # <<>> =>
       \/ inflight' = inflight
       \/ /\ results' # <<>>
          /\ Last(results').at = Head(inflight).at
          /\ Last(results').outcome \notin ConnectionLost]_vars

(***************************************************************************)
(* Writes take effect in capture order: the same job may be written twice  *)
(* (after an ambiguous commit or a failed journal acknowledgement), an     *)
(* earlier one never after a later one.                                    *)
(***************************************************************************)
WritesInOrder == [][written <= written']_vars

(***************************************************************************)
(* The worker implements what its clients rely on, SaveWriter: through     *)
(* retries, failed acknowledgements and a stop that abandons the job in    *)
(* flight, it looks like one ordered queue with a completion per save.     *)
(***************************************************************************)
CapturesOf(jobs) == [i \in 1 .. Len(jobs) |-> jobs[i].capture]
ReportsOf(done) ==
  [i \in 1 .. Len(done) |-> [capture |-> done[i].capture, outcome |-> done[i].outcome]]

Pending == CapturesOf(inflight) \o CapturesOf(queue)
Taken == inflight # <<>>
Completions == ReportsOf(results)

Writer == INSTANCE SaveWriter
  WITH Reports <- Outcomes \ ConnectionLost, pending <- Pending, taken <- Taken,
       completions <- Completions, open <- Accepting

ImplementsWriter == Writer!Spec

(***************************************************************************)
(* If outages end and the game pulses, every admitted job leaves a worker  *)
(* that is not stopped: retries at the head of the queue do not block the  *)
(* others forever, and the owner does not stay pending.                    *)
(***************************************************************************)
Held(t) ==
  \/ \E i \in 1 .. Len(queue) : queue[i].at = t
  \/ \E i \in 1 .. Len(inflight) : inflight[i].at = t
  \/ \E i \in 1 .. Len(results) : results[i].at = t

EveryJobLeaves ==
  OutagesEnd /\ GamePulses => \A t \in 1 .. MaxClock : Held(t) ~> ~Held(t) \/ stop_requested

(***************************************************************************)
(* A stop ends: the writer thread exits, whatever it was doing, even in an *)
(* outage that never ends.                                                 *)
(***************************************************************************)
StopEnds == stop_requested ~> stage = "exited"
=============================================================================
