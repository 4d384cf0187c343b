------------------------ MODULE MaintenanceScheduler ------------------------
(***************************************************************************)
(* The maintenance scheduler of persistence/maintenance_scheduler.c: the   *)
(* game thread's pulse, which hands out results and submits the due job,   *)
(* the worker thread, which writes the state file around every execution,  *)
(* and the recovery of a run from that file.                               *)
(*                                                                         *)
(* A run pages through the zones: it has a work id, and a cursor that is   *)
(* the last zone of the page before.  Two kinds of job are modelled, each  *)
(* with its repository code of maintenance_repository.c: those that change *)
(* rows (execute_epic_modifiers, whose marker makes a page idempotent),    *)
(* and the catalogue job, which only reads and whose pages accumulate in   *)
(* memory (world/epic_task_catalog.c).  The time of day is abstracted: a   *)
(* job comes due, and a request remembers whether the job's own interval *)
(* had passed when it was prepared.                                        *)
(***************************************************************************)
EXTENDS Integers, Sequences, SequencesExt, Subsequences

CONSTANTS
  Registry,     \* the enabled jobs, in the order of the registry
  Catalog,      \* the one of them that is epic_task_catalog
  Priority,     \* job -> its priority, the smallest first
  Zones,        \* the zones are 1 .. Zones
  Budget,       \* row_budget
  MaxWorks,     \* bound on work ids
  MaxFailures,  \* bound on failed writes, failed executions and failed allocations
  MaxRestarts   \* bound on crashes, shutdowns and copyovers

Jobs == {Registry[i] : i \in DOMAIN Registry}

ASSUME ConstantAssumption ==
  /\ Registry \in Seq(Jobs) /\ \A i, k \in DOMAIN Registry : Registry[i] = Registry[k] => i = k
  /\ Catalog \in Jobs
  /\ Priority \in [Jobs -> Nat]
  /\ Zones \in Nat /\ Budget \in Nat \ {0}
  /\ MaxWorks \in Nat /\ MaxFailures \in Nat /\ MaxRestarts \in Nat

VARIABLES
  health,       \* job -> work id, cursor, active, and whether its tick has come
  queue,        \* requests the worker has not taken
  completions,  \* results the game thread has not taken
  durable,      \* durable_state: job -> what is to be remembered of its run
  dirty,        \* durable_state_dirty
  stop,         \* stop_requested
  worker,       \* the worker thread: stage, request, result, copy being written
  disk,         \* the state file
  marker,       \* job -> the page of its last committed change
  timer,        \* job -> the last run that reached its last page
  refresh,      \* refresh_zones and refresh_invalid, of the catalogue
  catalog,      \* task_zones, the published catalogue
  works,        \* work ids handed out
  failures, restarts,
  applied,      \* history: work -> zone -> how often it was changed
  delivered     \* history: results handed to the game thread

game == <<health, completions, refresh, catalog, delivered, works>>
database == <<marker, timer, applied>>
vars == <<game, queue, durable, dirty, stop, worker, disk, database,
          failures, restarts>>

NoWork == 0
None == [work |-> NoWork]
Idle == [work |-> NoWork, cursor |-> 0, request |-> None, completion |-> None]

NoPages == [zones |-> <<>>, invalid |-> FALSE]

Request == [job : Jobs, work : 1 .. MaxWorks, cursor : 0 .. Zones, elapsed : BOOLEAN]
Outcomes == {"complete", "more", "retryable", "permanent", "cancelled"}
Retired == {"complete", "permanent"}

At(stage, request, result, copy) ==
  [stage |-> stage, request |-> request, result |-> result, copy |-> copy]
Waiting(copy) == At("waiting", None, None, copy)

Init ==
  /\ health = [j \in Jobs |-> [work |-> NoWork, cursor |-> 0, active |-> FALSE, due |-> FALSE]]
  /\ queue = <<>> /\ completions = <<>>
  /\ durable = [j \in Jobs |-> Idle]
  /\ disk = durable
  /\ dirty = FALSE /\ stop = FALSE
  /\ worker = Waiting(durable)
  /\ marker = [j \in Jobs |-> <<NoWork, 0>>]
  /\ timer = [j \in Jobs |-> NoWork]
  /\ refresh = NoPages /\ catalog = <<>>
  /\ works = 0 /\ failures = 0 /\ restarts = 0
  /\ applied = [w \in 1 .. MaxWorks |-> [z \in 1 .. Zones |-> 0]]
  /\ delivered = {}

-----------------------------------------------------------------------------
(***************************************************************************)
(* The repository.                                                         *)
(***************************************************************************)
\* the rows of a page: at most Budget zones past the cursor
Page(cursor) ==
  LET last == IF cursor + Budget <= Zones THEN cursor + Budget ELSE Zones
  IN  [i \in 1 .. (last - cursor) |-> cursor + i]

NextCursor(cursor) == cursor + Len(Page(cursor))
IsFull(cursor) == Len(Page(cursor)) = Budget

Result == [job : Jobs, work : 1 .. MaxWorks, outcome : Outcomes, next : 0 .. Zones,
           rows : {<<>>} \cup {Page(c) : c \in 0 .. Zones}]

Reply(request, outcome, next, rows) ==
  [job |-> request.job, work |-> request.work, outcome |-> outcome, next |-> next, rows |-> rows]

Answer(request, outcome) == Reply(request, outcome, request.cursor, <<>>)

\* the result of a page that was read to its end
PageAnswer(request) ==
  Reply(request, IF IsFull(request.cursor) THEN "more" ELSE "complete",
        NextCursor(request.cursor), IF request.job = Catalog THEN Page(request.cursor) ELSE <<>>)

\* the first page finds that the interval has not passed since the last run
NotYet(request) ==
  /\ request.job # Catalog /\ request.cursor = 0
  /\ ~request.elapsed \/ timer[request.job] = request.work

FaultMarkerMatches(request) == marker[request.job][1] = request.work

\* marker_matches_and_lock: this page's change was committed before
MarkerMatches(request) == marker[request.job] = <<request.work, request.cursor>>

\* COMMIT of the page: the marker, the rows and, on the last page, the timer
Commit(request) ==
  LET j == request.job
      zones == IF MarkerMatches(request) THEN {} ELSE ToSet(Page(request.cursor))
  IN  /\ marker' = [marker EXCEPT ![j] = <<request.work, request.cursor>>]
      /\ timer' = [timer EXCEPT ![j] = IF IsFull(request.cursor) THEN @ ELSE request.work]
      /\ applied' = [applied EXCEPT ![request.work] =
                      [z \in 1 .. Zones |-> IF z \in zones THEN @[z] + 1 ELSE @[z]]]

-----------------------------------------------------------------------------
(***************************************************************************)
(* The worker thread.                                                      *)
(***************************************************************************)
(* persist_state writes a copy of the state that was taken under the lock. *)
(* The rename may have replaced the file when the write is reported as     *)
(* failed.                                                                 *)
Persisted == disk' = worker.copy /\ UNCHANGED failures

PersistFailed ==
  /\ failures < MaxFailures
  /\ failures' = failures + 1
  /\ disk' \in {disk, worker.copy}

\* a changed state is written while nothing is queued
TakeDirty ==
  /\ worker.stage = "waiting" /\ dirty /\ queue = <<>>
  /\ dirty' = FALSE
  /\ worker' = At("flushing", None, None, durable)
  /\ UNCHANGED <<game, queue, durable, stop, disk, database, failures, restarts>>

Flush ==
  /\ worker.stage = "flushing"
  /\ \/ Persisted /\ UNCHANGED dirty
     \/ PersistFailed /\ dirty' = (dirty \/ ~stop)
  /\ worker' = Waiting(worker.copy)
  /\ UNCHANGED <<game, queue, durable, stop, database, restarts>>

\* the request is recorded in the state before it is executed
Recorded(request) ==
  [durable EXCEPT ![request.job] =
    [work |-> request.work, cursor |-> request.cursor, request |-> request, completion |-> None]]

TakeRequest ==
  /\ worker.stage = "waiting" /\ queue # <<>>
  /\ queue' = Tail(queue)
  /\ durable' = Recorded(Head(queue))
  /\ worker' = At("recording", Head(queue), None, durable')
  /\ UNCHANGED <<game, dirty, stop, disk, database, failures, restarts>>

FaultAnswered(result) ==
  [durable EXCEPT ![result.job] =
    IF result.outcome = "complete" THEN Idle ELSE [@ EXCEPT !.completion = result]]

\* the result is recorded in the state before it is handed out
Answered(result) == [durable EXCEPT ![result.job].completion = result]

AnswerWith(result) ==
  /\ durable' = Answered(result)
  /\ worker' = At("answering", worker.request, result, durable')

RecordRequest ==
  /\ worker.stage = "recording"
  /\ \/ Persisted /\ worker' = [worker EXCEPT !.stage = "executing"] /\ UNCHANGED durable
     \/ PersistFailed /\ AnswerWith(Answer(worker.request, "retryable"))
  /\ UNCHANGED <<game, queue, dirty, stop, database, restarts>>

(* maintenance_repository_execute.  COMMIT may have landed when its answer *)
(* is lost; a page that failed earlier was rolled back, and one whose      *)
(* deadline passed before its transaction began fails for good.            *)
ExecutePage(request) ==
  /\ IF request.job = Catalog THEN UNCHANGED database ELSE Commit(request)
  /\ AnswerWith(PageAnswer(request))
  /\ UNCHANGED failures

ExecuteFailed(request) ==
  /\ failures < MaxFailures
  /\ failures' = failures + 1
  /\ \/ /\ request.job # Catalog /\ ~NotYet(request)
        /\ Commit(request)
        /\ AnswerWith(Answer(request, "retryable"))
     \/ UNCHANGED database /\ AnswerWith(Answer(request, "retryable"))
     \/ UNCHANGED database /\ AnswerWith(Answer(request, "permanent"))

Execute ==
  LET request == worker.request
  IN  /\ worker.stage = "executing"
      /\ \/ /\ NotYet(request)
            /\ AnswerWith(Answer(request, "complete"))
            /\ UNCHANGED <<database, failures>>
         \/ ~NotYet(request) /\ ExecutePage(request)
         \/ ExecuteFailed(request)
      /\ UNCHANGED <<game, queue, dirty, stop, disk, restarts>>

(* The result is handed out once it is on disk; unwritten, it becomes a    *)
(* retryable failure and only the request is remembered.                   *)
HandOut(result) ==
  completions' = Append(completions, [result EXCEPT !.outcome = IF stop THEN "cancelled" ELSE @])

RecordResult ==
  /\ worker.stage = "answering"
  /\ \/ Persisted /\ HandOut(worker.result) /\ UNCHANGED durable
     \/ /\ PersistFailed
        /\ HandOut([worker.result EXCEPT !.outcome = "retryable"])
        /\ durable' = [durable EXCEPT ![worker.request.job].completion = None]
  /\ worker' = Waiting(worker.copy)
  /\ UNCHANGED <<health, refresh, catalog, delivered, works, queue, dirty, stop,
                 database, restarts>>

\* the worker leaves once it is told to stop and has nothing left to write
Leave ==
  /\ worker.stage = "waiting" /\ stop /\ queue = <<>> /\ ~dirty
  /\ worker' = [worker EXCEPT !.stage = "gone"]
  /\ UNCHANGED <<game, queue, durable, dirty, stop, disk, database, failures, restarts>>

-----------------------------------------------------------------------------
FaultSettled(job, result) ==
  LET ended == [job EXCEPT !.active = FALSE]
  IN  CASE result.outcome \in Retired -> [ended EXCEPT !.work = NoWork, !.cursor = 0]
        [] result.outcome = "more" -> [ended EXCEPT !.cursor = result.next, !.due = FALSE]
        [] OTHER -> job

(***************************************************************************)
(* The game thread.                                                        *)
(***************************************************************************)
\* apply_completion_locked: what a result makes of its job, ...
Settled(job, result) ==
  LET ended == [job EXCEPT !.active = FALSE]
  IN  CASE result.outcome \in Retired -> [ended EXCEPT !.work = NoWork, !.cursor = 0]
        [] result.outcome = "more" -> [ended EXCEPT !.cursor = result.next, !.due = FALSE]
        [] result.outcome = "retryable" -> [ended EXCEPT !.due = FALSE]
        [] OTHER -> ended

FaultRemembered(entry, job, result) ==
  [work |-> job.work, cursor |-> job.cursor, completion |-> None,
   request |-> IF result.outcome \in Retired THEN None ELSE entry.request]

\* ... and of what is remembered of its run: a page to repeat keeps its request
Remembered(entry, job, result) ==
  [work |-> job.work, cursor |-> job.cursor, completion |-> None,
   request |-> IF result.outcome \in {"retryable", "cancelled"} THEN entry.request ELSE None]

IsAwaited(job, result) == job.active /\ job.work = result.work

(* epic_task_catalog_complete: pages are put together while they ascend,   *)
(* and the last one publishes them.                                        *)
Extended(pages, rows) ==
  LET zones == pages.zones \o rows
  IN  IF pages.invalid \/ \E i \in 2 .. Len(zones) : zones[i - 1] >= zones[i]
      THEN [pages EXCEPT !.invalid = TRUE]
      ELSE [pages EXCEPT !.zones = zones]

Publishes(pages) == ~pages.invalid /\ pages.zones # <<>>

Accumulated(s, result) ==
  LET pages == Extended(s.refresh, result.rows)
  IN  IF result.job # Catalog \/ result.outcome = "retryable" THEN s
      ELSE CASE result.outcome \in {"permanent", "cancelled"} -> [s EXCEPT !.refresh = NoPages]
             [] result.outcome = "more" -> [s EXCEPT !.refresh = pages]
             [] result.outcome = "complete" ->
                  [s EXCEPT !.refresh = NoPages,
                            !.catalog = IF Publishes(pages) THEN pages.zones ELSE @]

\* one result of a pulse
Consume(s, result) ==
  LET j == result.job
      job == Settled(s.health[j], result)
      seen == Accumulated(s, result)
  IN  IF ~IsAwaited(s.health[j], result) THEN seen
      ELSE [seen EXCEPT !.health[j] = job,
                        !.durable[j] = Remembered(@, job, result),
                        !.dirty = TRUE]

\* the first n results applied, each in its turn
Consumed(before, n) ==
  LET consumed[i \in 0 .. n] ==
        IF i = 0 THEN before ELSE Consume(consumed[i - 1], completions[i])
  IN  consumed[n]

\* submit_due_locked: a job that is still active loses its turn
Suppressed(jobs) == [j \in Jobs |-> [jobs[j] EXCEPT !.due = @ /\ ~jobs[j].active]]

FaultCandidates(jobs) ==
  LET due == {j \in Jobs : jobs[j].due}
  IN  {j \in due : \A k \in due : Priority[j] <= Priority[k]}

Candidates(jobs) ==
  LET due == {j \in Jobs : jobs[j].due /\ ~jobs[j].active}
  IN  {j \in due : \A k \in due : Priority[j] <= Priority[k]}

IsQueueFull == Len(queue) >= Len(Registry)

\* the request of a page to repeat, or a new one
Requests(entry, job, j, work) ==
  IF entry.request # None THEN {entry.request}
  ELSE {[job |-> j, work |-> work, cursor |-> job.cursor, elapsed |-> elapsed] :
          elapsed \in IF j = Catalog \/ job.cursor # 0 THEN {TRUE} ELSE BOOLEAN}

SubmitDue(s) ==
  LET jobs == Suppressed(s.health)
  IN  \/ /\ Candidates(s.health) = {} \/ IsQueueFull
         /\ health' = jobs
         /\ UNCHANGED <<queue, works, failures>>
      \/ /\ ~IsQueueFull
         /\ \E j \in Candidates(s.health) :
              LET fresh == jobs[j].work = NoWork
                  work == IF fresh THEN works + 1 ELSE jobs[j].work
              IN  \/ /\ work <= MaxWorks
                     /\ \E request \in Requests(s.durable[j], jobs[j], j, work) :
                          queue' = Append(queue, request)
                     /\ health' = [jobs EXCEPT ![j] =
                          [work |-> work, cursor |-> @.cursor, active |-> TRUE, due |-> FALSE]]
                     /\ works' = IF fresh THEN work ELSE works
                     /\ UNCHANGED failures
                  \* no identity, or nothing to prepare the request from
                  \/ /\ s.durable[j].request = None
                     /\ \/ failures < MaxFailures /\ failures' = failures + 1
                        \/ work > MaxWorks /\ UNCHANGED failures
                     /\ health' = [jobs EXCEPT ![j].due = FALSE]
                     /\ UNCHANGED <<queue, works>>

\* what the properties remember of a result
Receipt(result) == [work |-> result.work, outcome |-> result.outcome, next |-> result.next]

(* One pulse of the game loop, at a tick when the jobs in elapsed come due *)
(* besides those left over: every result is applied and then one job       *)
(* submitted.  A caller of quiesce drains and resumes within one call,     *)
(* between two pulses: a scheduler that is quiesced is not pulsed.         *)
Pulse(elapsed) ==
  LET due == [j \in Jobs |-> [health[j] EXCEPT !.due = @ \/ j \in elapsed]]
      before == [health |-> due, durable |-> durable, dirty |-> dirty,
                 refresh |-> refresh, catalog |-> catalog]
      s == Consumed(before, Len(completions))
  IN  /\ ~stop
      /\ completions' = <<>>
      /\ durable' = s.durable /\ dirty' = s.dirty
      /\ refresh' = s.refresh /\ catalog' = s.catalog
      /\ delivered' = delivered \cup
           {Receipt(r) : r \in {q \in ToSet(completions) : q.outcome \in Retired \cup {"more"}}}
      /\ SubmitDue(s)
      /\ UNCHANGED <<stop, worker, disk, database, restarts>>

Shutdown ==
  /\ ~stop
  /\ restarts < MaxRestarts
  /\ restarts' = restarts + 1
  /\ stop' = TRUE
  /\ queue' = <<>>
  /\ UNCHANGED <<game, durable, dirty, worker, disk, database, failures>>

-----------------------------------------------------------------------------
(***************************************************************************)
(* A new process.  load_state refuses a file that contradicts itself, and  *)
(* the scheduler then stays down.                                          *)
(***************************************************************************)
Loads(file) ==
  \A j \in Jobs :
    LET entry == file[j]
    IN  /\ entry.work = NoWork => entry = Idle
        /\ entry.request # None =>
             entry.request.work = entry.work /\ entry.request.cursor = entry.cursor
        /\ entry.completion # None => entry.completion.work = entry.work

FaultLoaded == disk

\* the pages of the catalogue were only in memory: it starts again
Loaded == [disk EXCEPT ![Catalog] = Idle]

IsPending(entry) == entry.request # None \/ entry.completion # None

Boot ==
  LET entry(i) == Loaded[Registry[i]]
      answered == Kept(Registry, {i \in DOMAIN Registry : entry(i).completion # None})
      asked == Kept(Registry, {i \in DOMAIN Registry : /\ entry(i).completion = None
                                                       /\ entry(i).request # None})
  IN  /\ Loads(disk)
      /\ durable' = Loaded
      /\ health' = [j \in Jobs |->
                     [work |-> Loaded[j].work, cursor |-> Loaded[j].cursor,
                      active |-> IsPending(Loaded[j]), due |-> Loaded[j].work # NoWork]]
      /\ completions' = [i \in 1 .. Len(answered) |-> Loaded[answered[i]].completion]
      /\ queue' = [i \in 1 .. Len(asked) |-> Loaded[asked[i]].request]
      /\ dirty' = FALSE /\ stop' = FALSE
      /\ worker' = Waiting(Loaded)
      /\ refresh' = NoPages /\ catalog' = <<>>
      /\ UNCHANGED <<disk, database, works, failures, delivered>>

Reboot == worker.stage = "gone" /\ Boot /\ UNCHANGED restarts

Crash == restarts < MaxRestarts /\ restarts' = restarts + 1 /\ Boot

Worker == TakeDirty \/ Flush \/ TakeRequest \/ RecordRequest \/ Execute \/ RecordResult \/ Leave

Next ==
  \/ Worker
  \/ \E elapsed \in SUBSET Jobs : Pulse(elapsed)
  \/ Shutdown \/ Reboot
  \/ Crash

Spec == Init /\ [][Next]_vars

(* The worker thread runs and the game loop pulses.  A job comes due once  *)
(* in hundreds of pulses, at its own offset, so that every job has pulses  *)
(* at which it is the only one.  A process that was stopped is started     *)
(* again.                                                                  *)
Fairness ==
  /\ WF_vars(Worker) /\ WF_vars(Reboot)
  /\ \A j \in Jobs : WF_vars(Pulse({j}))

FairSpec == Spec /\ Fairness

-----------------------------------------------------------------------------
(***************************************************************************)
(* Properties.                                                             *)
(***************************************************************************)
Entry == [work : 0 .. MaxWorks, cursor : 0 .. Zones, request : Request \cup {None},
          completion : Result \cup {None}]

\* Every variable has its type: cursors stay within the zones there are.
TypeOK ==
  /\ health \in [Jobs -> [work : 0 .. MaxWorks, cursor : 0 .. Zones,
                          active : BOOLEAN, due : BOOLEAN]]
  /\ queue \in Seq(Request) /\ completions \in Seq(Result)
  /\ durable \in [Jobs -> Entry] /\ disk \in [Jobs -> Entry] /\ worker.copy \in [Jobs -> Entry]
  /\ dirty \in BOOLEAN /\ stop \in BOOLEAN
  /\ worker.stage \in {"waiting", "flushing", "recording", "executing", "answering", "gone"}
  /\ worker.request \in Request \cup {None} /\ worker.result \in Result \cup {None}
  /\ marker \in [Jobs -> (0 .. MaxWorks) \X (0 .. Zones)]
  /\ timer \in [Jobs -> 0 .. MaxWorks]
  /\ refresh \in [zones : Seq(1 .. Zones), invalid : BOOLEAN] /\ catalog \in Seq(1 .. Zones)
  /\ works \in 0 .. MaxWorks /\ failures \in 0 .. MaxFailures /\ restarts \in 0 .. MaxRestarts
  /\ applied \in [1 .. MaxWorks -> [1 .. Zones -> Nat]]

(* Whenever the process ends, load_state accepts the file that is there:   *)
(* pulse changes the remembered runs between the worker's writes, and a    *)
(* write may fail before or after its rename.                              *)
StateFileLoads == Loads(disk)

\* where the work of a job is: queued, with the worker, or answered
Places(j) ==
  {<<"queue", i>> : i \in {i \in 1 .. Len(queue) : queue[i].job = j}}
    \cup {<<"completions", i>> : i \in {i \in 1 .. Len(completions) : completions[i].job = j}}
    \cup {<<"worker", 0>> : w \in {w \in {worker.request} : w # None /\ w.job = j}}

(* An active job is in exactly one place, under the work id the pulse      *)
(* waits for, and an inactive one in none: no page runs twice at once and  *)
(* no result finds its job gone.  Between Shutdown and the restart only    *)
(* what was queued is dropped.                                             *)
OneOwner ==
  \A j \in Jobs :
    /\ \A x, y \in Places(j) : x = y
    /\ ~stop => (health[j].active <=> Places(j) # {})
    /\ \A r \in ToSet(queue) \cup ToSet(completions) \cup ({worker.request} \ {None}) :
         r.job = j => r.work = health[j].work

(* The scheduler's variables have their types, with cursors within the     *)
(* zones there are, and every active job is in one place: worker_main,     *)
(* pulse and init keep them so.                                            *)
SchedulerInv == TypeOK /\ OneOwner

(* A page changes its zones once, however often it was executed, and a run *)
(* that was reported complete has changed every zone: lost answers, failed *)
(* writes of the state file and crashes neither repeat nor skip a page.    *)
EachZoneOnce ==
  \A w \in 1 .. MaxWorks :
    /\ \A z \in 1 .. Zones : applied[w][z] <= 1
    /\ \A r \in delivered :
         /\ r.work = w /\ r.outcome = "complete"
         /\ \E z \in 1 .. Zones : applied[w][z] # 0
         => \A z \in 1 .. Zones : applied[w][z] = 1

(* The state file forgets a page only when its result has reached the game *)
(* thread: a run whose cursor moved on had the page before delivered, and  *)
(* one that changed zones and is not in the file had its end delivered.    *)
ForgottenIsDelivered ==
  /\ \A j \in Jobs : disk[j].cursor # 0 =>
       \E r \in delivered : r.work = disk[j].work /\ r.outcome = "more" /\ r.next = disk[j].cursor
  /\ \A w \in 1 .. MaxWorks :
       /\ \E z \in 1 .. Zones : applied[w][z] # 0
       /\ \A j \in Jobs : disk[j].work # w
       => \E r \in delivered : r.work = w /\ r.outcome \in Retired

(* The published catalogue has every zone: its pages are kept in memory    *)
(* while the cursor is on disk, so a restart must not resume them.         *)
CatalogIsWhole == catalog # <<>> => catalog = [i \in 1 .. Zones |-> i]

(* A run that was started ends, whatever fails on the way: a failed page   *)
(* is submitted again and a restart takes the run up.                      *)
RunEnds == \A j \in Jobs : (health[j].work # NoWork) ~> (health[j].work = NoWork)
=============================================================================
