------------------------- MODULE PlayerLoadPipeline -------------------------
(***************************************************************************)
(* Loading a character: player/player_load_pipeline.c between the game     *)
(* thread's sessions (account/account.c, net/comm.c) and one loader        *)
(* thread, both of which read over connections of SqlPool, next to another *)
(* thread that borrows from the same pool.                                 *)
(*                                                                         *)
(* A session selects a character and waits for its request, or has the     *)
(* game thread wait for it, or, when the pipeline refuses or fails, has    *)
(* the game thread load the character itself.  The loader takes a request, *)
(* looks for its cancellation, reads and publishes, leaving the mutex in   *)
(* between, while sessions close and the server shuts down.                *)
(*                                                                         *)
(* A result is its request and its outcome: applied stands for degraded    *)
(* too, retryable for timed_out, failed for component_failure, not_found   *)
(* and limit_exceeded.  The repository selects the row by the pid of the   *)
(* request, so that a result is always of the character that was asked     *)
(* for; the checks for another one (outcome stale) never apply.            *)
(***************************************************************************)
EXTENDS SqlPool, Sequences, SequencesExt, FiniteSets

CONSTANTS
  Sessions,      \* descriptors
  Loader,        \* the pipeline's worker thread
  Game,          \* the game thread
  MaxPending,    \* PLAYER_LOAD_MAX_PENDING
  MaxRequests    \* bound on request ids

ASSUME LoadAssumption ==
  /\ {Loader, Game} \subseteq Threads /\ Loader # Game
  /\ MaxPending \in Nat /\ MaxRequests \in Nat

VARIABLES
  jobs, completions, active, cancelled, inflight,
  running, stop,
  loader,    \* the loader thread: its stage and the result it prepares
  game,      \* the game thread: its stage and the session and request it is busy with
  batch,     \* the results the last pulse took
  state,     \* session -> STATE(d)
  awaits,    \* session -> player_load_request_id
  requests   \* request ids given out

queues == <<jobs, completions, active, cancelled, inflight, running, stop>>
sessions == <<state, awaits>>
loadVars == <<queues, loader, game, batch, sessions, requests>>
vars == <<poolVars, loadVars>>

NoRequest == 0
Requests == 1 .. MaxRequests
Entering == {"applied"}
Retried == {"retryable", "cancelled"}
Outcomes == Entering \cup Retried \cup {"failed"}

Result(id, outcome) == [id |-> id, outcome |-> outcome]
\* What player_load_repository_execute may answer.
Answers == {"applied", "retryable", "failed"}

Idle == [stage |-> "idle", result |-> Result(NoRequest, "failed")]
Loop == [stage |-> "loop", session |-> NoRequest, id |-> NoRequest]

\* player_load_pipeline_init: the worker thread has been created.
Init ==
  /\ PoolInit
  /\ jobs = <<>> /\ completions = <<>>
  /\ active = {} /\ cancelled = {} /\ inflight = NoRequest
  /\ running = TRUE /\ stop = FALSE
  /\ loader = [Idle EXCEPT !.stage = "starting"]
  /\ game = Loop
  /\ batch = <<>>
  /\ state = [s \in Sessions |-> "menu"]
  /\ awaits = [s \in Sessions |-> NoRequest]
  /\ requests = 0

----------------------------------------------------------------------------
FaultFinish(t) ==
  /\ at[t] = "holding"
  /\ at' = [at EXCEPT ![t] = "out"]
  /\ held' = [held EXCEPT ![t] = NoConnection]
  /\ late' = late \ {t}
  /\ UNCHANGED <<shared, guard, slot, fresh, opened, closed>>

(***************************************************************************)
(* execute_repository, by the loader and by a game thread that loads       *)
(* itself: the connection comes from the pool and goes back to it whatever *)
(* the read answers.                                                       *)
(***************************************************************************)
\* pool_connection_guard's destructor.
Finish(t) == Release(t)

\* Thread t is done reading: it got no connection, or an answer of the database.
Reads(t, outcome) ==
  \/ /\ at[t] = "out"
     /\ outcome = "retryable"
     /\ UNCHANGED poolVars
  \/ Finish(t)

----------------------------------------------------------------------------
(***************************************************************************)
(* worker_main                                                             *)
(***************************************************************************)
\* sql_worker_thread_init, which may fail when requests are queued already.
Start ==
  /\ loader.stage = "starting"
  /\ \/ /\ loader' = Idle
        /\ UNCHANGED <<running, stop>>
     \/ /\ loader' = [Idle EXCEPT !.stage = "gone"]
        /\ running' = FALSE /\ stop' = TRUE
  /\ UNCHANGED <<poolVars, jobs, completions, active, cancelled, inflight, game, batch,
                 sessions, requests>>

Take ==
  /\ loader.stage = "idle"
  /\ jobs # <<>>
  /\ jobs' = Tail(jobs)
  /\ inflight' = Head(jobs)
  /\ loader' = [stage |-> "taken", result |-> Result(Head(jobs), "failed")]
  /\ UNCHANGED <<poolVars, completions, active, cancelled, running, stop, game, batch,
                 sessions, requests>>

\* The first look at cancelled_ids: a cancelled request is not read.
Check ==
  /\ loader.stage = "taken"
  /\ loader' = IF loader.result.id \in cancelled
               THEN [stage |-> "read", result |-> [loader.result EXCEPT !.outcome = "cancelled"]]
               ELSE [loader EXCEPT !.stage = "executing"]
  /\ UNCHANGED <<poolVars, queues, game, batch, sessions, requests>>

LoaderAcquires ==
  /\ loader.stage = "executing"
  /\ loader' = [loader EXCEPT !.stage = "reading"]
  /\ Acquire(Loader)
  /\ UNCHANGED <<queues, game, batch, sessions, requests>>

LoaderReads ==
  /\ loader.stage = "reading"
  /\ \E outcome \in Answers :
       /\ Reads(Loader, outcome)
       /\ loader' = [stage |-> "read", result |-> Result(loader.result.id, outcome)]
  /\ UNCHANGED <<queues, game, batch, sessions, requests>>

\* The second look at cancelled_ids, under the mutex that publishes.
Published(result) ==
  IF result.id \in cancelled THEN [result EXCEPT !.outcome = "cancelled"] ELSE result

Publish ==
  /\ loader.stage = "read"
  /\ completions' = Append(completions, Published(loader.result))
  /\ cancelled' = cancelled \ {loader.result.id}
  /\ inflight' = NoRequest
  /\ loader' = Idle
  /\ UNCHANGED <<poolVars, jobs, active, running, stop, game, batch, sessions, requests>>

FaultLeave ==
  /\ loader.stage = "idle"
  /\ jobs = <<>>
  /\ loader' = [Idle EXCEPT !.stage = "gone"]
  /\ UNCHANGED <<poolVars, queues, game, batch, sessions, requests>>

Leave ==
  /\ loader.stage = "idle"
  /\ stop /\ jobs = <<>>
  /\ loader' = [Idle EXCEPT !.stage = "gone"]
  /\ UNCHANGED <<poolVars, queues, game, batch, sessions, requests>>

----------------------------------------------------------------------------
(***************************************************************************)
(* player_load_pipeline_submit and _cancel                                 *)
(***************************************************************************)
Accepts ==
  /\ running /\ ~stop
  /\ Cardinality(active) < MaxPending

\* The pipeline's part of an accepted submit.
Submitted(id) ==
  /\ active' = active \cup {id}
  /\ jobs' = Append(jobs, id)
  /\ UNCHANGED <<completions, cancelled, inflight, running, stop>>

FaultCancelledInPlace(id) == completions

\* A result that is queued already is cancelled in place.
CancelledInPlace(id) ==
  [i \in DOMAIN completions |->
     IF completions[i].id = id /\ id \notin cancelled
     THEN [completions[i] EXCEPT !.outcome = "cancelled"] ELSE completions[i]]

Cancelled(id) ==
  /\ cancelled' = IF id \in active THEN cancelled \cup {id} ELSE cancelled
  /\ completions' = IF id \in active THEN CancelledInPlace(id) ELSE completions
  /\ UNCHANGED <<jobs, active, inflight, running, stop>>

----------------------------------------------------------------------------
(***************************************************************************)
(* The game thread's sessions: load_char_into_game                         *)
(***************************************************************************)
InLoop == game.stage = "loop" /\ batch = <<>>

Busy(stage, s, id) == [stage |-> stage, session |-> s, id |-> id]

\* A character was selected to play.  A refused request is loaded at once.
Select(s) ==
  /\ InLoop /\ state[s] = "menu" /\ requests < MaxRequests
  /\ requests' = requests + 1
  /\ \/ /\ Accepts
        /\ Submitted(requests + 1)
        /\ state' = [state EXCEPT ![s] = "loading"]
        /\ awaits' = [awaits EXCEPT ![s] = requests + 1]
        /\ game' = game
     \/ /\ ~Accepts
        /\ game' = Busy("sync", s, NoRequest)
        /\ UNCHANGED <<queues, state, awaits>>
  /\ UNCHANGED <<poolVars, loader, batch>>

\* A character was selected for something else: the game thread waits itself.
SelectAndWait(s) ==
  /\ InLoop /\ state[s] = "menu" /\ requests < MaxRequests
  /\ requests' = requests + 1
  /\ \/ /\ Accepts
        /\ Submitted(requests + 1)
        /\ game' = Busy("waiting", s, requests + 1)
     \/ /\ ~Accepts
        /\ game' = Busy("sync", s, NoRequest)
        /\ UNCHANGED queues
  /\ UNCHANGED <<poolVars, loader, batch, sessions>>

\* player_load_materialize takes a snapshot that was read.
Enter(s, outcome) ==
  state' = [state EXCEPT ![s] = IF outcome \in Entering THEN "playing" ELSE "menu"]

\* The result of s goes into the game, or the game thread reads it once more itself.
Taken(s, outcome) ==
  /\ Enter(s, outcome)
  /\ game' = IF outcome \in Retried THEN Busy("retry", s, NoRequest) ELSE Loop

\* The first result of request id is the i-th.
IsFirst(id, i) == completions[i].id = id /\ \A j \in 1 .. i - 1 : completions[j].id # id

\* player_load_pipeline_wait finds the result of its request and takes it out.
WaitFound ==
  /\ game.stage = "waiting"
  /\ \E i \in DOMAIN completions :
       /\ IsFirst(game.id, i)
       /\ Taken(game.session, completions[i].outcome)
       /\ completions' = RemoveAt(completions, i)
  /\ active' = active \ {game.id}
  /\ UNCHANGED <<poolVars, jobs, cancelled, inflight, running, stop, loader, batch, awaits,
                 requests>>

\* It gives up when there is no result and the pipeline stopped, or at its deadline,
\* when it cancels the request without another look at the completions.
WaitEnds ==
  /\ game.stage = "waiting"
  /\ \/ /\ stop /\ \A i \in DOMAIN completions : completions[i].id # game.id
        /\ cancelled' = cancelled
     \/ cancelled' = cancelled \cup {game.id}
  /\ game' = Busy("sync", game.session, NoRequest)
  /\ UNCHANGED <<poolVars, jobs, completions, active, inflight, running, stop, loader, batch,
                 sessions, requests>>

\* player_load_pipeline_execute_sync.  The request id it takes for itself never
\* enters the pipeline.  It reads for a request that was refused or not answered
\* ("sync"), or for a result that is to be retried ("retry").
GameAcquires ==
  /\ game.stage \in {"sync", "retry"}
  /\ game' = [game EXCEPT !.stage = IF @ = "sync" THEN "reading" ELSE "rereading"]
  /\ Acquire(Game)
  /\ UNCHANGED <<queues, loader, batch, sessions, requests>>

\* sql_worker_thread_init failed: there is no result, and nothing to retry.
GameCannotRead ==
  /\ game.stage \in {"sync", "retry"}
  /\ Enter(game.session, "failed")
  /\ game' = Loop
  /\ UNCHANGED <<poolVars, queues, loader, batch, awaits, requests>>

\* What the retry answers is final.
GameReads ==
  /\ \E outcome \in Answers :
       /\ Reads(Game, outcome)
       /\ \/ game.stage = "reading" /\ Taken(game.session, outcome)
          \/ game.stage = "rereading" /\ Enter(game.session, outcome) /\ game' = Loop
  /\ UNCHANGED <<queues, loader, batch, awaits, requests>>

FaultPulse ==
  /\ InLoop /\ completions # <<>>
  /\ batch' = completions
  /\ completions' = <<>>
  /\ cancelled' = cancelled \ {completions[i].id : i \in DOMAIN completions}
  /\ UNCHANGED <<poolVars, jobs, active, inflight, running, stop, loader, game, sessions,
                 requests>>

\* player_load_pipeline_pulse
Pulse ==
  /\ InLoop /\ completions # <<>>
  /\ batch' = completions
  /\ completions' = <<>>
  /\ active' = active \ {completions[i].id : i \in DOMAIN completions}
  /\ cancelled' = cancelled \ {completions[i].id : i \in DOMAIN completions}
  /\ UNCHANGED <<poolVars, jobs, inflight, running, stop, loader, game, sessions, requests>>

Awaiting(s, id) == state[s] = "loading" /\ awaits[s] = id

\* game_loop hands a result to the session that waits for it, if there is one.
Deliver ==
  /\ game.stage = "loop" /\ batch # <<>>
  /\ batch' = Tail(batch)
  /\ \/ \E s \in Sessions :
          /\ Awaiting(s, Head(batch).id)
          /\ Taken(s, Head(batch).outcome)
          /\ awaits' = [awaits EXCEPT ![s] = NoRequest]
     \/ /\ \A s \in Sessions : ~Awaiting(s, Head(batch).id)
        /\ UNCHANGED <<game, sessions>>
  /\ UNCHANGED <<poolVars, queues, loader, requests>>

\* close_socket.  (player_load_request_id stays as history of what was cancelled.)
Close(s) ==
  /\ InLoop /\ state[s] = "loading"
  /\ state' = [state EXCEPT ![s] = "closed"]
  /\ Cancelled(awaits[s])
  /\ UNCHANGED <<poolVars, loader, game, batch, awaits, requests>>

----------------------------------------------------------------------------
(***************************************************************************)
(* Shutdown, on the game thread: the pipeline, then the pool               *)
(***************************************************************************)
Ids(seq) == {seq[i] : i \in DOMAIN seq}

Shutdown ==
  /\ InLoop
  /\ stop' = TRUE
  /\ cancelled' = cancelled \cup Ids(jobs) \cup ({inflight} \ {NoRequest})
  /\ game' = [Loop EXCEPT !.stage = "joining"]
  /\ UNCHANGED <<poolVars, jobs, completions, active, inflight, running, loader, batch,
                 sessions, requests>>

Join ==
  /\ game.stage = "joining"
  /\ loader.stage = "gone"
  /\ game' = [Loop EXCEPT !.stage = "stopped"]
  /\ jobs' = <<>> /\ completions' = <<>> /\ active' = {} /\ cancelled' = {}
  /\ inflight' = NoRequest
  /\ running' = FALSE
  /\ UNCHANGED <<poolVars, stop, loader, batch, sessions, requests>>

\* shutdown_mysql
ClosePool ==
  /\ game.stage = "stopped"
  /\ CloseBegin
  /\ UNCHANGED loadVars

----------------------------------------------------------------------------
LoaderNext == Start \/ Take \/ Check \/ LoaderAcquires \/ LoaderReads \/ Publish \/ Leave

GameNext ==
  \/ \E s \in Sessions : Select(s) \/ SelectAndWait(s) \/ Close(s)
  \/ WaitFound \/ WaitEnds \/ GameAcquires \/ GameCannotRead \/ GameReads
  \/ Pulse \/ Deliver \/ Shutdown \/ Join \/ ClosePool

\* The other borrowers do as they please.
Others == Threads \ {Loader, Game}

InPool ==
  /\ \/ \E t \in Threads : PoolStep(t)
     \/ \E t \in Others : Acquire(t) \/ Release(t) \/ Break(t)
     \/ CloseEnd \/ LoseLock
  /\ UNCHANGED loadVars

Next == LoaderNext \/ GameNext \/ InPool

\* Threads run, connects and reads end (every connection has its timeouts), and the
\* game loop goes on taking results; nobody has to select or to close anything.
Fairness ==
  /\ WF_vars(LoaderNext)
  /\ WF_vars(WaitFound) /\ WF_vars(WaitEnds)
  /\ WF_vars(GameAcquires) /\ WF_vars(GameReads)
  /\ WF_vars(Pulse) /\ WF_vars(Deliver) /\ WF_vars(Join)
  /\ \A t \in Threads : WF_vars(PoolStep(t) /\ UNCHANGED loadVars)
  /\ \A t \in Others : WF_vars(Release(t) /\ UNCHANGED loadVars)
  /\ WF_vars(CloseEnd /\ UNCHANGED loadVars)

Spec == Init /\ [][Next]_vars
FairSpec == Spec /\ Fairness

----------------------------------------------------------------------------
(***************************************************************************)
(* Properties                                                              *)
(***************************************************************************)
\* Every variable has its type.
TypeOK ==
  /\ PoolTypeOK
  /\ jobs \in Seq(Requests) /\ Len(jobs) =< MaxPending
  /\ \A i \in DOMAIN completions : completions[i].id \in Requests
                                   /\ completions[i].outcome \in Outcomes
  /\ active \subseteq Requests /\ cancelled \subseteq Requests
  /\ inflight \in Requests \cup {NoRequest}
  /\ loader.stage \in {"starting", "idle", "taken", "executing", "reading", "read", "gone"}
  /\ game.stage \in {"loop", "waiting", "sync", "reading", "retry", "rereading", "joining",
                     "stopped"}
  /\ state \in [Sessions -> {"menu", "loading", "playing", "closed"}]
  /\ awaits \in [Sessions -> Requests \cup {NoRequest}]
  /\ requests \in 0 .. MaxRequests

\* The requests on their way: queued, in the loader's hands, or published.
OnTheWay ==
  jobs \o (IF inflight = NoRequest THEN <<>> ELSE <<inflight>>)
       \o [i \in DOMAIN completions |-> completions[i].id]

\* active_ids holds exactly the requests on their way, each of them once, and a
\* cancellation is kept only for one of them: neither a late cancellation, nor a wait
\* that timed out, nor a shutdown leaves an id behind, which would use up
\* PLAYER_LOAD_MAX_PENDING for good.
NothingLeaks ==
  /\ active = Ids(OnTheWay)
  /\ Cardinality(active) = Len(OnTheWay)
  /\ cancelled \subseteq active

\* The pipeline's variables have their types, within PLAYER_LOAD_MAX_PENDING, and no
\* request or cancellation is left behind.
PipelineInv == TypeOK /\ NothingLeaks

\* The request of a session that closed never reaches the pulse as a loaded character,
\* wherever the cancellation met it: in the queue, before, during or after the read, or
\* published (player_load_pipeline.c: "Completion publication and descriptor
\* cancellation race on separate threads").
ClosedIsCancelled ==
  \A s \in Sessions, i \in DOMAIN completions :
    state[s] = "closed" /\ completions[i].id = awaits[s] => completions[i].outcome = "cancelled"

\* The pipeline uses the pool as its callers must: what its threads do to the pool is
\* a behaviour of the pool's specification.
ImplementsPool == PoolSpec

\* A session that waits for its character stops waiting, unless the server stops or
\* the loader could not start.
EveryLoadEnds ==
  \A s \in Sessions : state[s] = "loading" ~> (state[s] # "loading" \/ stop)
=============================================================================
