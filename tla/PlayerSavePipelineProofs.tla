----------------------- MODULE PlayerSavePipelineProofs -----------------------
(***************************************************************************)
(* What holds of the save pipeline for every number of players, components,*)
(* revisions, crashes and failures: the types, what a recipient fence      *)
(* excludes, that nothing the pipeline has acknowledged or journaled is    *)
(* lost and, where loads wait for the saves of their character, that table,*)
(* row, journal and the character in the game agree.                       *)
(***************************************************************************)
EXTENDS PlayerSavePipeline, SequenceLemmas

Done == [capture : Snapshot, outcome : Saved \cup {"terminal_failure"}]

(***************************************************************************)
(* The types, component by component, with what the writer's state says of *)
(* its parts.                                                              *)
(***************************************************************************)
Fences == [held : BOOLEAN, revision : Rev!Revisions, journaled : BOOLEAN, acknowledged : BOOLEAN]
Rows == [revision : Rev!Revisions, values : Values]
Characters == [online : BOOLEAN, values : Values]
Changes == [pid : Pids, values : Values]

TableTyped == revision_states \in [Pids -> Rev!Entry]
QueuesTyped ==
  /\ pending_append \in Seq(Snapshot) /\ durable_ready \in Seq(Snapshot)
  /\ append_inflight \in Seq(Snapshot) /\ Len(append_inflight) <= 1
FencesTyped ==
  /\ accepting \in BOOLEAN
  /\ terminal_fences \in [Pids -> Fences]
  /\ target_save_login_fences \in [Pids -> BOOLEAN]
GameTyped ==
  game \in [step : {"idle", "submitting", "checking", "joining"}, left : 0 .. Budget, wait : Waits]
ReplayTyped ==
  todo \subseteq Snapshot /\ replayed \in [Pids -> Rev!Revisions] /\ replaying \in BOOLEAN
WriterTyped ==
  /\ w_pending \in Seq(Snapshot) /\ w_taken \in BOOLEAN /\ w_completions \in Seq(Done)
  /\ w_outcome \in Saved \cup {"terminal_failure", "none"}
  /\ w_taken => w_pending # <<>>
  /\ w_outcome # "none" => w_taken
StoreTyped == journal \subseteq Snapshot /\ db \in [Pids -> Rows]
LiveTyped == live \in [Pids -> Characters] /\ history \in Seq(Changes)

Typed ==
  /\ TableTyped /\ QueuesTyped /\ FencesTyped /\ GameTyped /\ ReplayTyped
  /\ WriterTyped /\ StoreTyped /\ LiveTyped

LEMMA TypedIsTypeOK == Typed => TypeOK
<1> SUFFICES ASSUME Typed PROVE TypeOK
  OBVIOUS
<1>1. ASSUME NEW i \in DOMAIN w_completions PROVE w_completions[i].capture \in Snapshot
  <2>1. w_completions[i] \in Done
    BY DEF Typed, WriterTyped
  <2> QED BY <2>1 DEF Done
<1> QED BY <1>1 DEF Typed, TableTyped, QueuesTyped, FencesTyped, GameTyped, ReplayTyped, WriterTyped,
              StoreTyped, LiveTyped, TypeOK, Rev!TypeOK, Fences, Rows, Characters

LEMMA RevisionNumbers ==
  /\ 0 \in Rev!Revisions
  /\ \A r \in Rev!Revisions : r \in Nat /\ r <= MaxRevision
  /\ \A r \in Nat : r <= MaxRevision => r \in Rev!Revisions
BY LimitAssumption DEF Rev!Revisions

-----------------------------------------------------------------------------
(***************************************************************************)
(* The entries of the revision table.                                      *)
(***************************************************************************)
LEMMA HydratedEntry ==
  ASSUME NEW d \in Rev!Revisions
  PROVE  Rev!Hydrated(d) \in Rev!Entry
BY RevisionNumbers DEF Rev!Hydrated, Rev!Entry

LEMMA AbsentEntry == Rev!Absent \in Rev!Entry /\ ~Rev!Absent.present
<1>1. Rev!Hydrated(0) \in Rev!Entry
  BY HydratedEntry, RevisionNumbers
<1> HIDE DEF Rev!Hydrated
<1> QED BY <1>1 DEF Rev!Absent, Rev!Entry

LEMMA MarkedEntry ==
  ASSUME NEW e \in Rev!Entry, NEW comps \in SUBSET Components, e.current < MaxRevision
  PROVE  /\ Rev!Marked(e, comps) \in Rev!Entry
         /\ Rev!Marked(e, comps).current = e.current + 1
         /\ e.current + 1 \in Rev!Revisions
<1>1. e.current + 1 \in Rev!Revisions
  <2>1. e.current \in Nat
    BY RevisionNumbers DEF Rev!Entry
  <2> QED BY <2>1, LimitAssumption DEF Rev!Revisions
<1> QED BY <1>1 DEF Rev!Marked, Rev!Entry

LEMMA SealedEntry ==
  ASSUME NEW e \in Rev!Entry
  PROVE  /\ Rev!Sealed(e) \in Rev!Entry
         /\ Rev!Sealed(e).current = e.current
         /\ Rev!Sealed(e).queued_revision = e.current
         /\ Rev!Sealed(e).queued = e.unacknowledged
BY DEF Rev!Sealed, Rev!Entry

LEMMA DurablyAcknowledgedEntry ==
  ASSUME NEW e \in Rev!Entry, NEW r \in Rev!Revisions, NEW comps \in SUBSET Components
  PROVE  Rev!DurablyAcknowledged(e, r, comps) \in Rev!Entry
<1> DEFINE covered == Rev!Covered(e, r, comps)
           queued == e.queued \ covered
           inflight == e.inflight \ (covered \cap e.unacknowledged)
<1>1. queued \in SUBSET Components /\ inflight \in SUBSET Components
      /\ e.unacknowledged \ covered \in SUBSET Components /\ e.dirty \ covered \in SUBSET Components
  BY DEF Rev!Entry
<1>2. (IF queued = {} THEN 0 ELSE e.queued_revision) \in Rev!Revisions
      /\ (IF inflight = {} THEN 0 ELSE e.inflight_revision) \in Rev!Revisions
  BY RevisionNumbers DEF Rev!Entry
<1>3. Rev!Later(e.acknowledged, r) \in Rev!Revisions
  BY DEF Rev!Later, Rev!Entry
<1> HIDE DEF covered, queued, inflight
<1>4. Rev!DurablyAcknowledged(e, r, comps) =
        [e EXCEPT !.unacknowledged = @ \ covered, !.dirty = @ \ covered,
                  !.queued = queued, !.inflight = inflight,
                  !.queued_revision = IF queued = {} THEN 0 ELSE @,
                  !.inflight_revision = IF inflight = {} THEN 0 ELSE @,
                  !.acknowledged = Rev!Later(@, r)]
  BY Zenon DEF Rev!DurablyAcknowledged, covered, queued, inflight
<1> QED BY <1>1, <1>2, <1>3, <1>4, ZenonT(60) DEF Rev!Entry

LEMMA AcknowledgedEntry ==
  ASSUME NEW e \in Rev!Entry, NEW done \in Done
  PROVE  Acknowledged(e, done) \in Rev!Entry
<1>1. done.capture.revision \in Rev!Revisions /\ done.capture.components \in SUBSET Components
  BY DEF Done, Snapshot
<1> QED BY <1>1, DurablyAcknowledgedEntry DEF Acknowledged

\* The completions of a pulse are acknowledged one after the other, and the table keeps its
\* type all the while.
LEMMA CompletedSteps ==
  ASSUME revision_states \in [Pids -> Rev!Entry], w_completions \in Seq(Done),
         NEW n \in 0 .. Len(w_completions)
  PROVE  \E f : /\ f[0] = revision_states /\ f[n] = Completed(n)
                /\ \A i \in 0 .. n : f[i] \in [Pids -> Rev!Entry]
                /\ \A i \in 1 .. n :
                     f[i] = [f[i - 1] EXCEPT ![w_completions[i].capture.owner] =
                               Acknowledged(@, w_completions[i])]
<1>0. PICK Table : Table = [Pids -> Rev!Entry]
  OBVIOUS
<1> DEFINE Step(t, i) == [t EXCEPT ![w_completions[i].capture.owner] =
                            Acknowledged(@, w_completions[i])]
           F == [i \in 1 .. n |-> [t \in Table |-> Step(t, i)]]
<1>1. Len(w_completions) \in Nat /\ n \in Nat
  OBVIOUS
<1>2. ASSUME NEW t \in Table, NEW i \in 1 .. n PROVE Step(t, i) \in Table
  <2>1. w_completions[i] \in Done
    BY <1>1
  <2>2. w_completions[i].capture.owner \in Pids
    BY <2>1 DEF Done, Snapshot
  <2>3. Acknowledged(t[w_completions[i].capture.owner], w_completions[i]) \in Rev!Entry
    BY <1>0, <2>1, <2>2, AcknowledgedEntry
  <2> QED BY <1>0, <2>2, <2>3
<1> HIDE DEF Step
<1>3. F \in [1 .. n -> [Table -> Table]]
  BY <1>2
<1>4. \A i \in 1 .. n : \A t \in Table : F[i][t] = Step(t, i)
  <2>1. ASSUME NEW i \in 1 .. n PROVE F[i] = [t \in Table |-> Step(t, i)]
    OBVIOUS
  <2> HIDE DEF F
  <2> QED BY <2>1
<1> HIDE DEF F
<1>5. revision_states \in Table
  BY <1>0
<1>6a. PICK g : Follows(g, Table, revision_states, F, n)
  BY <1>1, <1>3, <1>5, Iterated
<1>6. /\ g \in [0 .. n -> Table] /\ g[0] = revision_states
      /\ \A i \in 1 .. n : g[i] = F[i][g[i - 1]]
  BY <1>6a DEF Follows
<1>7. ASSUME NEW i \in 1 .. n PROVE g[i] = Step(g[i - 1], i)
  <2>1. i - 1 \in 0 .. n
    OBVIOUS
  <2> QED BY <1>4, <1>6, <2>1
<1> DEFINE Unfolds(f) == f = [i \in 0 .. n |-> IF i = 0 THEN revision_states
                                                ELSE Step(f[i - 1], i)]
<1>8. Unfolds(g)
  <2>1. ASSUME NEW i \in 0 .. n
        PROVE  g[i] = IF i = 0 THEN revision_states ELSE Step(g[i - 1], i)
    BY <1>1, <1>6, <1>7
  <2> QED BY <1>6, <2>1
<1> DEFINE f == CHOOSE f : Unfolds(f)
<1>9. Unfolds(f)
  <2> HIDE DEF Unfolds
  <2> QED BY <1>8
<1>10. Completed(n) = f[n]
  BY Zenon DEF Completed, Step
<1> HIDE DEF f
<1>11. f[0] = revision_states /\ \A i \in 1 .. n : f[i] = Step(f[i - 1], i)
  BY <1>1, <1>9
<1> DEFINE T == {i \in 0 .. n : f[i] \in Table}
<1>12. 0 \in T
  BY <1>1, <1>5, <1>11
<1>13. ASSUME NEW i \in 1 .. n, i - 1 \in T PROVE i \in T
  BY <1>2, <1>11, <1>13
<1>14. 0 .. n \subseteq T
  <2> HIDE DEF T
  <2> QED BY <1>1, <1>12, <1>13, UpTo
<1>15. \A i \in 0 .. n : f[i] \in [Pids -> Rev!Entry]
  BY <1>0, <1>14
<1>16. \A i \in 1 .. n : f[i] = [f[i - 1] EXCEPT ![w_completions[i].capture.owner] =
                                   Acknowledged(@, w_completions[i])]
  BY <1>11 DEF Step
<1> QED BY <1>10, <1>11, <1>15, <1>16

LEMMA CompletedEntries ==
  ASSUME revision_states \in [Pids -> Rev!Entry], w_completions \in Seq(Done),
         NEW n \in 0 .. Len(w_completions)
  PROVE  Completed(n) \in [Pids -> Rev!Entry]
<1>1. n \in 0 .. n
  OBVIOUS
<1> QED BY <1>1, CompletedSteps

-----------------------------------------------------------------------------
(***************************************************************************)
(* Captures, fences and queues.                                            *)
(***************************************************************************)
LEMMA CaptureTyped ==
  ASSUME LiveTyped, NEW p \in Pids, NEW e \in Rev!Entry, NEW death \in BOOLEAN
  PROVE  /\ Capture(p, e, death) \in Snapshot
         /\ Capture(p, e, death).owner = p
         /\ Capture(p, e, death).revision = e.queued_revision
<1>1. live[p].values \in [Components -> 0 .. MaxChanges]
  BY DEF LiveTyped, Characters, Values
<1>2. [c \in Components |-> IF c \in e.queued THEN live[p].values[c] ELSE 0] \in Values
  BY <1>1, LimitAssumption DEF Values
<1> QED BY <1>2 DEF Capture, Snapshot, Rev!Entry

LEMMA FenceTyped ==
  /\ NoFence \in Fences /\ ~NoFence.held /\ ~NoFence.journaled /\ ~NoFence.acknowledged
  /\ \A r \in Rev!Revisions :
       /\ Fence(r) \in Fences /\ Fence(r).revision = r
       /\ Fence(r).held /\ ~Fence(r).journaled /\ ~Fence(r).acknowledged
BY RevisionNumbers DEF NoFence, Fence, Fences

\* Admission keeps the captures that were pending, appends the new one where its owner has
\* none, or puts it in the place of one of the same owner.
Placed(q, s) ==
  /\ ~target_save_login_fences[s.owner]
  /\ \/ /\ q = Append(pending_append, s)
        /\ \A i \in 1 .. Len(pending_append) : pending_append[i].owner # s.owner
     \/ \E m \in 1 .. Len(pending_append) :
          /\ pending_append[m].owner = s.owner
          /\ q \in Seq(Snapshot) /\ Len(q) = Len(pending_append)
          /\ \A i \in 1 .. Len(pending_append) : q[i] = (IF i = m THEN s ELSE pending_append[i])

LEMMA EnqueuedPlaces ==
  ASSUME pending_append \in Seq(Snapshot), NEW s \in Snapshot, NEW fits,
         NEW q, q = Enqueued(s, fits), q # pending_append
  PROVE  Placed(q, s)
<1> DEFINE mine == OfOwner(pending_append, s.owner)
<1>0. /\ Len(pending_append) \in Nat /\ mine \subseteq 1 .. Len(pending_append)
      /\ \A i \in mine : pending_append[i].owner = s.owner
      /\ \A i \in 1 .. Len(pending_append) : pending_append[i].owner = s.owner => i \in mine
  BY DEF OfOwner
<1>2. CASE EnqueueResult(s, fits) = "coalesced"
  <2>1. mine # {} /\ ~target_save_login_fences[s.owner]
    BY <1>2, Zenon DEF EnqueueResult
  <2>2. Min(mine) \in mine
    <3> HIDE DEF mine
    <3>1. mine \subseteq Nat
      BY <1>0
    <3>2. \E x \in mine : \A y \in mine : x =< y
      BY <2>1, <3>1, Least
    <3> QED BY <3>2 DEF Min
  <2>3. q = [pending_append EXCEPT ![Min(mine)] = s]
    BY <1>2 DEF Enqueued, ReplaceAt
  <2>4. PICK m \in 1 .. Len(pending_append) : m = Min(mine) /\ pending_append[m].owner = s.owner
    BY <1>0, <2>2
  <2>5. q \in Seq(Snapshot) /\ Len(q) = Len(pending_append)
    BY <1>0, <2>3, <2>4
  <2>6. \A i \in 1 .. Len(pending_append) : q[i] = (IF i = m THEN s ELSE pending_append[i])
    BY <2>3, <2>4
  <2> QED BY <2>1, <2>4, <2>5, <2>6 DEF Placed
<1>3. CASE EnqueueResult(s, fits) = "queued"
  <2>1. ~target_save_login_fences[s.owner] /\ mine = {}
    BY <1>3, Zenon DEF EnqueueResult
  <2>2. q = Append(pending_append, s)
    BY <1>3 DEF Enqueued
  <2>3. \A i \in 1 .. Len(pending_append) : pending_append[i].owner # s.owner
    BY <2>1 DEF OfOwner
  <2> QED BY <2>1, <2>2, <2>3 DEF Placed
<1>4. EnqueueResult(s, fits) # "coalesced" /\ EnqueueResult(s, fits) # "queued" => q = pending_append
  BY DEF Enqueued
<1> QED BY <1>2, <1>3, <1>4

LEMMA EnqueuedCaptures ==
  ASSUME pending_append \in Seq(Snapshot), NEW s \in Snapshot, NEW fits,
         NEW q, q = Enqueued(s, fits)
  PROVE  /\ q \in Seq(Snapshot)
         /\ \A i \in 1 .. Len(q) :
              q[i] = s \/ \E j \in 1 .. Len(pending_append) : q[i] = pending_append[j]
         /\ target_save_login_fences[s.owner] => q = pending_append
<1>1. CASE q = pending_append
  BY <1>1
<1>2. CASE q # pending_append
  <2>1. Placed(q, s)
    BY <1>2, EnqueuedPlaces
  <2>2. CASE q = Append(pending_append, s)
    <3>1. /\ q \in Seq(Snapshot)
          /\ \A i \in 1 .. Len(q) :
               q[i] = s \/ \E j \in 1 .. Len(pending_append) : q[i] = pending_append[j]
      BY <2>2, Appended
    <3> QED BY <2>1, <3>1 DEF Placed
  <2>3. ASSUME NEW m \in 1 .. Len(pending_append), q \in Seq(Snapshot), Len(q) = Len(pending_append),
               \A i \in 1 .. Len(pending_append) : q[i] = (IF i = m THEN s ELSE pending_append[i])
        PROVE  /\ q \in Seq(Snapshot)
               /\ \A i \in 1 .. Len(q) :
                    q[i] = s \/ \E j \in 1 .. Len(pending_append) : q[i] = pending_append[j]
    BY <2>3
  <2> QED BY <2>1, <2>2, <2>3 DEF Placed
<1> QED BY <1>1, <1>2

-----------------------------------------------------------------------------
(***************************************************************************)
(* Each action keeps the types.                                            *)
(***************************************************************************)
\* The entry of a player who is marked, and its terminal form
LEMMA TerminalTyped ==
  ASSUME Typed, NEW p \in Pids, Rev!MarkAccepts(p, Components)
  PROVE  /\ TerminalEntry(p) \in Rev!Entry
         /\ Rev!Sealed(TerminalEntry(p)) \in Rev!Entry
         /\ TerminalEntry(p).current = revision_states[p].current + 1
         /\ TerminalEntry(p).current \in Rev!Revisions
         /\ Rev!Sealed(TerminalEntry(p)).current = TerminalEntry(p).current
         /\ Rev!Sealed(TerminalEntry(p)).queued_revision = TerminalEntry(p).current
<1>1. revision_states[p] \in Rev!Entry /\ revision_states[p].current < MaxRevision
  BY DEF Typed, TableTyped, Rev!MarkAccepts
<1>2. Components \in SUBSET Components
  OBVIOUS
<1>3. /\ TerminalEntry(p) \in Rev!Entry
      /\ TerminalEntry(p).current = revision_states[p].current + 1
      /\ revision_states[p].current + 1 \in Rev!Revisions
  BY <1>1, <1>2, MarkedEntry DEF TerminalEntry
<1> QED BY <1>3, SealedEntry

LEMMA ChangeTyped ==
  ASSUME Typed, NEW p \in Pids, NEW comps \in SUBSET Components, Change(p, comps)
  PROVE  Typed'
<1>1. revision_states[p] \in Rev!Entry /\ revision_states[p].current < MaxRevision
      /\ revision_states' = [revision_states EXCEPT ![p] = Rev!Marked(revision_states[p], comps)]
  BY DEF Typed, TableTyped, Change, Rev!Mark, Rev!MarkAccepts, Rev!Update
<1>2. Rev!Marked(revision_states[p], comps) \in Rev!Entry
      /\ revision_states[p].current + 1 \in Rev!Revisions
  BY <1>1, MarkedEntry
<1>3. TableTyped'
  BY <1>1, <1>2 DEF Typed, TableTyped
<1>4. FencesTyped'
  <2>1. Advanced(terminal_fences[p], revision_states[p].current + 1) \in Fences
    BY <1>2, FenceTyped DEF Advanced, Typed, FencesTyped
  <2>2. terminal_fences' = [terminal_fences EXCEPT ![p] =
           Advanced(terminal_fences[p], revision_states[p].current + 1)]
    BY DEF Change
  <2> QED BY <2>1, <2>2 DEF Change, Typed, FencesTyped
<1>5. LiveTyped'
  <2>0. history \in Seq(Changes) /\ live \in [Pids -> Characters]
    BY DEF Typed, LiveTyped
  <2>1. Len(history) \in Nat /\ Len(history) < MaxChanges
    BY <2>0 DEF Change
  <2>2. Len(history) + 1 \in 0 .. MaxChanges
    BY <2>1, LimitAssumption
  <2>3. Changed(p, comps) \in Values
    BY <2>0, <2>2 DEF Changed, Values, Characters
  <2>4. live' = [live EXCEPT ![p].values = Changed(p, comps)]
    BY DEF Change
  <2>5. live' \in [Pids -> Characters]
    BY <2>0, <2>3, <2>4 DEF Characters
  <2>6. PICK ch : ch = [pid |-> p, values |-> Changed(p, comps)]
    OBVIOUS
  <2>7. ch \in Changes /\ history' = Append(history, ch)
    BY <2>3, <2>6 DEF Changes, Change
  <2>8. history' \in Seq(Changes)
    BY <2>0, <2>7, Appended
  <2> QED BY <2>5, <2>8 DEF LiveTyped
<1>6. UNCHANGED <<pipeline, game, replay, writer, journal, db>>
  BY DEF Change
<1>7. QueuesTyped' /\ GameTyped' /\ ReplayTyped' /\ WriterTyped' /\ StoreTyped'
  BY <1>6 DEF Typed, QueuesTyped, GameTyped, ReplayTyped, WriterTyped, StoreTyped, pipeline, replay,
              writer
<1> QED BY <1>3, <1>4, <1>5, <1>7 DEF Typed

LEMMA CheckpointTyped ==
  ASSUME Typed, NEW p \in Pids, NEW captured \in BOOLEAN, NEW fits \in BOOLEAN,
         Checkpoint(p, captured, fits)
  PROVE  Typed'
<1>1. revision_states[p] \in Rev!Entry
      /\ revision_states' = [revision_states EXCEPT ![p] = Rev!Sealed(revision_states[p])]
  BY DEF Typed, TableTyped, Checkpoint, Rev!Queue, Rev!Update
<1>2. Rev!Sealed(revision_states[p]) \in Rev!Entry
  BY <1>1, SealedEntry
<1>3. TableTyped'
  BY <1>1, <1>2 DEF Typed, TableTyped
<1>4. Capture(p, Rev!Sealed(revision_states[p]), FALSE) \in Snapshot
  BY <1>2, CaptureTyped DEF Typed
<1>5. pending_append' \in Seq(Snapshot)
  BY <1>4, EnqueuedCaptures DEF Checkpoint, Typed, QueuesTyped
<1>6. UNCHANGED <<durable_ready, append_inflight, accepting, fences, game, replay, writer, journal, db,
                  live, ghosts>>
  BY DEF Checkpoint
<1>7. QueuesTyped' /\ FencesTyped' /\ GameTyped' /\ ReplayTyped' /\ WriterTyped' /\ StoreTyped'
      /\ LiveTyped'
  BY <1>5, <1>6 DEF Typed, QueuesTyped, GameTyped, ReplayTyped, WriterTyped, StoreTyped, FencesTyped,
                    LiveTyped, fences, replay, writer, ghosts
<1> QED BY <1>3, <1>7 DEF Typed

LEMMA AwaitTyped ==
  ASSUME Typed, NEW p \in Pids, Rev!MarkAccepts(p, Components), NEW handoff \in BOOLEAN
  PROVE  Await(p, handoff) \in [step : {"idle", "submitting", "checking", "joining"},
                                left : 0 .. Budget, wait : Waits]
<1>1. TerminalEntry(p).current \in Rev!Revisions
  BY TerminalTyped
<1>2. [for |-> "fence", pid |-> p, revision |-> TerminalEntry(p).current, handoff |-> handoff] \in Waits
  BY <1>1 DEF Waits
<1>3. 0 \in 0 .. Budget
  BY LimitAssumption
<1> QED BY <1>2, <1>3 DEF Await, Free

LEMMA TerminalStepTyped ==
  ASSUME Typed, NEW p \in Pids, NEW intent, NEW capture, NEW fits \in BOOLEAN,
         Terminal(p, intent, capture, fits)
  PROVE  Typed'
<1>0. Rev!MarkAccepts(p, Components)
  BY DEF Terminal, MayFence
<1>1. /\ TerminalEntry(p) \in Rev!Entry /\ Rev!Sealed(TerminalEntry(p)) \in Rev!Entry
      /\ Rev!Sealed(TerminalEntry(p)).current \in Rev!Revisions
  BY <1>0, TerminalTyped
<1>2. TableTyped'
  BY <1>1 DEF Terminal, Typed, TableTyped
<1>3. Capture(p, Rev!Sealed(TerminalEntry(p)), FALSE) \in Snapshot
  BY <1>1, CaptureTyped DEF Typed
<1>4. pending_append' \in Seq(Snapshot)
  BY <1>3, EnqueuedCaptures DEF Terminal, Typed, QueuesTyped
<1>5. GameTyped'
  <2>1. (intent = "linkdead") \in BOOLEAN
    OBVIOUS
  <2>2. game' = Await(p, intent = "linkdead")
    BY DEF Terminal
  <2> QED BY <1>0, <2>1, <2>2, AwaitTyped DEF GameTyped
<1>6. FencesTyped'
  BY <1>1, FenceTyped DEF Terminal, Typed, FencesTyped
<1>7. UNCHANGED <<durable_ready, append_inflight, replay, writer, journal, db, live, ghosts>>
  BY DEF Terminal
<1>8. QueuesTyped' /\ ReplayTyped' /\ WriterTyped' /\ StoreTyped' /\ LiveTyped'
  BY <1>4, <1>7 DEF Typed, QueuesTyped, ReplayTyped, WriterTyped, StoreTyped, LiveTyped, replay,
                    writer, ghosts
<1> QED BY <1>2, <1>5, <1>6, <1>8 DEF Typed

LEMMA TerminalDeathTyped ==
  ASSUME Typed, NEW p \in Pids, NEW captured \in BOOLEAN, NEW fits \in BOOLEAN,
         TerminalDeath(p, captured, fits)
  PROVE  Typed'
<1>0. Rev!MarkAccepts(p, Components)
  BY DEF TerminalDeath, MayFence
<1>1. /\ TerminalEntry(p) \in Rev!Entry /\ Rev!Sealed(TerminalEntry(p)) \in Rev!Entry
      /\ Rev!Sealed(TerminalEntry(p)).current \in Rev!Revisions
  BY <1>0, TerminalTyped
<1>2. TableTyped'
  BY <1>1 DEF TerminalDeath, Typed, TableTyped
<1>3. Capture(p, Rev!Sealed(TerminalEntry(p)), TRUE) \in Snapshot
  BY <1>1, CaptureTyped DEF Typed
<1>4. pending_append' \in Seq(Snapshot)
  BY <1>3, EnqueuedCaptures DEF TerminalDeath, Typed, QueuesTyped
<1>5. GameTyped'
  <2>1. game' = Await(p, FALSE) \/ game' = game
    BY DEF TerminalDeath
  <2> QED BY <1>0, <2>1, AwaitTyped DEF GameTyped, Typed
<1>6. FencesTyped'
  <2>1. \E f \in {Fence(Rev!Sealed(TerminalEntry(p)).current), NoFence} :
           terminal_fences' = [terminal_fences EXCEPT ![p] = f]
    BY DEF TerminalDeath
  <2> QED BY <1>1, <2>1, FenceTyped DEF TerminalDeath, Typed, FencesTyped
<1>7. UNCHANGED <<durable_ready, append_inflight, replay, writer, journal, db, live, ghosts>>
  BY DEF TerminalDeath
<1>8. QueuesTyped' /\ ReplayTyped' /\ WriterTyped' /\ StoreTyped' /\ LiveTyped'
  BY <1>4, <1>7 DEF Typed, QueuesTyped, ReplayTyped, WriterTyped, StoreTyped, LiveTyped, replay,
                    writer, ghosts
<1> QED BY <1>2, <1>5, <1>6, <1>8 DEF Typed

LEMMA SynchronousSaveTyped ==
  ASSUME Typed, NEW p \in Pids, NEW commits \in BOOLEAN, NEW answered \in BOOLEAN,
         SynchronousSave(p, commits, answered)
  PROVE  Typed'
<1>0. Rev!MarkAccepts(p, Components)
  BY DEF SynchronousSave
<1>1. TerminalEntry(p) \in Rev!Entry /\ TerminalEntry(p).current \in Rev!Revisions
  BY <1>0, TerminalTyped
<1>2. Rev!DurablyAcknowledged(TerminalEntry(p), TerminalEntry(p).current, Components) \in Rev!Entry
  BY <1>1, DurablyAcknowledgedEntry
<1>3. TableTyped'
  BY <1>1, <1>2 DEF SynchronousSave, Typed, TableTyped
<1>4. StoreTyped'
  <2>1. db' = db \/ db' = [db EXCEPT ![p] = [revision |-> TerminalEntry(p).current,
                                             values |-> live[p].values]]
    BY DEF SynchronousSave
  <2>2. live[p].values \in Values
    BY DEF Typed, LiveTyped, Characters
  <2>3. [revision |-> TerminalEntry(p).current, values |-> live[p].values] \in Rows
    BY <1>1, <2>2 DEF Rows
  <2> QED BY <2>1, <2>3 DEF SynchronousSave, Typed, StoreTyped
<1>5. UNCHANGED <<pipeline, accepting, fences, game, replay, writer, journal, live, ghosts>>
  BY DEF SynchronousSave
<1>6. QueuesTyped' /\ FencesTyped' /\ GameTyped' /\ ReplayTyped' /\ WriterTyped' /\ LiveTyped'
  BY <1>5 DEF Typed, QueuesTyped, GameTyped, ReplayTyped, WriterTyped, FencesTyped, LiveTyped,
              pipeline, fences, replay, writer, ghosts
<1> QED BY <1>3, <1>4, <1>6 DEF Typed

-----------------------------------------------------------------------------
(***************************************************************************)
(* The pulse.                                                              *)
(***************************************************************************)
\* What the completions of a pulse leave of the writer, the table and the fences
LEMMA CompletionsApplied ==
  ASSUME Typed, ApplyCompletions
  PROVE  /\ w_pending' = w_pending /\ w_taken' = w_taken
         /\ w_completions' \in Seq(Done)
         /\ \A i \in 1 .. Len(w_completions') :
              \E j \in 1 .. Len(w_completions) : w_completions'[i] = w_completions[j]
         /\ revision_states' \in [Pids -> Rev!Entry]
         /\ \A p \in Pids :
              \/ revision_states'[p] = revision_states[p]
              \/ \E j \in 1 .. Len(w_completions) : w_completions[j].capture.owner = p
         /\ terminal_fences' \in [Pids -> Fences]
         /\ \A p \in Pids :
              \/ terminal_fences'[p] = terminal_fences[p]
              \/ /\ terminal_fences'[p] = [terminal_fences[p] EXCEPT !.acknowledged = TRUE]
                 /\ \E j \in 1 .. Len(w_completions) :
                      /\ w_completions[j].capture.owner = p
                      /\ Acknowledges(terminal_fences[p], w_completions[j])
<1>0. w_completions \in Seq(Done) /\ Len(w_completions) \in Nat
  BY DEF Typed, WriterTyped
<1>1. PICK n \in 0 .. Len(w_completions) :
        n = IF Budget <= Len(w_completions) THEN Budget ELSE Len(w_completions)
  BY <1>0, LimitAssumption
<1> DEFINE rest == SubSeq(w_completions, n + 1, Len(w_completions))
           of(p) == {i \in 1 .. n : w_completions[i].capture.owner = p}
<1>2. /\ n = 0 \/ Writer!Consume(n)
      /\ n = 0 => UNCHANGED <<w_pending, w_taken, w_completions>>
      /\ revision_states' = [p \in Pids |-> IF of(p) = {} THEN revision_states[p]
                                            ELSE Retired(p, Completed(n)[p], rest)]
      /\ terminal_fences' =
           [p \in Pids |->
              IF \E i \in of(p) : Acknowledges(terminal_fences[p], w_completions[i])
              THEN [terminal_fences[p] EXCEPT !.acknowledged = TRUE]
              ELSE terminal_fences[p]]
  BY <1>1, Zenon DEF ApplyCompletions
<1>3. \A p, i : i \in of(p) => i \in 1 .. Len(w_completions) /\ w_completions[i].capture.owner = p
  BY <1>0, <1>1
<1>4. PICK r : r = rest
  OBVIOUS
<1>5. \A p : {} # of(p) => \E j \in 1 .. Len(w_completions) : w_completions[j].capture.owner = p
  BY <1>3
<1>6. r \in Seq(Done) /\ \A i \in 1 .. Len(r) : i + n \in 1 .. Len(w_completions) /\ r[i] = w_completions[i + n]
  BY <1>0, <1>4, Dropped
<1>7. /\ w_pending' = w_pending /\ w_taken' = w_taken
      /\ w_completions' = w_completions \/ w_completions' = r
  BY <1>2, <1>4 DEF Writer!Consume
<1>8. w_completions' \in Seq(Done)
      /\ \A i \in 1 .. Len(w_completions') :
           \E j \in 1 .. Len(w_completions) : w_completions'[i] = w_completions[j]
  BY <1>0, <1>6, <1>7
<1>9. Completed(n) \in [Pids -> Rev!Entry]
  BY <1>0, CompletedEntries DEF Typed, TableTyped
<1> HIDE DEF rest, of
<1>10. revision_states' \in [Pids -> Rev!Entry]
       /\ \A p \in Pids :
            \/ revision_states'[p] = revision_states[p]
            \/ \E j \in 1 .. Len(w_completions) : w_completions[j].capture.owner = p
  <2>1. ASSUME NEW p \in Pids PROVE Retired(p, Completed(n)[p], rest) \in Rev!Entry
    BY <1>9, AbsentEntry DEF Retired
  <2>2. \A p \in Pids : revision_states'[p] = IF of(p) = {} THEN revision_states[p]
                                              ELSE Retired(p, Completed(n)[p], rest)
    BY <1>2
  <2>3. revision_states' \in [Pids -> Rev!Entry]
    BY <1>2, <2>1 DEF Typed, TableTyped
  <2> QED BY <1>5, <2>2, <2>3
<1>11. ASSUME NEW p \in Pids
       PROVE  \/ terminal_fences'[p] = terminal_fences[p]
              \/ /\ terminal_fences'[p] = [terminal_fences[p] EXCEPT !.acknowledged = TRUE]
                 /\ \E j \in 1 .. Len(w_completions) :
                      /\ w_completions[j].capture.owner = p
                      /\ Acknowledges(terminal_fences[p], w_completions[j])
  <2>1. terminal_fences'[p] =
          IF \E i \in of(p) : Acknowledges(terminal_fences[p], w_completions[i])
          THEN [terminal_fences[p] EXCEPT !.acknowledged = TRUE]
          ELSE terminal_fences[p]
    BY <1>2
  <2> QED BY <1>3, <2>1
<1>12. terminal_fences' \in [Pids -> Fences]
  <2>1. \A p \in Pids : terminal_fences[p] \in Fences
                        /\ [terminal_fences[p] EXCEPT !.acknowledged = TRUE] \in Fences
    BY DEF Typed, FencesTyped, Fences
  <2> QED BY <1>2, <2>1
<1> QED BY <1>7, <1>8, <1>10, <1>11, <1>12

\* What the writer's queue is once it took a capture
LEMMA CapturePut ==
  ASSUME WriterTyped, NEW c \in Snapshot, Writer!Put(c)
  PROVE  /\ w_pending' \in Seq(Snapshot) /\ w_pending' # <<>>
         /\ \A i \in 1 .. Len(w_pending') :
              w_pending'[i] = c \/ \E j \in 1 .. Len(w_pending) : w_pending'[i] = w_pending[j]
         /\ \A i \in 1 .. Len(w_pending') :
              i = Len(w_pending') \/ (i \in 1 .. Len(w_pending) /\ w_pending'[i] = w_pending[i])
         /\ w_pending'[Len(w_pending')] = c
         /\ w_taken => w_pending'[1] = w_pending[1]
         /\ w_taken' = w_taken /\ w_completions' = w_completions
<1>0. w_pending \in Seq(Snapshot) /\ Len(w_pending) \in Nat
  BY DEF WriterTyped
<1>1. PICK b : b = IF Writer!Replaces(c) THEN Front(w_pending) ELSE w_pending
  OBVIOUS
<1>2. w_pending' = Append(b, c) /\ w_taken' = w_taken /\ w_completions' = w_completions
  BY <1>1 DEF Writer!Put, Writer!Front, Front
<1>3. b \in Seq(Snapshot) /\ (w_taken => Len(b) # 0)
      /\ \A i \in 1 .. Len(b) : i \in 1 .. Len(w_pending) /\ b[i] = w_pending[i]
  <2>1. CASE Writer!Replaces(c)
    <3>1. w_pending # <<>> /\ (w_taken => Tail(w_pending) # <<>>)
      <4>1. Writer!Waiting # <<>>
        BY <2>1 DEF Writer!Replaces
      <4>2. CASE w_taken
        BY <4>1, <4>2 DEF Writer!Waiting, WriterTyped
      <4>3. CASE ~w_taken
        BY <4>1, <4>3 DEF Writer!Waiting
      <4> QED BY <4>2, <4>3
    <3>2. b = Front(w_pending)
      BY <1>1, <2>1
    <3>3. /\ Len(w_pending) \in Nat \ {0} /\ b \in Seq(Snapshot)
          /\ Len(b) = Len(w_pending) - 1
          /\ \A i \in 1 .. Len(w_pending) - 1 : b[i] = w_pending[i]
      BY <1>0, <3>1, <3>2, FrontFacts
    <3>4. w_taken => Len(w_pending) # 1
      <4>1. PICK t : t = Tail(w_pending)
        OBVIOUS
      <4>2. t \in Seq(Snapshot) /\ Len(t) = Len(w_pending) - 1
        BY <1>0, <3>1, <4>1, Tailed
      <4> QED BY <3>1, <4>1, <4>2, EmptySeq
    <3> QED BY <3>3, <3>4
  <2>2. CASE ~Writer!Replaces(c)
    <3>1. b = w_pending
      BY <1>1, <2>2
    <3>2. w_taken => Len(b) # 0
      BY <1>0, <3>1, EmptySeq DEF WriterTyped
    <3> QED BY <1>0, <3>1, <3>2
  <2> QED BY <2>1, <2>2
<1>4. PICK t : t = w_pending'
  OBVIOUS
<1>5. /\ t \in Seq(Snapshot) /\ Len(b) \in Nat /\ Len(t) = Len(b) + 1
      /\ \A i \in 1 .. Len(b) : i \in 1 .. Len(t) /\ t[i] = b[i]
      /\ Len(b) + 1 \in 1 .. Len(t) /\ t[Len(b) + 1] = c
  BY <1>2, <1>3, <1>4, Appended
<1>6. t # <<>>
  BY <1>5, EmptySeq
<1>7. \A i \in 1 .. Len(t) : t[i] = c \/ \E j \in 1 .. Len(w_pending) : t[i] = w_pending[j]
  BY <1>3, <1>5
<1>8. w_taken => t[1] = w_pending[1]
  BY <1>3, <1>5
<1>9. \A i \in 1 .. Len(t) : i = Len(t) \/ (i \in 1 .. Len(w_pending) /\ t[i] = w_pending[i])
  BY <1>3, <1>5
<1>10. t[Len(t)] = c
  BY <1>5
<1> QED BY <1>2, <1>4, <1>5, <1>6, <1>7, <1>8, <1>9, <1>10

LEMMA PulseTyped ==
  ASSUME Typed, Pulse
  PROVE  Typed'
<1>0. ApplyCompletions
  BY DEF Pulse
<1>1. /\ w_pending' = w_pending /\ w_taken' = w_taken /\ w_completions' \in Seq(Done)
      /\ revision_states' \in [Pids -> Rev!Entry] /\ terminal_fences' \in [Pids -> Fences]
  BY <1>0, CompletionsApplied
<1>2. /\ game' = [game EXCEPT !.step = "submitting", !.left = Budget]
      /\ UNCHANGED <<pipeline, accepting, target_save_login_fences, replay, w_outcome, journal, db,
                     live, ghosts>>
  BY DEF Pulse
<1>3. TableTyped' /\ FencesTyped' /\ WriterTyped'
  BY <1>1, <1>2 DEF TableTyped, FencesTyped, WriterTyped, Typed
<1>4. GameTyped'
  <2>1. Budget \in 0 .. Budget
    BY LimitAssumption
  <2> QED BY <1>2, <2>1 DEF GameTyped, Typed
<1>5. QueuesTyped' /\ ReplayTyped' /\ StoreTyped' /\ LiveTyped'
  BY <1>2 DEF Typed, QueuesTyped, ReplayTyped, StoreTyped, LiveTyped, pipeline, replay, ghosts
<1> QED BY <1>3, <1>4, <1>5 DEF Typed

LEMMA FreeTyped ==
  /\ Free \in [step : {"idle", "submitting", "checking", "joining"}, left : 0 .. Budget, wait : Waits]
  /\ Free.step = "idle" /\ Free.wait = NoWait /\ NoWait.for = "nothing"
BY LimitAssumption DEF Free, NoWait, Waits

LEMMA DrainSucceedsTyped ==
  ASSUME Typed, DrainSucceeds
  PROVE  Typed'
<1>0. ApplyCompletions
  BY DEF DrainSucceeds
<1>1. /\ w_pending' = w_pending /\ w_taken' = w_taken /\ w_completions' \in Seq(Done)
      /\ revision_states' \in [Pids -> Rev!Entry] /\ terminal_fences' \in [Pids -> Fences]
  BY <1>0, CompletionsApplied
<1>2. /\ game' = Free
      /\ UNCHANGED <<pipeline, accepting, target_save_login_fences, replay, w_outcome, journal, db,
                     live, ghosts>>
  BY DEF DrainSucceeds
<1>3. TableTyped' /\ FencesTyped' /\ WriterTyped'
  BY <1>1, <1>2 DEF TableTyped, FencesTyped, WriterTyped, Typed
<1>4. GameTyped'
  BY <1>2, FreeTyped DEF GameTyped
<1>5. QueuesTyped' /\ ReplayTyped' /\ StoreTyped' /\ LiveTyped'
  BY <1>2 DEF Typed, QueuesTyped, ReplayTyped, StoreTyped, LiveTyped, pipeline, replay, ghosts
<1> QED BY <1>3, <1>4, <1>5 DEF Typed

LEMMA PulseSubmitTyped ==
  ASSUME Typed, PulseSubmit
  PROVE  Typed'
<1>0. durable_ready # <<>> /\ game.left > 0 /\ Writer!Put(Head(durable_ready))
  BY DEF PulseSubmit, MaySubmit
<1>1. PICK t : t = Tail(durable_ready)
  OBVIOUS
<1>2. Head(durable_ready) \in Snapshot /\ t \in Seq(Snapshot)
  BY <1>0, <1>1, Tailed DEF Typed, QueuesTyped
<1>3. /\ durable_ready' = t
      /\ game' = [game EXCEPT !.left = @ - 1]
      /\ UNCHANGED <<revision_states, pending_append, append_inflight, accepting, fences, replay,
                     w_outcome, journal, db, live, ghosts>>
  BY <1>1 DEF PulseSubmit
<1>4. WriterTyped'
  <2>1. w_pending' \in Seq(Snapshot) /\ w_pending' # <<>> /\ w_taken' = w_taken
        /\ w_completions' = w_completions
    BY <1>0, <1>2, CapturePut DEF Typed
  <2> QED BY <1>3, <2>1 DEF Typed, WriterTyped
<1>5. GameTyped'
  BY <1>0, <1>3, LimitAssumption DEF Typed, GameTyped
<1>6. TableTyped' /\ QueuesTyped' /\ FencesTyped' /\ ReplayTyped' /\ StoreTyped' /\ LiveTyped'
  BY <1>2, <1>3 DEF Typed, TableTyped, QueuesTyped, FencesTyped, ReplayTyped, StoreTyped, LiveTyped,
                    fences, replay, ghosts
<1> QED BY <1>4, <1>5, <1>6 DEF Typed

\* Steps of the game thread that leave all but itself and the admission alone
LEMMA GameStepTyped ==
  ASSUME Typed, GameTyped', accepting' \in BOOLEAN, target_save_login_fences' \in [Pids -> BOOLEAN],
         UNCHANGED <<revision_states, pipeline, terminal_fences, replay, writer, journal, db, live,
                     history>>
  PROVE  Typed'
BY DEF Typed, TableTyped, QueuesTyped, FencesTyped, ReplayTyped, WriterTyped, StoreTyped, LiveTyped,
       pipeline, replay, writer

LEMMA PulseEndsTyped == ASSUME Typed, PulseEnds PROVE Typed'
<1>1. GameTyped'
  <2>1. 0 \in 0 .. Budget
    BY LimitAssumption
  <2> QED BY <2>1 DEF PulseEnds, Typed, GameTyped
<1> QED BY <1>1, GameStepTyped DEF PulseEnds, Typed, FencesTyped, fences, ghosts

LEMMA AwaitContinuesTyped == ASSUME Typed, AwaitContinues PROVE Typed'
<1>1. GameTyped'
  BY DEF AwaitContinues, Typed, GameTyped
<1> QED BY <1>1, GameStepTyped DEF AwaitContinues, Typed, FencesTyped, fences, ghosts

LEMMA AwaitTimesOutTyped == ASSUME Typed, AwaitTimesOut PROVE Typed'
<1>1. GameTyped'
  BY FreeTyped DEF AwaitTimesOut, GameTyped
<1> QED BY <1>1, GameStepTyped DEF AwaitTimesOut, Typed, FencesTyped, fences, ghosts

LEMMA ShortWaitTyped ==
  ASSUME NEW w \in {"drain", "join", "idle", "stop"}, NEW s \in {"idle", "joining"}
  PROVE  [step |-> s, left |-> 0, wait |-> [for |-> w]] \in
           [step : {"idle", "submitting", "checking", "joining"}, left : 0 .. Budget, wait : Waits]
<1>1. [for |-> w] \in Waits
  BY DEF Waits, Stops
<1>2. 0 \in 0 .. Budget
  BY LimitAssumption
<1> QED BY <1>1, <1>2

LEMMA DrainTyped == ASSUME Typed, Drain PROVE Typed'
<1>1. GameTyped'
  <2>1. game' = [step |-> "idle", left |-> 0, wait |-> [for |-> "drain"]]
    BY DEF Drain, Free
  <2> QED BY <2>1, ShortWaitTyped DEF GameTyped
<1> QED BY <1>1, GameStepTyped DEF Drain, Typed, FencesTyped, fences, ghosts

LEMMA ResumeTyped == ASSUME Typed, Resume PROVE Typed'
<1>1. GameTyped'
  BY DEF Resume, Typed, GameTyped
<1> QED BY <1>1, GameStepTyped DEF Resume, Typed, FencesTyped, fences, ghosts

LEMMA ShutdownTyped == ASSUME Typed, Shutdown PROVE Typed'
<1>1. GameTyped'
  <2>1. game' = [step |-> "joining", left |-> 0, wait |-> [for |-> "join"]]
    BY DEF Shutdown, Free
  <2> QED BY <2>1, ShortWaitTyped DEF GameTyped
<1> QED BY <1>1, GameStepTyped DEF Shutdown, Typed, FencesTyped, fences, ghosts

LEMMA JoinedTyped == ASSUME Typed, Joined PROVE Typed'
<1>1. GameTyped'
  <2>1. game' = [step |-> "idle", left |-> 0, wait |-> [for |-> "idle"]]
    BY DEF Joined, Free
  <2> QED BY <2>1, ShortWaitTyped DEF GameTyped
<1> QED BY <1>1, GameStepTyped DEF Joined, Typed, FencesTyped, fences, ghosts

LEMMA WriterIdlesTyped == ASSUME Typed, WriterIdles PROVE Typed'
<1>1. GameTyped'
  <2>1. game' = [step |-> "idle", left |-> 0, wait |-> [for |-> "stop"]]
    BY DEF WriterIdles, Free
  <2> QED BY <2>1, ShortWaitTyped DEF GameTyped
<1> QED BY <1>1, GameStepTyped DEF WriterIdles, Typed, FencesTyped, fences, ghosts

LEMMA TargetFenceTyped ==
  ASSUME Typed, NEW p \in Pids, AcquireTargetFence(p) \/ ReleaseTargetFence(p)
  PROVE  Typed'
<1>1. GameTyped' /\ accepting' \in BOOLEAN /\ target_save_login_fences' \in [Pids -> BOOLEAN]
      /\ UNCHANGED <<revision_states, pipeline, terminal_fences, replay, writer, journal, db, live,
                     history>>
  BY DEF AcquireTargetFence, ReleaseTargetFence, Typed, GameTyped, FencesTyped, ghosts
<1> QED BY <1>1, GameStepTyped

-----------------------------------------------------------------------------
(***************************************************************************)
(* The database and the journal.                                           *)
(***************************************************************************)
\* An application changes the row of its player only, never to an older revision, and
\* leaves it at the applied revision or a newer one.
LEMMA AppliedRows ==
  ASSUME db \in [Pids -> Rows], NEW s \in Snapshot
  PROVE  /\ Applied(s) \in [Pids -> Rows]
         /\ \A p \in Pids : db[p].revision <= Applied(s)[p].revision
         /\ s.revision <= Applied(s)[s.owner].revision
         /\ \A p \in Pids : p # s.owner => Applied(s)[p] = db[p]
<1>0. /\ s.owner \in Pids /\ s.revision \in Rev!Revisions /\ s.values \in Values
      /\ db[s.owner] \in Rows /\ db[s.owner].values \in Values
  BY DEF Snapshot, Rows
<1>1. \A p \in Pids : db[p].revision \in Nat
  BY RevisionNumbers DEF Rows
<1>2. s.revision \in Nat
  BY <1>0, RevisionNumbers
<1>3. CASE Newer(s)
  <2>1. PICK v : v = [c \in Components |-> IF c \in s.components THEN s.values[c]
                                           ELSE db[s.owner].values[c]]
    OBVIOUS
  <2>2. v \in Values
    BY <1>0, <2>1 DEF Values
  <2>3. Applied(s) = [db EXCEPT ![s.owner] = [revision |-> s.revision, values |-> v]]
    BY <1>3, <2>1 DEF Applied
  <2>4. [revision |-> s.revision, values |-> v] \in Rows
    BY <1>0, <2>2 DEF Rows
  <2>5. Applied(s) \in [Pids -> Rows] /\ Applied(s)[s.owner].revision = s.revision
        /\ \A p \in Pids : p # s.owner => Applied(s)[p] = db[p]
    BY <1>0, <2>3, <2>4
  <2>6. db[s.owner].revision <= s.revision
    BY <1>0, <1>1, <1>2, <1>3 DEF Newer
  <2>7. ASSUME NEW p \in Pids PROVE db[p].revision <= Applied(s)[p].revision
    BY <1>1, <2>5, <2>6
  <2> QED BY <1>2, <2>5, <2>7
<1>4. CASE ~Newer(s)
  <2>1. Applied(s) = db
    BY <1>4 DEF Applied
  <2>2. s.revision <= db[s.owner].revision
    BY <1>0, <1>1, <1>2, <1>4 DEF Newer
  <2> QED BY <1>1, <2>1, <2>2
<1> QED BY <1>3, <1>4

LEMMA MaxOfTwo ==
  ASSUME NEW a \in Nat, NEW b \in Nat
  PROVE  Max({a, b}) \in {a, b} /\ a <= Max({a, b}) /\ b <= Max({a, b})
<1>1. \E x \in {a, b} : \A y \in {a, b} : x >= y
  <2>1. CASE a <= b
    BY <2>1
  <2>2. CASE b <= a
    BY <2>2
  <2> QED BY <2>1, <2>2
<1> QED BY <1>1 DEF Max

\* What a wait for a fence names
LEMMA WaitsForFence ==
  ASSUME GameTyped, game.wait.for = "fence"
  PROVE  game.wait.pid \in Pids /\ game.wait.revision \in Rev!Revisions /\ game.wait.handoff \in BOOLEAN
<1>1. game.wait \in Waits
  BY DEF GameTyped
<1>2. game.wait \in [for : {"fence"}, pid : Pids, revision : Rev!Revisions, handoff : BOOLEAN]
  BY <1>1 DEF Waits, NoWait, Stops
<1> QED BY <1>2

LEMMA OfflineTyped == Offline \in Characters /\ ~Offline.online
<1>1. 0 \in 0 .. MaxChanges
  BY LimitAssumption
<1> QED BY <1>1 DEF Offline, Characters, Values

LEMMA AwaitSucceedsTyped ==
  ASSUME Typed, NEW leaves \in BOOLEAN, AwaitSucceeds(leaves)
  PROVE  Typed'
<1>0. game.wait.for = "fence"
  BY DEF AwaitSucceeds
<1>1. PICK p \in Pids : p = game.wait.pid
  BY <1>0, WaitsForFence DEF Typed
<1>2. /\ terminal_fences' = [terminal_fences EXCEPT ![p] = NoFence]
      /\ IF leaves THEN Leaves(p) ELSE UNCHANGED <<live, revision_states, released>>
      /\ game' = Free
      /\ UNCHANGED <<pipeline, accepting, target_save_login_fences, replay, writer, journal, db,
                     history>>
  BY <1>1 DEF AwaitSucceeds
<1>3. TableTyped'
  <2>1. revision_states[p] \in Rev!Entry
    BY DEF Typed, TableTyped
  <2>2. [revision_states[p] EXCEPT !.session_ended = TRUE] \in Rev!Entry
    BY <2>1 DEF Rev!Entry
  <2>3. \E e \in Rev!Entry : revision_states' = [revision_states EXCEPT ![p] = e]
                             \/ revision_states' = revision_states
    BY <1>2, <2>2, AbsentEntry DEF Leaves
  <2> QED BY <2>3 DEF Typed, TableTyped
<1>4. LiveTyped'
  BY <1>2, OfflineTyped DEF Leaves, Typed, LiveTyped
<1>5. FencesTyped' /\ GameTyped'
  BY <1>2, FenceTyped, FreeTyped DEF Typed, FencesTyped, GameTyped
<1>6. QueuesTyped' /\ ReplayTyped' /\ WriterTyped' /\ StoreTyped'
  BY <1>2 DEF Typed, QueuesTyped, ReplayTyped, WriterTyped, StoreTyped, pipeline, replay, writer
<1> QED BY <1>3, <1>4, <1>5, <1>6 DEF Typed

LEMMA LoginTyped ==
  ASSUME Typed, NEW p \in Pids, Login(p)
  PROVE  Typed'
<1>1. db[p].revision \in Rev!Revisions /\ db[p].values \in Values /\ revision_states[p] \in Rev!Entry
  BY DEF Typed, StoreTyped, TableTyped, Rows
<1>2. TableTyped'
  <2>1. Rev!Hydrated(db[p].revision) \in Rev!Entry
    BY <1>1, HydratedEntry
  <2>2. Rev!Rehydrated(revision_states[p], db[p].revision) \in Rev!Entry
    BY <1>1 DEF Rev!Rehydrated, Rev!Entry
  <2>3. \E e \in Rev!Entry : revision_states' = [revision_states EXCEPT ![p] = e]
    BY <1>1, <2>1, <2>2 DEF Login, Rev!Hydrate, Rev!Update
  <2> QED BY <2>3 DEF Typed, TableTyped
<1>3. LiveTyped'
  BY <1>1 DEF Login, Typed, LiveTyped, Characters
<1>4. UNCHANGED <<pipeline, accepting, fences, game, replay, writer, journal, db>>
  BY DEF Login
<1>5. QueuesTyped' /\ FencesTyped' /\ GameTyped' /\ ReplayTyped' /\ WriterTyped' /\ StoreTyped'
  BY <1>4 DEF Typed, QueuesTyped, GameTyped, ReplayTyped, WriterTyped, FencesTyped, StoreTyped,
              pipeline, fences, replay, writer
<1> QED BY <1>2, <1>3, <1>5 DEF Typed

\* The capture that the dispatcher holds
LEMMA Inflight ==
  ASSUME QueuesTyped, append_inflight # <<>>
  PROVE  /\ Head(append_inflight) \in Snapshot /\ Len(append_inflight) = 1
         /\ append_inflight[1] = Head(append_inflight) /\ Head(append_inflight).owner \in Pids
<1>1. Head(append_inflight) \in Snapshot /\ Len(append_inflight) = 1
      /\ append_inflight[1] = Head(append_inflight)
  <2>1. append_inflight \in Seq(Snapshot) /\ Len(append_inflight) <= 1
    BY DEF QueuesTyped
  <2>2. PICK t : t = Tail(append_inflight)
    OBVIOUS
  <2>3. /\ Head(append_inflight) = append_inflight[1] /\ append_inflight[1] \in Snapshot
        /\ 1 \in 1 .. Len(append_inflight) /\ Len(append_inflight) \in Nat
    BY <2>1, <2>2, Tailed
  <2>4. ASSUME NEW n \in Nat, n <= 1, 1 \in 1 .. n PROVE n = 1
    BY <2>4
  <2>5. Len(append_inflight) = 1
    BY <2>1, <2>3, <2>4
  <2> QED BY <2>3, <2>5, Zenon
<1> QED BY <1>1 DEF Snapshot

LEMMA SingleTyped ==
  ASSUME NEW s \in Snapshot, NEW t, t = <<s>>
  PROVE  t \in Seq(Snapshot) /\ Len(t) = 1 /\ t[1] = s
OBVIOUS

LEMMA EmptyTyped ==
  ASSUME NEW t, t = <<>>
  PROVE  t \in Seq(Snapshot) /\ t \in Seq(Done) /\ Len(t) = 0
OBVIOUS

LEMMA DispatchTakeTyped ==
  ASSUME Typed, DispatchTake
  PROVE  Typed'
<1>1. pending_append # <<>> /\ pending_append \in Seq(Snapshot)
  BY DEF DispatchTake, Typed, QueuesTyped
<1>2. PICK s, t : s = Head(pending_append) /\ t = Tail(pending_append)
  OBVIOUS
<1>3. s \in Snapshot /\ t \in Seq(Snapshot)
  BY <1>1, <1>2, Tailed
<1>4. append_inflight' = <<s>> /\ pending_append' = t
  BY <1>2 DEF DispatchTake
<1>5. append_inflight' \in Seq(Snapshot) /\ Len(append_inflight') = 1
  BY <1>3, <1>4, SingleTyped
<1>6. UNCHANGED <<revision_states, durable_ready, accepting, fences, game, replay, writer, journal,
                  db, live, ghosts>>
  BY DEF DispatchTake
<1>7. QueuesTyped'
  BY <1>3, <1>4, <1>5, <1>6 DEF Typed, QueuesTyped
<1>8. TableTyped' /\ FencesTyped' /\ GameTyped' /\ ReplayTyped' /\ WriterTyped' /\ StoreTyped'
      /\ LiveTyped'
  BY <1>6 DEF Typed, TableTyped, FencesTyped, GameTyped, ReplayTyped, WriterTyped, StoreTyped,
              LiveTyped, fences, replay, writer, ghosts
<1> QED BY <1>7, <1>8 DEF Typed

LEMMA AppendOKTyped ==
  ASSUME Typed, AppendOK
  PROVE  Typed'
<1>0. append_inflight # <<>>
  BY DEF AppendOK
<1>1. PICK s : s = Head(append_inflight)
  OBVIOUS
<1>2. s \in Snapshot /\ s.owner \in Pids
  BY <1>0, <1>1, Inflight DEF Typed
<1>3. /\ journal' = journal \cup {s}
      /\ durable_ready' = Append(durable_ready, s)
      /\ append_inflight' = <<>>
      /\ terminal_fences' =
           [terminal_fences EXCEPT ![s.owner].journaled =
              @ \/ (terminal_fences[s.owner].held /\ terminal_fences[s.owner].revision = s.revision)]
      /\ UNCHANGED <<revision_states, pending_append, accepting, target_save_login_fences, game,
                     replay, writer, db, live, ghosts>>
  BY <1>1 DEF AppendOK
<1>4. durable_ready' \in Seq(Snapshot)
  BY <1>2, <1>3, Appended DEF Typed, QueuesTyped
<1>5. append_inflight' \in Seq(Snapshot) /\ Len(append_inflight') = 0
  BY <1>3, EmptyTyped
<1>6. QueuesTyped'
  BY <1>3, <1>4, <1>5 DEF Typed, QueuesTyped
<1>7. FencesTyped'
  BY <1>2, <1>3 DEF Typed, FencesTyped, Fences
<1>8. TableTyped' /\ GameTyped' /\ ReplayTyped' /\ WriterTyped' /\ StoreTyped' /\ LiveTyped'
  BY <1>2, <1>3 DEF Typed, TableTyped, GameTyped, ReplayTyped, WriterTyped, StoreTyped, LiveTyped,
                    replay, writer, ghosts
<1> QED BY <1>6, <1>7, <1>8 DEF Typed

LEMMA AppendFailsTyped ==
  ASSUME Typed, NEW left \in BOOLEAN, AppendFails(left)
  PROVE  Typed'
<1>0. append_inflight # <<>>
  BY DEF AppendFails
<1>1. Head(append_inflight) \in Snapshot
  BY <1>0, Inflight DEF Typed
<1>2. PICK t : t = append_inflight \o pending_append
  OBVIOUS
<1>3. t \in Seq(Snapshot)
  BY <1>2, Concatenated DEF Typed, QueuesTyped
<1>4. /\ journal' \subseteq journal \cup {Head(append_inflight)}
      /\ pending_append' = t /\ append_inflight' = <<>>
      /\ UNCHANGED <<revision_states, durable_ready, accepting, fences, game, replay, writer, db,
                     live, history>>
  BY <1>2 DEF AppendFails
<1>5. append_inflight' \in Seq(Snapshot) /\ Len(append_inflight') = 0
  BY <1>4, EmptyTyped
<1>6. QueuesTyped'
  BY <1>3, <1>4, <1>5 DEF Typed, QueuesTyped
<1>7. TableTyped' /\ FencesTyped' /\ GameTyped' /\ ReplayTyped' /\ WriterTyped' /\ StoreTyped'
      /\ LiveTyped'
  BY <1>1, <1>4 DEF Typed, TableTyped, FencesTyped, GameTyped, ReplayTyped, WriterTyped, StoreTyped,
                    LiveTyped, fences, replay, writer
<1> QED BY <1>6, <1>7 DEF Typed

-----------------------------------------------------------------------------
(***************************************************************************)
(* The writer and the replay.                                              *)
(***************************************************************************)
\* The capture that the writer writes
LEMMA Writing ==
  ASSUME WriterTyped, w_taken
  PROVE  /\ Head(w_pending) \in Snapshot /\ Head(w_pending) = w_pending[1]
         /\ 1 \in 1 .. Len(w_pending) /\ Head(w_pending).owner \in Pids
<1>1. w_pending \in Seq(Snapshot) /\ w_pending # <<>>
  BY DEF WriterTyped
<1>2. PICK t : t = Tail(w_pending)
  OBVIOUS
<1>3. Head(w_pending) = w_pending[1] /\ w_pending[1] \in Snapshot /\ 1 \in 1 .. Len(w_pending)
  BY <1>1, <1>2, Tailed
<1> QED BY <1>3 DEF Snapshot

LEMMA WriterTakeTyped ==
  ASSUME Typed, WriterTake
  PROVE  Typed'
<1>1. /\ w_taken' = TRUE /\ w_pending # <<>> /\ w_pending' = w_pending
      /\ w_completions' = w_completions
      /\ UNCHANGED <<revision_states, pipeline, accepting, fences, game, replay, w_outcome, journal,
                     db, live, ghosts>>
  BY DEF WriterTake, Writer!Take
<1> QED BY <1>1 DEF Typed, TableTyped, QueuesTyped, FencesTyped, GameTyped, ReplayTyped, WriterTyped,
              StoreTyped, LiveTyped, pipeline, fences, replay, ghosts

LEMMA WriterAppliesTyped ==
  ASSUME Typed, NEW answered \in BOOLEAN, WriterApplies(answered)
  PROVE  Typed'
<1>0. w_taken /\ db' = Applied(Head(w_pending))
  BY DEF WriterApplies
<1>1. Head(w_pending) \in Snapshot
  BY <1>0, Writing DEF Typed
<1>2. StoreTyped'
  BY <1>0, <1>1, AppliedRows DEF WriterApplies, Typed, StoreTyped
<1>3. WriterTyped'
  BY <1>0 DEF WriterApplies, ApplyOutcome, Saved, Typed, WriterTyped
<1>4. UNCHANGED <<revision_states, pipeline, accepting, fences, game, replay, live, ghosts>>
  BY DEF WriterApplies
<1>5. TableTyped' /\ QueuesTyped' /\ FencesTyped' /\ GameTyped' /\ ReplayTyped' /\ LiveTyped'
  BY <1>4 DEF Typed, TableTyped, QueuesTyped, FencesTyped, GameTyped, ReplayTyped, LiveTyped,
              pipeline, fences, replay, ghosts
<1> QED BY <1>2, <1>3, <1>5 DEF Typed

LEMMA WriterFailsTyped ==
  ASSUME Typed, WriterFails
  PROVE  Typed'
<1>1. /\ w_taken /\ w_outcome' = "terminal_failure"
      /\ UNCHANGED <<revision_states, pipeline, accepting, fences, game, replay, w_pending, w_taken,
                     w_completions, journal, db, live, history>>
  BY DEF WriterFails
<1> QED BY <1>1 DEF Typed, TableTyped, QueuesTyped, FencesTyped, GameTyped, ReplayTyped, WriterTyped,
              StoreTyped, LiveTyped, pipeline, fences, replay

\* What the writer's end of a job leaves
LEMMA Finished ==
  ASSUME WriterTyped, w_taken, w_outcome # "none", Writer!Finish(w_outcome)
  PROVE  /\ w_pending' \in Seq(Snapshot) /\ w_taken' = FALSE /\ w_completions' \in Seq(Done)
         /\ \A i \in 1 .. Len(w_pending') :
              \E j \in 1 .. Len(w_pending) : w_pending'[i] = w_pending[j]
         /\ \A i \in 1 .. Len(w_completions') :
              \/ w_completions'[i].capture = w_pending[1] /\ w_completions'[i].outcome = w_outcome
              \/ \E j \in 1 .. Len(w_completions) : w_completions'[i] = w_completions[j]
<1>0. Head(w_pending) \in Snapshot /\ Head(w_pending) = w_pending[1] /\ w_pending # <<>>
  BY Writing DEF WriterTyped
<1>1. PICK d, t, c : /\ d = [capture |-> Head(w_pending), outcome |-> w_outcome]
                     /\ t = Tail(w_pending) /\ c = Append(w_completions, d)
  OBVIOUS
<1>2. w_completions' = c /\ w_pending' = t /\ w_taken' = FALSE
  BY <1>1 DEF Writer!Finish
<1>3. d \in Done /\ d.capture = w_pending[1] /\ d.outcome = w_outcome
  BY <1>0, <1>1 DEF Done, WriterTyped
<1>4. /\ t \in Seq(Snapshot)
      /\ \A i \in 1 .. Len(t) : i + 1 \in 1 .. Len(w_pending) /\ t[i] = w_pending[i + 1]
  BY <1>0, <1>1, Tailed DEF WriterTyped
<1>5. /\ c \in Seq(Done) /\ Len(w_completions) \in Nat /\ Len(c) = Len(w_completions) + 1
      /\ \A i \in 1 .. Len(w_completions) : c[i] = w_completions[i]
      /\ c[Len(w_completions) + 1] = d
  BY <1>1, <1>3, Appended DEF WriterTyped
<1>6. \A i \in 1 .. Len(c) : c[i] = d \/ \E j \in 1 .. Len(w_completions) : c[i] = w_completions[j]
  BY <1>5
<1> QED BY <1>2, <1>3, <1>4, <1>5, <1>6

LEMMA WriterFinishesTyped ==
  ASSUME Typed, WriterFinishes
  PROVE  Typed'
<1>0. w_taken /\ w_outcome # "none" /\ Writer!Finish(w_outcome)
  BY DEF WriterFinishes
<1>1. w_pending' \in Seq(Snapshot) /\ w_taken' = FALSE /\ w_completions' \in Seq(Done)
  BY <1>0, Finished DEF Typed
<1>2. journal' \subseteq journal /\ w_outcome' = "none"
  BY DEF WriterFinishes, AcknowledgedJournal, Compacted
<1>3. WriterTyped'
  BY <1>1, <1>2 DEF Typed, WriterTyped
<1>4. UNCHANGED <<revision_states, pipeline, accepting, fences, game, replay, db, live, ghosts>>
  BY DEF WriterFinishes
<1>5. TableTyped' /\ QueuesTyped' /\ FencesTyped' /\ GameTyped' /\ ReplayTyped' /\ StoreTyped'
      /\ LiveTyped'
  BY <1>2, <1>4 DEF Typed, TableTyped, QueuesTyped, FencesTyped, GameTyped, ReplayTyped, StoreTyped,
                    LiveTyped, pipeline, fences, replay, ghosts
<1> QED BY <1>3, <1>5 DEF Typed

LEMMA ReplayFrameTyped ==
  ASSUME Typed, NEW s \in todo, ReplayFrame(s)
  PROVE  Typed'
<1>0. s \in Snapshot /\ s.owner \in Pids
  BY DEF Typed, ReplayTyped, Snapshot
<1>1. db' = Applied(s) /\ db' \in [Pids -> Rows]
  BY <1>0, AppliedRows DEF ReplayFrame, Typed, StoreTyped
<1>2. journal' \subseteq journal
  BY DEF ReplayFrame, Compacted
<1>3. replayed' = [replayed EXCEPT ![s.owner] = Max({replayed[s.owner], db'[s.owner].revision})]
  BY DEF ReplayFrame
<1>4. Max({replayed[s.owner], db'[s.owner].revision}) \in Rev!Revisions
  <2>1. replayed[s.owner] \in Rev!Revisions /\ db'[s.owner].revision \in Rev!Revisions
    BY <1>0, <1>1 DEF Typed, ReplayTyped, Rows
  <2> QED BY <2>1, MaxOfTwo, RevisionNumbers
<1>5. ReplayTyped' /\ StoreTyped'
  BY <1>0, <1>1, <1>2, <1>3, <1>4 DEF ReplayFrame, Typed, ReplayTyped, StoreTyped
<1>6. UNCHANGED <<revision_states, pipeline, accepting, fences, game, writer, live, ghosts>>
  BY DEF ReplayFrame
<1>7. TableTyped' /\ QueuesTyped' /\ FencesTyped' /\ GameTyped' /\ WriterTyped' /\ LiveTyped'
  BY <1>6 DEF Typed, TableTyped, QueuesTyped, FencesTyped, GameTyped, WriterTyped, LiveTyped,
              pipeline, fences, writer, ghosts
<1> QED BY <1>5, <1>7 DEF Typed

LEMMA ReplayBlockedTyped ==
  ASSUME Typed, NEW s \in todo, NEW effective \in BOOLEAN, ReplayBlocked(s, effective)
  PROVE  Typed'
<1>0. s \in Snapshot
  BY DEF Typed, ReplayTyped
<1>1. db' \in [Pids -> Rows]
  BY <1>0, AppliedRows DEF ReplayBlocked, Typed, StoreTyped
<1>2. ReplayTyped' /\ StoreTyped'
  BY <1>1 DEF ReplayBlocked, Typed, ReplayTyped, StoreTyped
<1>3. UNCHANGED <<revision_states, pipeline, accepting, fences, game, writer, live, ghosts>>
  BY DEF ReplayBlocked
<1>4. TableTyped' /\ QueuesTyped' /\ FencesTyped' /\ GameTyped' /\ WriterTyped' /\ LiveTyped'
  BY <1>3 DEF Typed, TableTyped, QueuesTyped, FencesTyped, GameTyped, WriterTyped, LiveTyped,
              pipeline, fences, writer, ghosts
<1> QED BY <1>2, <1>4 DEF Typed

LEMMA ReplayEndsTyped ==
  ASSUME Typed, NEW ended \in SUBSET Pids, ReplayEnds(ended)
  PROVE  Typed'
<1>1. ReplayTyped' /\ StoreTyped'
  BY DEF ReplayEnds, Typed, ReplayTyped, StoreTyped
<1>2. UNCHANGED <<revision_states, pipeline, accepting, fences, game, writer, live, ghosts>>
  BY DEF ReplayEnds
<1>3. TableTyped' /\ QueuesTyped' /\ FencesTyped' /\ GameTyped' /\ WriterTyped' /\ LiveTyped'
  BY <1>2 DEF Typed, TableTyped, QueuesTyped, FencesTyped, GameTyped, WriterTyped, LiveTyped,
              pipeline, fences, writer, ghosts
<1> QED BY <1>1, <1>3 DEF Typed

LEMMA RestartedTyped ==
  ASSUME Typed, Restarted
  PROVE  Typed'
<1>1. TableTyped'
  BY AbsentEntry DEF Restarted, TableTyped
<1>2. QueuesTyped'
  BY EmptyTyped DEF Restarted, QueuesTyped
<1>3. FencesTyped' /\ GameTyped'
  BY FenceTyped, FreeTyped DEF Restarted, FencesTyped, GameTyped
<1>4. ReplayTyped' /\ StoreTyped'
  BY RevisionNumbers DEF Restarted, ReplayTyped, StoreTyped, Typed
<1>5. WriterTyped'
  BY EmptyTyped DEF Restarted, WriterTyped
<1>6. LiveTyped'
  BY OfflineTyped DEF Restarted, LiveTyped, Typed
<1> QED BY <1>1, <1>2, <1>3, <1>4, <1>5, <1>6 DEF Typed

\* Every step keeps the types.
LEMMA TypedStep == Typed /\ [Next]_vars => Typed'
<1> SUFFICES ASSUME Typed, [Next]_vars PROVE Typed'
  OBVIOUS
<1>1. ASSUME NEW p \in Pids, GameOperation(p) PROVE Typed'
  BY <1>1, ChangeTyped, CheckpointTyped, TerminalStepTyped, TerminalDeathTyped, SynchronousSaveTyped,
     TargetFenceTyped, LoginTyped DEF GameOperation
<1>2. CASE GameLoop
  <2>1. CASE Stopped
    BY <2>1, RestartedTyped DEF Stopped
  <2> QED BY <1>2, <2>1, PulseTyped, PulseSubmitTyped, PulseEndsTyped, AwaitSucceedsTyped,
             AwaitContinuesTyped, AwaitTimesOutTyped, DrainTyped, DrainSucceedsTyped, ResumeTyped,
             ShutdownTyped, JoinedTyped, WriterIdlesTyped DEF GameLoop
<1>3. CASE Dispatcher
  BY <1>3, DispatchTakeTyped, AppendOKTyped, AppendFailsTyped, ReplayFrameTyped, ReplayBlockedTyped,
     ReplayEndsTyped DEF Dispatcher
<1>4. CASE WriterThread
  BY <1>4, WriterTakeTyped, WriterAppliesTyped, WriterFailsTyped, WriterFinishesTyped DEF WriterThread
<1>5. CASE Crash
  BY <1>5, RestartedTyped DEF Crash
<1>6. CASE UNCHANGED vars
  BY <1>6 DEF vars, pipeline, fences, replay, writer, ghosts, Typed, TableTyped, QueuesTyped,
              FencesTyped, GameTyped, ReplayTyped, WriterTyped, StoreTyped, LiveTyped
<1> QED BY <1>1, <1>2, <1>3, <1>4, <1>5, <1>6 DEF Next

LEMMA TypedInit == Init => Typed
<1> SUFFICES ASSUME Init PROVE Typed
  OBVIOUS
<1>1. TableTyped
  BY AbsentEntry DEF Init, Rev!Init, TableTyped
<1>2. QueuesTyped
  BY EmptyTyped DEF Init, QueuesTyped
<1>3. FencesTyped /\ GameTyped
  BY FenceTyped, FreeTyped DEF Init, FencesTyped, GameTyped
<1>4. ReplayTyped
  BY RevisionNumbers DEF Init, ReplayTyped
<1>5. WriterTyped
  BY EmptyTyped DEF Init, WriterTyped
<1>6. StoreTyped
  <2>1. [c \in Components |-> 0] \in Values
    BY LimitAssumption DEF Values
  <2> QED BY <2>1, RevisionNumbers DEF Init, StoreTyped, Rows
<1>7. LiveTyped
  <2>1. history \in Seq(Changes)
    BY DEF Init
  <2> QED BY <2>1, OfflineTyped DEF Init, LiveTyped
<1> QED BY <1>1, <1>2, <1>3, <1>4, <1>5, <1>6, <1>7 DEF Typed

-----------------------------------------------------------------------------
(***************************************************************************)
(* Where the captures are: in the queues of the pipeline, with the writer, *)
(* or in a completion.                                                     *)
(***************************************************************************)
Captured ==
  {pending_append[i] : i \in 1 .. Len(pending_append)}
    \cup {append_inflight[i] : i \in 1 .. Len(append_inflight)}
    \cup {durable_ready[i] : i \in 1 .. Len(durable_ready)}
    \cup {w_pending[i] : i \in 1 .. Len(w_pending)}
    \cup {w_completions[i].capture : i \in 1 .. Len(w_completions)}

\* A step brings in no capture of a player under a target fence.
NoneAdmitted == \A s \in Captured' : s \in Captured \/ ~target_save_login_fences[s.owner]

LEMMA AdmissionCaptures ==
  ASSUME Typed, NEW s \in Snapshot, NEW fits,
         pending_append' = pending_append \/ pending_append' = Enqueued(s, fits),
         ~target_save_login_fences[s.owner],
         UNCHANGED <<durable_ready, append_inflight, writer>>
  PROVE  NoneAdmitted
<1>1. PICK q : q = pending_append'
  OBVIOUS
<1>2. \A i \in 1 .. Len(q) :
        q[i] = s \/ \E j \in 1 .. Len(pending_append) : q[i] = pending_append[j]
  <2>1. pending_append \in Seq(Snapshot)
    BY DEF Typed, QueuesTyped
  <2>2. CASE q = pending_append
    BY <2>2
  <2>3. CASE q = Enqueued(s, fits)
    BY <2>1, <2>3, EnqueuedCaptures
  <2> QED BY <1>1, <2>2, <2>3
<1> QED BY <1>1, <1>2 DEF NoneAdmitted, Captured, writer

LEMMA PulseCaptures ==
  ASSUME Typed, ApplyCompletions, UNCHANGED pipeline
  PROVE  NoneAdmitted
<1>1. /\ w_pending' = w_pending
      /\ \A i \in 1 .. Len(w_completions') :
           \E j \in 1 .. Len(w_completions) : w_completions'[i] = w_completions[j]
  BY CompletionsApplied
<1> QED BY <1>1 DEF NoneAdmitted, Captured, pipeline

LEMMA SubmitCaptures ==
  ASSUME Typed, PulseSubmit
  PROVE  /\ NoneAdmitted
         /\ \A i \in 1 .. Len(w_pending') :
              \/ w_pending'[i] = durable_ready[1]
              \/ \E j \in 1 .. Len(w_pending) : w_pending'[i] = w_pending[j]
         /\ 1 \in 1 .. Len(durable_ready)
         /\ \A i \in 1 .. Len(durable_ready') :
              \E j \in 1 .. Len(durable_ready) : durable_ready'[i] = durable_ready[j]
<1>0. durable_ready # <<>> /\ Writer!Put(Head(durable_ready)) /\ durable_ready \in Seq(Snapshot)
  BY DEF PulseSubmit, MaySubmit, Typed, QueuesTyped
<1>1. PICK t : t = Tail(durable_ready)
  OBVIOUS
<1>2. /\ Head(durable_ready) = durable_ready[1] /\ durable_ready[1] \in Snapshot
      /\ 1 \in 1 .. Len(durable_ready)
      /\ \A i \in 1 .. Len(t) : i + 1 \in 1 .. Len(durable_ready) /\ t[i] = durable_ready[i + 1]
  BY <1>0, <1>1, Tailed
<1>3. durable_ready' = t
  BY <1>1 DEF PulseSubmit
<1>4. /\ \A i \in 1 .. Len(w_pending') :
           \/ w_pending'[i] = durable_ready[1]
           \/ \E j \in 1 .. Len(w_pending) : w_pending'[i] = w_pending[j]
      /\ w_completions' = w_completions
  BY <1>0, <1>2, CapturePut DEF Typed
<1>5. \A i \in 1 .. Len(durable_ready') :
        \E j \in 1 .. Len(durable_ready) : durable_ready'[i] = durable_ready[j]
  BY <1>2, <1>3
<1>6. UNCHANGED <<pending_append, append_inflight>>
  BY DEF PulseSubmit
<1>7. NoneAdmitted
  BY <1>2, <1>4, <1>5, <1>6 DEF NoneAdmitted, Captured
<1> QED BY <1>2, <1>4, <1>5, <1>7

LEMMA TakeCaptures ==
  ASSUME Typed, DispatchTake
  PROVE  NoneAdmitted
<1>1. pending_append # <<>> /\ pending_append \in Seq(Snapshot)
  BY DEF DispatchTake, Typed, QueuesTyped
<1>2. PICK s, t, u : s = Head(pending_append) /\ t = Tail(pending_append) /\ u = <<s>>
  OBVIOUS
<1>3. /\ s = pending_append[1] /\ s \in Snapshot /\ 1 \in 1 .. Len(pending_append)
      /\ \A i \in 1 .. Len(t) : i + 1 \in 1 .. Len(pending_append) /\ t[i] = pending_append[i + 1]
  BY <1>1, <1>2, Tailed
<1>4. Len(u) = 1 /\ u[1] = s
  BY <1>2, <1>3, SingleTyped
<1>5. append_inflight' = u /\ pending_append' = t /\ UNCHANGED <<durable_ready, writer>>
  BY <1>2 DEF DispatchTake
<1>6. /\ \A i \in 1 .. Len(u) : \E j \in 1 .. Len(pending_append) : u[i] = pending_append[j]
      /\ \A i \in 1 .. Len(t) : \E j \in 1 .. Len(pending_append) : t[i] = pending_append[j]
  BY <1>3, <1>4
<1> QED BY <1>5, <1>6, ZenonT(60) DEF NoneAdmitted, Captured, writer

LEMMA AppendOKCaptures ==
  ASSUME Typed, AppendOK
  PROVE  /\ NoneAdmitted
         /\ append_inflight[1] \in journal' /\ Len(append_inflight) = 1
         /\ \A i \in 1 .. Len(durable_ready') :
              \/ durable_ready'[i] = append_inflight[1]
              \/ \E j \in 1 .. Len(durable_ready) : durable_ready'[i] = durable_ready[j]
<1>0. append_inflight # <<>>
  BY DEF AppendOK
<1>1. PICK s, t, u : s = Head(append_inflight) /\ t = Append(durable_ready, s) /\ u = append_inflight'
  OBVIOUS
<1>2. s \in Snapshot /\ Len(append_inflight) = 1 /\ append_inflight[1] = s
  BY <1>0, <1>1, Inflight DEF Typed
<1>3. /\ Len(durable_ready) \in Nat /\ Len(t) = Len(durable_ready) + 1
      /\ \A i \in 1 .. Len(durable_ready) : t[i] = durable_ready[i]
      /\ t[Len(durable_ready) + 1] = s
  BY <1>1, <1>2, Appended DEF Typed, QueuesTyped
<1>4. \A i \in 1 .. Len(t) : t[i] = s \/ \E j \in 1 .. Len(durable_ready) : t[i] = durable_ready[j]
  BY <1>3
<1>5. u = <<>> /\ durable_ready' = t /\ UNCHANGED <<pending_append, writer>>
      /\ journal' = journal \cup {s}
  BY <1>1 DEF AppendOK
<1>6. Len(u) = 0
  BY <1>5, EmptyTyped
<1>7. NoneAdmitted
  BY <1>1, <1>2, <1>4, <1>5, <1>6 DEF NoneAdmitted, Captured, writer
<1> QED BY <1>2, <1>4, <1>5, <1>7

LEMMA AppendFailsCaptures ==
  ASSUME Typed, NEW left \in BOOLEAN, AppendFails(left)
  PROVE  NoneAdmitted
<1>1. PICK t, u : t = append_inflight \o pending_append /\ u = append_inflight'
  OBVIOUS
<1>2. /\ Len(append_inflight) \in Nat /\ Len(pending_append) \in Nat
      /\ Len(t) = Len(append_inflight) + Len(pending_append)
      /\ \A i \in 1 .. Len(t) : t[i] = (IF i =< Len(append_inflight) THEN append_inflight[i]
                                        ELSE pending_append[i - Len(append_inflight)])
  BY <1>1, Concatenated DEF Typed, QueuesTyped
<1>3. \A i \in 1 .. Len(t) : \/ \E j \in 1 .. Len(append_inflight) : t[i] = append_inflight[j]
                             \/ \E j \in 1 .. Len(pending_append) : t[i] = pending_append[j]
  <2>1. ASSUME NEW i \in 1 .. Len(t), i =< Len(append_inflight)
        PROVE  i \in 1 .. Len(append_inflight) /\ t[i] = append_inflight[i]
    BY <1>2, <2>1
  <2>2. ASSUME NEW i \in 1 .. Len(t), ~(i =< Len(append_inflight))
        PROVE  /\ i - Len(append_inflight) \in 1 .. Len(pending_append)
               /\ t[i] = pending_append[i - Len(append_inflight)]
    BY <1>2, <2>2
  <2> QED BY <2>1, <2>2
<1>4. u = <<>> /\ pending_append' = t /\ UNCHANGED <<durable_ready, writer>>
  BY <1>1 DEF AppendFails
<1>5. Len(u) = 0
  BY <1>4, EmptyTyped
<1> QED BY <1>1, <1>3, <1>4, <1>5 DEF NoneAdmitted, Captured, writer

LEMMA FinishCaptures ==
  ASSUME Typed, WriterFinishes
  PROVE  NoneAdmitted
<1>0. w_taken /\ w_outcome # "none" /\ Writer!Finish(w_outcome) /\ UNCHANGED pipeline
  BY DEF WriterFinishes
<1>1. /\ \A i \in 1 .. Len(w_pending') :
           \E j \in 1 .. Len(w_pending) : w_pending'[i] = w_pending[j]
      /\ \A i \in 1 .. Len(w_completions') :
           \/ w_completions'[i].capture = w_pending[1]
           \/ \E j \in 1 .. Len(w_completions) : w_completions'[i] = w_completions[j]
      /\ 1 \in 1 .. Len(w_pending)
  BY <1>0, Finished, Writing DEF Typed
<1> QED BY <1>0, <1>1 DEF NoneAdmitted, Captured, pipeline

LEMMA RestartCaptures ==
  ASSUME Restarted
  PROVE  Captured' = {}
<1>1. PICK a, b, c, d, e : /\ a = pending_append' /\ b = durable_ready' /\ c = append_inflight'
                           /\ d = w_pending' /\ e = w_completions'
  OBVIOUS
<1>2. a = <<>> /\ b = <<>> /\ c = <<>> /\ d = <<>> /\ e = <<>>
  BY <1>1 DEF Restarted
<1>3. Len(a) = 0 /\ Len(b) = 0 /\ Len(c) = 0 /\ Len(d) = 0 /\ Len(e) = 0
  BY <1>2, EmptyTyped
<1>4. /\ 1 .. Len(pending_append)' = {} /\ 1 .. Len(durable_ready)' = {}
      /\ 1 .. Len(append_inflight)' = {} /\ 1 .. Len(w_pending)' = {} /\ 1 .. Len(w_completions)' = {}
  BY <1>1, <1>3
<1> QED BY <1>4, Zenon DEF Captured

-----------------------------------------------------------------------------
(***************************************************************************)
(* What a target fence excludes.  Inductive with the types: the player of  *)
(* a fence is offline, so that no operation of the game saves him, and     *)
(* login_fenced callers refuse him while it is held.                       *)
(***************************************************************************)
StillTable(p) == revision_states[p].present => Rev!Settled(revision_states[p])

Fenced ==
  \A p \in Pids : target_save_login_fences[p] =>
    /\ ~live[p].online
    /\ StillTable(p)
    /\ \A s \in Captured : s.owner # p

LEMMA FencedIsExcluded == Typed /\ Fenced => TargetFenceExcludesSaves
<1> SUFFICES ASSUME Typed, Fenced, NEW p \in Pids, target_save_login_fences[p]
             PROVE  UnderFence(p)
  BY DEF TargetFenceExcludesSaves
<1>1. \A s \in Captured : s.owner # p
  BY DEF Fenced
<1>2. /\ DOMAIN pending_append = 1 .. Len(pending_append)
      /\ DOMAIN durable_ready = 1 .. Len(durable_ready)
      /\ DOMAIN append_inflight = 1 .. Len(append_inflight)
      /\ DOMAIN w_pending = 1 .. Len(w_pending)
      /\ DOMAIN w_completions = 1 .. Len(w_completions)
  BY DEF Typed, QueuesTyped, WriterTyped
<1>3. ~Retained(p) /\ OfOwner(append_inflight, p) = {} /\ ~WriterPending(p, w_completions)
  BY <1>1, <1>2 DEF Captured, Retained, OfOwner, WriterPending
<1> QED BY <1>3 DEF Fenced, UnderFence, StillTable

LEMMA FencedKept ==
  ASSUME Fenced, NoneAdmitted,
         \A p \in Pids : target_save_login_fences'[p] =>
           /\ target_save_login_fences[p]
           /\ ~live[p].online => ~live'[p].online
           /\ StillTable(p) => StillTable(p)'
  PROVE  Fenced'
<1> SUFFICES ASSUME NEW p \in Pids, target_save_login_fences'[p]
             PROVE  ~live'[p].online /\ StillTable(p)' /\ \A s \in Captured' : s.owner # p
  BY DEF Fenced
<1>1. target_save_login_fences[p] /\ ~live'[p].online /\ StillTable(p)'
  BY DEF Fenced
<1>2. \A s \in Captured' : s.owner # p
  BY <1>1 DEF Fenced, NoneAdmitted
<1> QED BY <1>1, <1>2

\* The player whose entry an operation rewrites is not under a fence.
LEMMA OnlyUnfenced ==
  ASSUME Typed, Fenced, NEW p \in Pids, ~target_save_login_fences[p], NoneAdmitted,
         \A q \in Pids : q # p => revision_states'[q] = revision_states[q]
                                  /\ live'[q].online = live[q].online,
         target_save_login_fences' = target_save_login_fences
  PROVE  Fenced'
<1>1. ASSUME NEW q \in Pids, target_save_login_fences'[q]
      PROVE  /\ target_save_login_fences[q]
             /\ ~live[q].online => ~live'[q].online
             /\ StillTable(q) => StillTable(q)'
  <2>1. q # p
    BY <1>1
  <2> QED BY <1>1, <2>1 DEF StillTable
<1> QED BY <1>1, FencedKept

LEMMA OnlineIsUnfenced ==
  ASSUME Typed, Fenced, NEW p \in Pids, live[p].online
  PROVE  ~target_save_login_fences[p]
BY DEF Fenced

\* An entry rewritten at one player leaves the others.
LEMMA OthersStay ==
  ASSUME TableTyped, NEW p \in Pids, NEW e, revision_states' = [revision_states EXCEPT ![p] = e]
  PROVE  \A q \in Pids : q # p => revision_states'[q] = revision_states[q]
BY DEF TableTyped

LEMMA UnmovedCaptures ==
  ASSUME UNCHANGED <<pipeline, w_pending, w_completions>>
  PROVE  NoneAdmitted
BY DEF NoneAdmitted, Captured, pipeline

LEMMA GameOperationFenced ==
  ASSUME Typed, Fenced, NEW p \in Pids, GameOperation(p)
  PROVE  Fenced'
<1>0. TableTyped /\ LiveTyped
  BY DEF Typed
<1>1. ASSUME NEW comps \in SUBSET Components, Change(p, comps) PROVE Fenced'
  <2>1. ~target_save_login_fences[p] /\ NoneAdmitted
    BY <1>1, UnmovedCaptures DEF Change, writer
  <2>2. \E e : revision_states' = [revision_states EXCEPT ![p] = e]
    BY <1>1 DEF Change, Rev!Mark, Rev!Update
  <2>3. \A q \in Pids : q # p => revision_states'[q] = revision_states[q]
    BY <1>0, <2>2, OthersStay
  <2>4. \A q \in Pids : q # p => live'[q].online = live[q].online
    BY <1>0, <1>1 DEF Change, LiveTyped
  <2>5. target_save_login_fences' = target_save_login_fences
    BY <1>1 DEF Change
  <2> QED BY <2>1, <2>3, <2>4, <2>5, OnlyUnfenced
<1>2. ASSUME NEW captured \in BOOLEAN, NEW fits \in BOOLEAN, Checkpoint(p, captured, fits)
      PROVE  Fenced'
  <2> DEFINE sealed == Rev!Sealed(revision_states[p])
  <2>1. ~target_save_login_fences[p] /\ live' = live
        /\ target_save_login_fences' = target_save_login_fences
    BY <1>2 DEF Checkpoint, fences
  <2>2. \E e : revision_states' = [revision_states EXCEPT ![p] = e]
    BY <1>2 DEF Checkpoint, Rev!Queue, Rev!Update
  <2>3. \A q \in Pids : q # p => revision_states'[q] = revision_states[q]
    BY <1>0, <2>2, OthersStay
  <2>4. sealed \in Rev!Entry
    BY <1>0, SealedEntry DEF TableTyped
  <2> HIDE DEF sealed
  <2>5. Capture(p, sealed, FALSE) \in Snapshot /\ Capture(p, sealed, FALSE).owner = p
    BY <1>0, <2>4, CaptureTyped
  <2>6. /\ pending_append' = pending_append \/ pending_append' = Enqueued(Capture(p, sealed, FALSE), fits)
        /\ UNCHANGED <<durable_ready, append_inflight, writer>>
    BY <1>2 DEF Checkpoint, sealed
  <2>7. NoneAdmitted
    BY <2>1, <2>5, <2>6, AdmissionCaptures
  <2> QED BY <2>1, <2>3, <2>7, OnlyUnfenced
<1>3. ASSUME NEW intent \in Intents, NEW capture \in {"taken", "failed", "put off"},
             NEW fits \in BOOLEAN, Terminal(p, intent, capture, fits)
      PROVE  Fenced'
  <2> DEFINE sealed == Rev!Sealed(TerminalEntry(p))
  <2>1. ~target_save_login_fences[p] /\ live' = live
        /\ target_save_login_fences' = target_save_login_fences /\ Rev!MarkAccepts(p, Components)
    BY <1>3 DEF Terminal, MayFence
  <2>2. \E e : revision_states' = [revision_states EXCEPT ![p] = e]
    BY <1>3 DEF Terminal
  <2>3. \A q \in Pids : q # p => revision_states'[q] = revision_states[q]
    BY <1>0, <2>2, OthersStay
  <2>4. sealed \in Rev!Entry
    BY <2>1, TerminalTyped
  <2> HIDE DEF sealed
  <2>5. Capture(p, sealed, FALSE) \in Snapshot /\ Capture(p, sealed, FALSE).owner = p
    BY <1>0, <2>4, CaptureTyped
  <2>6. /\ pending_append' = pending_append \/ pending_append' = Enqueued(Capture(p, sealed, FALSE), fits)
        /\ UNCHANGED <<durable_ready, append_inflight, writer>>
    BY <1>3 DEF Terminal, sealed
  <2>7. NoneAdmitted
    BY <2>1, <2>5, <2>6, AdmissionCaptures
  <2> QED BY <2>1, <2>3, <2>7, OnlyUnfenced
<1>4. ASSUME NEW captured \in BOOLEAN, NEW fits \in BOOLEAN, TerminalDeath(p, captured, fits)
      PROVE  Fenced'
  <2> DEFINE sealed == Rev!Sealed(TerminalEntry(p))
  <2>1. ~target_save_login_fences[p] /\ live' = live
        /\ target_save_login_fences' = target_save_login_fences /\ Rev!MarkAccepts(p, Components)
    BY <1>4 DEF TerminalDeath, MayFence
  <2>2. \E e : revision_states' = [revision_states EXCEPT ![p] = e]
    BY <1>4 DEF TerminalDeath
  <2>3. \A q \in Pids : q # p => revision_states'[q] = revision_states[q]
    BY <1>0, <2>2, OthersStay
  <2>4. sealed \in Rev!Entry
    BY <2>1, TerminalTyped
  <2> HIDE DEF sealed
  <2>5. Capture(p, sealed, TRUE) \in Snapshot /\ Capture(p, sealed, TRUE).owner = p
    BY <1>0, <2>4, CaptureTyped
  <2>6. /\ pending_append' = pending_append \/ pending_append' = Enqueued(Capture(p, sealed, TRUE), fits)
        /\ UNCHANGED <<durable_ready, append_inflight, writer>>
    BY <1>4 DEF TerminalDeath, sealed
  <2>7. NoneAdmitted
    BY <2>1, <2>5, <2>6, AdmissionCaptures
  <2> QED BY <2>1, <2>3, <2>7, OnlyUnfenced
<1>5. ASSUME NEW commits \in BOOLEAN, NEW answered \in BOOLEAN, SynchronousSave(p, commits, answered)
      PROVE  Fenced'
  <2>1. live[p].online /\ live' = live /\ target_save_login_fences' = target_save_login_fences
        /\ NoneAdmitted
    BY <1>5, UnmovedCaptures DEF SynchronousSave, Playing, fences, writer
  <2>2. \E e : revision_states' = [revision_states EXCEPT ![p] = e]
    BY <1>5 DEF SynchronousSave
  <2>3. \A q \in Pids : q # p => revision_states'[q] = revision_states[q]
    BY <1>0, <2>2, OthersStay
  <2> QED BY <2>1, <2>3, OnlineIsUnfenced, OnlyUnfenced
<1>6. CASE AcquireTargetFence(p)
  <2>1. /\ ~live[p].online /\ ~Unsettled(p)
        /\ target_save_login_fences' = [target_save_login_fences EXCEPT ![p] = TRUE]
        /\ UNCHANGED <<revision_states, pipeline, writer, live>>
    BY <1>6 DEF AcquireTargetFence
  <2>2. Captured' = Captured
    BY <2>1 DEF Captured, pipeline, writer
  <2>3. ASSUME NEW s \in Captured PROVE s.owner # p
    <3>1. /\ DOMAIN pending_append = 1 .. Len(pending_append)
          /\ DOMAIN durable_ready = 1 .. Len(durable_ready)
          /\ DOMAIN append_inflight = 1 .. Len(append_inflight)
          /\ DOMAIN w_pending = 1 .. Len(w_pending)
          /\ DOMAIN w_completions = 1 .. Len(w_completions)
      BY DEF Typed, QueuesTyped, WriterTyped
    <3> QED BY <2>1, <3>1 DEF Captured, Unsettled, Retained, OfOwner, WriterPending
  <2>4. StillTable(p)
    BY <2>1 DEF Unsettled, StillTable
  <2>5. ASSUME NEW q \in Pids, target_save_login_fences'[q]
        PROVE  ~live'[q].online /\ StillTable(q)' /\ \A s \in Captured' : s.owner # q
    <3>1. CASE q = p
      BY <2>1, <2>2, <2>3, <2>4, <3>1 DEF StillTable
    <3>2. CASE q # p
      <4>1. target_save_login_fences[q]
        BY <2>1, <2>5, <3>2 DEF Typed, FencesTyped
      <4> QED BY <2>1, <2>2, <4>1 DEF Fenced, StillTable
    <3> QED BY <3>1, <3>2
  <2> QED BY <2>5 DEF Fenced
<1>7. CASE ReleaseTargetFence(p)
  <2>1. /\ target_save_login_fences' = [target_save_login_fences EXCEPT ![p] = FALSE]
        /\ UNCHANGED <<revision_states, pipeline, writer, live>>
    BY <1>7 DEF ReleaseTargetFence
  <2>2. NoneAdmitted
    BY <2>1, UnmovedCaptures DEF writer
  <2>3. ASSUME NEW q \in Pids, target_save_login_fences'[q] PROVE target_save_login_fences[q]
    BY <2>1, <2>3 DEF Typed, FencesTyped
  <2> QED BY <2>1, <2>2, <2>3, FencedKept DEF StillTable
<1>8. CASE Login(p)
  <2>1. ~target_save_login_fences[p] /\ NoneAdmitted
        /\ target_save_login_fences' = target_save_login_fences
    BY <1>8, UnmovedCaptures DEF Login, fences, writer
  <2>2. \E e : revision_states' = [revision_states EXCEPT ![p] = e]
    BY <1>8 DEF Login, Rev!Hydrate, Rev!Update
  <2>3. \A q \in Pids : q # p => revision_states'[q] = revision_states[q]
    BY <1>0, <2>2, OthersStay
  <2>4. \A q \in Pids : q # p => live'[q].online = live[q].online
    BY <1>0, <1>8 DEF Login, LiveTyped
  <2> QED BY <2>1, <2>3, <2>4, OnlyUnfenced
<1> QED BY <1>1, <1>2, <1>3, <1>4, <1>5, <1>6, <1>7, <1>8 DEF GameOperation

\* A step that moves captures at most leaves the table and the players alone.
LEMMA QuietFenced ==
  ASSUME Fenced, NoneAdmitted, UNCHANGED <<revision_states, live, target_save_login_fences>>
  PROVE  Fenced'
BY FencedKept DEF StillTable

\* The completions of a pulse are none of a fenced player.
LEMMA CompletionsFenced ==
  ASSUME Typed, Fenced, ApplyCompletions, UNCHANGED <<pipeline, live, target_save_login_fences>>
  PROVE  Fenced'
<1>1. NoneAdmitted
  BY PulseCaptures
<1>2. ASSUME NEW p \in Pids, target_save_login_fences'[p]
      PROVE  revision_states'[p] = revision_states[p] /\ target_save_login_fences[p]
  <2>1. target_save_login_fences[p]
    BY <1>2
  <2>2. \A j \in 1 .. Len(w_completions) : w_completions[j].capture.owner # p
    BY <2>1 DEF Fenced, Captured
  <2> QED BY <2>1, <2>2, CompletionsApplied
<1> QED BY <1>1, <1>2, FencedKept DEF StillTable

LEMMA AwaitSucceedsFenced ==
  ASSUME Typed, Fenced, NEW leaves \in BOOLEAN, AwaitSucceeds(leaves)
  PROVE  Fenced'
<1>0. game.wait.for = "fence"
  BY DEF AwaitSucceeds
<1>1. PICK p \in Pids : p = game.wait.pid
  BY <1>0, WaitsForFence DEF Typed
<1>2. /\ IF leaves THEN Leaves(p) ELSE UNCHANGED <<live, revision_states, released>>
      /\ UNCHANGED <<pipeline, target_save_login_fences, writer>>
  BY <1>1 DEF AwaitSucceeds
<1>3. NoneAdmitted
  BY <1>2, UnmovedCaptures DEF writer
<1>4. CASE ~leaves
  BY <1>2, <1>3, <1>4, QuietFenced
<1>5. CASE leaves
  <2>1. /\ live' = [live EXCEPT ![p] = Offline]
        /\ \/ revision_states' = [revision_states EXCEPT ![p] = Rev!Absent]
           \/ revision_states' = [revision_states EXCEPT ![p] =
                                    [revision_states[p] EXCEPT !.session_ended = TRUE]]
    BY <1>2, <1>5 DEF Leaves
  <2>2. ASSUME NEW q \in Pids
        PROVE  (~live[q].online => ~live'[q].online) /\ (StillTable(q) => StillTable(q)')
    <3>1. CASE q # p
      BY <2>1, <3>1 DEF StillTable, Typed, TableTyped, LiveTyped
    <3>2. CASE q = p
      <4>1. ~live'[q].online
        BY <2>1, <3>2, OfflineTyped DEF Typed, LiveTyped
      <4>2. CASE revision_states' = [revision_states EXCEPT ![p] = Rev!Absent]
        BY <3>2, <4>1, <4>2, AbsentEntry DEF StillTable, Typed, TableTyped
      <4>3. CASE revision_states' = [revision_states EXCEPT ![p] =
                                       [revision_states[p] EXCEPT !.session_ended = TRUE]]
        <5>1. PICK e \in Rev!Entry : e = revision_states[p]
          BY DEF Typed, TableTyped
        <5>2. PICK f : f = [e EXCEPT !.session_ended = TRUE]
          OBVIOUS
        <5>3. revision_states'[p] = f
          BY <4>3, <5>1, <5>2 DEF Typed, TableTyped
        <5>4. f.present = e.present /\ f.unacknowledged = e.unacknowledged /\ f.queued = e.queued
              /\ f.inflight = e.inflight
          BY <5>2 DEF Rev!Entry
        <5> QED BY <3>2, <4>1, <5>1, <5>3, <5>4 DEF StillTable, Rev!Settled
      <4> QED BY <2>1, <4>2, <4>3
    <3> QED BY <3>1, <3>2
  <2> QED BY <1>2, <1>3, <2>2, FencedKept
<1> QED BY <1>4, <1>5

\* Every step keeps what the target fences exclude.
LEMMA FencedStep == Typed /\ Fenced /\ [Next]_vars => Fenced'
<1> SUFFICES ASSUME Typed, Fenced, [Next]_vars PROVE Fenced'
  OBVIOUS
<1>1. ASSUME NEW p \in Pids, GameOperation(p) PROVE Fenced'
  BY <1>1, GameOperationFenced
<1>2. CASE Restarted
  <2>1. \A p \in Pids : ~target_save_login_fences'[p]
    BY <1>2 DEF Restarted
  <2> QED BY <2>1 DEF Fenced
<1>3. CASE GameLoop
  <2>1. CASE Pulse
    BY <2>1, CompletionsFenced DEF Pulse
  <2>2. CASE PulseSubmit
    BY <2>2, SubmitCaptures, QuietFenced DEF PulseSubmit, fences
  <2>3. CASE PulseEnds
    BY <2>3, UnmovedCaptures, QuietFenced DEF PulseEnds, fences, writer
  <2>4. CASE AwaitContinues
    BY <2>4, UnmovedCaptures, QuietFenced DEF AwaitContinues, fences, writer
  <2>5. CASE AwaitTimesOut
    BY <2>5, UnmovedCaptures, QuietFenced DEF AwaitTimesOut, fences, writer
  <2>6. CASE Drain
    BY <2>6, UnmovedCaptures, QuietFenced DEF Drain, fences, writer
  <2>7. CASE DrainSucceeds
    BY <2>7, CompletionsFenced DEF DrainSucceeds
  <2>8. CASE Resume
    BY <2>8, UnmovedCaptures, QuietFenced DEF Resume, fences, writer
  <2>9. CASE Shutdown
    BY <2>9, UnmovedCaptures, QuietFenced DEF Shutdown, fences, writer
  <2>10. CASE Joined
    BY <2>10, UnmovedCaptures, QuietFenced DEF Joined, fences, writer
  <2>11. CASE WriterIdles
    BY <2>11, UnmovedCaptures, QuietFenced DEF WriterIdles, fences, writer
  <2>12. CASE Stopped
    BY <1>2, <2>12 DEF Stopped
  <2> QED BY <1>3, <2>1, <2>2, <2>3, <2>4, <2>5, <2>6, <2>7, <2>8, <2>9, <2>10, <2>11, <2>12,
             AwaitSucceedsFenced DEF GameLoop
<1>4. CASE Dispatcher
  <2>1. CASE DispatchTake
    BY <2>1, TakeCaptures, QuietFenced DEF DispatchTake, fences
  <2>2. CASE AppendOK
    BY <2>2, AppendOKCaptures, QuietFenced DEF AppendOK
  <2>3. ASSUME NEW left \in BOOLEAN, AppendFails(left) PROVE Fenced'
    BY <2>3, AppendFailsCaptures, QuietFenced DEF AppendFails, fences
  <2>4. ASSUME NEW s \in todo, ReplayFrame(s) PROVE Fenced'
    BY <2>4, UnmovedCaptures, QuietFenced DEF ReplayFrame, fences, writer
  <2>5. ASSUME NEW s \in todo, NEW effective \in BOOLEAN, ReplayBlocked(s, effective) PROVE Fenced'
    BY <2>5, UnmovedCaptures, QuietFenced DEF ReplayBlocked, fences, writer
  <2>6. ASSUME NEW ended \in SUBSET Pids, ReplayEnds(ended) PROVE Fenced'
    BY <2>6, UnmovedCaptures, QuietFenced DEF ReplayEnds, fences, writer
  <2> QED BY <1>4, <2>1, <2>2, <2>3, <2>4, <2>5, <2>6 DEF Dispatcher
<1>5. CASE WriterThread
  <2>1. CASE WriterTake
    BY <2>1, UnmovedCaptures, QuietFenced DEF WriterTake, Writer!Take, fences
  <2>2. ASSUME NEW answered \in BOOLEAN, WriterApplies(answered) PROVE Fenced'
    BY <2>2, UnmovedCaptures, QuietFenced DEF WriterApplies, fences
  <2>3. CASE WriterFails
    BY <2>3, UnmovedCaptures, QuietFenced DEF WriterFails, fences
  <2>4. CASE WriterFinishes
    BY <2>4, FinishCaptures, QuietFenced DEF WriterFinishes, fences
  <2> QED BY <1>5, <2>1, <2>2, <2>3, <2>4 DEF WriterThread
<1>6. CASE Crash
  BY <1>2, <1>6 DEF Crash
<1>7. CASE UNCHANGED vars
  BY <1>7, UnmovedCaptures, QuietFenced DEF vars, fences, writer
<1> QED BY <1>1, <1>3, <1>4, <1>5, <1>6, <1>7 DEF Next

LEMMA FencedInit == Init => Fenced
BY DEF Init, Fenced

LEMMA AlwaysFenced == Spec => [](Typed /\ Fenced)
<1>1. Typed /\ Fenced /\ [Next]_vars => (Typed /\ Fenced)'
  BY TypedStep, FencedStep
<1> QED BY <1>1, TypedInit, FencedInit, PTL DEF Spec

(***************************************************************************)
(* Under a target fence no save of the player is anywhere in the pipeline, *)
(* and his revisions are settled, whatever sessions, saves, drains,        *)
(* crashes and replays happen around it; the variables keep their types.   *)
(***************************************************************************)
THEOREM TargetFenceHolds == Spec => []FencesInv
<1>1. Typed /\ Fenced => FencesInv
  BY TypedIsTypeOK, FencedIsExcluded DEF FencesInv
<1> QED BY <1>1, AlwaysFenced, PTL

(***************************************************************************)
(* The row a fence holder has read stays as it is: no queued save, no      *)
(* synchronous save and no completion changes it; only the replay of the   *)
(* journal at startup may.                                                 *)
(***************************************************************************)
THEOREM TargetRowStaysStill == Spec => TargetRowIsStill
<1>1. Typed /\ Fenced /\ [Next]_vars =>
        [\A p \in Pids : target_save_login_fences[p] /\ db'[p] # db[p] => replaying]_vars
  <2> SUFFICES ASSUME Typed, Fenced, Next, NEW p \in Pids, target_save_login_fences[p],
                      db'[p] # db[p]
               PROVE  replaying
    OBVIOUS
  <2>1. ASSUME NEW q \in Pids, GameOperation(q) PROVE FALSE
    <3>1. PICK commits \in BOOLEAN, answered \in BOOLEAN : SynchronousSave(q, commits, answered)
      BY <2>1 DEF GameOperation, Change, Checkpoint, Terminal, TerminalDeath, AcquireTargetFence,
                  ReleaseTargetFence, Login
    <3>2. live[q].online /\ q # p
      BY <3>1, OnlineIsUnfenced DEF SynchronousSave, Playing
    <3>3. db' = db \/ \E r : db' = [db EXCEPT ![q] = r]
      BY <3>1 DEF SynchronousSave
    <3> QED BY <3>2, <3>3 DEF Typed, StoreTyped
  <2>2. ~GameLoop /\ ~Crash
    BY DEF GameLoop, Crash, Stopped, Restarted, Pulse, PulseSubmit, PulseEnds, AwaitSucceeds,
           AwaitContinues, AwaitTimesOut, Drain, DrainSucceeds, Resume, Shutdown, Joined, WriterIdles
  <2>3. CASE Dispatcher
    BY <2>3 DEF Dispatcher, DispatchTake, AppendOK, AppendFails, ReplayFrame, ReplayBlocked, ReplayEnds
  <2>4. CASE WriterThread
    <3>1. PICK answered \in BOOLEAN : WriterApplies(answered)
      BY <2>4 DEF WriterThread, WriterTake, WriterFails, WriterFinishes
    <3>2. w_taken /\ db' = Applied(Head(w_pending))
      BY <3>1 DEF WriterApplies
    <3>3. Head(w_pending) \in Snapshot /\ Head(w_pending) \in Captured
      BY <3>2, Writing DEF Typed, Captured
    <3>4. Head(w_pending).owner # p
      BY <3>3 DEF Fenced
    <3> QED BY <3>2, <3>3, <3>4, AppliedRows DEF Typed, StoreTyped
  <2> QED BY <2>1, <2>2, <2>3, <2>4 DEF Next
<1> QED BY <1>1, AlwaysFenced, PTL DEF Spec, TargetRowIsStill

-----------------------------------------------------------------------------
(***************************************************************************)
(* What has been reported and journaled.  Durable is what the database     *)
(* holds, itself or newer; a capture is held if it is durable or in the    *)
(* journal.                                                                *)
(***************************************************************************)
Durable(s) == s.revision <= db[s.owner].revision
Held(s) == s \in journal \/ Durable(s)

Reported ==
  {w_completions[i].capture : i \in {j \in 1 .. Len(w_completions) : w_completions[j].outcome \in Saved}}
PastJournal ==
  {durable_ready[i] : i \in 1 .. Len(durable_ready)} \cup {w_pending[i] : i \in 1 .. Len(w_pending)}

FenceTells(p) ==
  /\ terminal_fences[p].acknowledged => terminal_fences[p].revision <= db[p].revision
  /\ terminal_fences[p].journaled =>
       \/ terminal_fences[p].revision <= db[p].revision
       \/ \E s \in journal : s.owner = p /\ s.revision = terminal_fences[p].revision

(***************************************************************************)
(* The inductive invariant: a completion reports a success only of what is *)
(* durable, also between the commit and the completion; a replay has seen  *)
(* no revision that is not there; what left the dispatcher is held; and    *)
(* the fences tell the truth.                                              *)
(***************************************************************************)
ReportsTrue == \A s \in Reported : Durable(s)
OutcomeTrue == w_outcome \in Saved => Durable(w_pending[1])
ReplayTrue == \A p \in Pids : replayed[p] <= db[p].revision
QueuesHeld == \A s \in PastJournal : Held(s)
FencesTrue == \A p \in Pids : FenceTells(p)

Truthful == ReportsTrue /\ OutcomeTrue /\ ReplayTrue /\ QueuesHeld /\ FencesTrue

\* No step takes a row back, and none drops a frame that the database does not make up for.
RowsGrow == \A p \in Pids : db[p].revision <= db'[p].revision
FramesKept == \A s \in journal : s \in journal' \/ s.revision <= db'[s.owner].revision

LEMMA RowNumbers ==
  ASSUME StoreTyped
  PROVE  /\ \A p \in Pids : db[p].revision \in Nat
         /\ \A s \in journal : s \in Snapshot /\ s.owner \in Pids /\ s.revision \in Nat
<1>1. \A p \in Pids : db[p].revision \in Rev!Revisions
  BY DEF StoreTyped, Rows
<1>2. \A s \in journal : s \in Snapshot /\ s.owner \in Pids /\ s.revision \in Rev!Revisions
  BY DEF StoreTyped, Snapshot
<1> QED BY <1>1, <1>2, RevisionNumbers

LEMMA CaptureNumbers ==
  ASSUME NEW s \in Snapshot
  PROVE  s.owner \in Pids /\ s.revision \in Nat
BY RevisionNumbers DEF Snapshot

LEMMA SameRows ==
  ASSUME StoreTyped, db' = db
  PROVE  RowsGrow
BY RowNumbers DEF RowsGrow

LEMMA SameFrames ==
  ASSUME journal \subseteq journal'
  PROVE  FramesKept
BY DEF FramesKept

\* What compaction removes is durable at the revision it was given.
LEMMA CompactedFrames ==
  ASSUME NEW frames, NEW p, NEW d, NEW s \in frames, s \notin Compacted(frames, p, d)
  PROVE  s.owner = p /\ s.revision <= d
BY DEF Compacted

LEMMA StoreSteps ==
  ASSUME Typed, Truthful, Next
  PROVE  RowsGrow /\ FramesKept
<1>0. StoreTyped /\ db \in [Pids -> Rows]
  BY DEF Typed, StoreTyped
<1>1. ASSUME NEW p \in Pids, GameOperation(p) PROVE RowsGrow /\ FramesKept
  <2>1. ASSUME NEW commits \in BOOLEAN, NEW answered \in BOOLEAN, SynchronousSave(p, commits, answered)
        PROVE  RowsGrow /\ FramesKept
    <3>1. PICK r : r = TerminalEntry(p).current
      OBVIOUS
    <3>2. r \in Nat
      BY <2>1, <3>1, TerminalTyped, RevisionNumbers DEF SynchronousSave
    <3>3. \/ db' = db
          \/ /\ db[p].revision < r
             /\ db' = [db EXCEPT ![p] = [revision |-> r, values |-> live[p].values]]
      BY <2>1, <3>1 DEF SynchronousSave
    <3>4. ASSUME NEW q \in Pids PROVE db[q].revision <= db'[q].revision
      BY <1>0, <3>2, <3>3, RowNumbers
    <3>5. journal' = journal
      BY <2>1 DEF SynchronousSave
    <3> QED BY <3>4, <3>5, SameFrames DEF RowsGrow
  <2>2. CASE ~(\E commits \in BOOLEAN, answered \in BOOLEAN : SynchronousSave(p, commits, answered))
    <3>1. db' = db /\ journal' = journal
      BY <1>1, <2>2 DEF GameOperation, Change, Checkpoint, Terminal, TerminalDeath,
                        AcquireTargetFence, ReleaseTargetFence, Login
    <3> QED BY <1>0, <3>1, SameRows, SameFrames
  <2> QED BY <2>1, <2>2
<1>2. CASE GameLoop \/ Crash
  <2>1. db' = db /\ journal' = journal
    BY <1>2 DEF GameLoop, Crash, Stopped, Restarted, Pulse, PulseSubmit, PulseEnds, AwaitSucceeds,
                AwaitContinues, AwaitTimesOut, Drain, DrainSucceeds, Resume, Shutdown, Joined, WriterIdles
  <2> QED BY <1>0, <2>1, SameRows, SameFrames
<1>3. CASE Dispatcher
  <2>1. CASE DispatchTake \/ AppendOK \/ \E left \in BOOLEAN : AppendFails(left)
    <3>1. db' = db /\ journal \subseteq journal'
      BY <2>1 DEF DispatchTake, AppendOK, AppendFails
    <3> QED BY <1>0, <3>1, SameRows, SameFrames
  <2>2. ASSUME NEW s \in todo, ReplayFrame(s) PROVE RowsGrow /\ FramesKept
    <3>1. s \in Snapshot /\ db' = Applied(s)
      BY <2>2 DEF ReplayFrame, Typed, ReplayTyped
    <3>2. RowsGrow /\ s.revision <= db'[s.owner].revision
      BY <1>0, <3>1, AppliedRows DEF RowsGrow
    <3>3. db' \in [Pids -> Rows]
      BY <1>0, <3>1, AppliedRows
    <3>4. ASSUME NEW f \in journal, f \notin journal' PROVE f.revision <= db'[f.owner].revision
      <4>1. f.owner = s.owner /\ f.revision <= s.revision
        BY <2>2, <3>4, CompactedFrames DEF ReplayFrame
      <4>2. db'[s.owner].revision \in Nat /\ f.revision \in Nat /\ s.revision \in Nat
        BY <1>0, <3>1, <3>3, RowNumbers, CaptureNumbers, RevisionNumbers DEF Rows
      <4> QED BY <3>2, <4>1, <4>2
    <3> QED BY <3>2, <3>4 DEF FramesKept
  <2>3. ASSUME NEW s \in todo, NEW effective \in BOOLEAN, ReplayBlocked(s, effective)
        PROVE  RowsGrow /\ FramesKept
    <3>1. s \in Snapshot /\ (db' = Applied(s) \/ db' = db) /\ journal' = journal
      BY <2>3 DEF ReplayBlocked, Typed, ReplayTyped
    <3>2. RowsGrow
      BY <1>0, <3>1, AppliedRows, SameRows DEF RowsGrow
    <3> QED BY <3>1, <3>2, SameFrames
  <2>4. ASSUME NEW ended \in SUBSET Pids, ReplayEnds(ended) PROVE RowsGrow /\ FramesKept
    <3>1. db' = db
      BY <2>4 DEF ReplayEnds
    <3>2. ASSUME NEW f \in journal, f \notin journal' PROVE f.revision <= db'[f.owner].revision
      <4>1. f.revision <= replayed[f.owner]
        BY <2>4, <3>2, CompactedFrames DEF ReplayEnds
      <4>2. f.owner \in Pids /\ f.revision \in Nat /\ replayed[f.owner] \in Nat
            /\ db[f.owner].revision \in Nat
        BY <1>0, RowNumbers, RevisionNumbers DEF Typed, ReplayTyped
      <4>3. replayed[f.owner] <= db[f.owner].revision
        BY <4>2 DEF Truthful, ReplayTrue
      <4> QED BY <3>1, <4>1, <4>2, <4>3
    <3> QED BY <1>0, <3>1, <3>2, SameRows DEF FramesKept
  <2> QED BY <1>3, <2>1, <2>2, <2>3, <2>4 DEF Dispatcher
<1>4. CASE WriterThread
  <2>1. CASE WriterTake \/ WriterFails
    <3>1. db' = db /\ journal' = journal
      BY <2>1 DEF WriterTake, WriterFails
    <3> QED BY <1>0, <3>1, SameRows, SameFrames
  <2>2. ASSUME NEW answered \in BOOLEAN, WriterApplies(answered) PROVE RowsGrow /\ FramesKept
    <3>1. w_taken /\ db' = Applied(Head(w_pending)) /\ journal' = journal
      BY <2>2 DEF WriterApplies
    <3>2. Head(w_pending) \in Snapshot
      BY <3>1, Writing DEF Typed
    <3> QED BY <1>0, <3>1, <3>2, AppliedRows, SameFrames DEF RowsGrow
  <2>3. CASE WriterFinishes
    <3>1. db' = db
      BY <2>3 DEF WriterFinishes
    <3>2. ASSUME NEW f \in journal, f \notin journal' PROVE f.revision <= db'[f.owner].revision
      BY <2>3, <3>1, <3>2, CompactedFrames DEF WriterFinishes, AcknowledgedJournal
    <3> QED BY <1>0, <3>1, <3>2, SameRows DEF FramesKept
  <2> QED BY <1>4, <2>1, <2>2, <2>3 DEF WriterThread
<1> QED BY <1>1, <1>2, <1>3, <1>4 DEF Next

-----------------------------------------------------------------------------
(***************************************************************************)
(* Which actions touch the writer's queues, the replay and the fences.     *)
(***************************************************************************)
LEMMA WhoCompletes ==
  ASSUME Next
  PROVE  \/ w_completions' = w_completions
         \/ (Pulse \/ DrainSucceeds) /\ ApplyCompletions
         \/ WriterFinishes \/ Restarted
BY ZenonT(60) DEF Next, GameOperation, GameLoop, Dispatcher, WriterThread, Crash, Stopped, Change, Checkpoint,
       Terminal, TerminalDeath, SynchronousSave, AcquireTargetFence, ReleaseTargetFence, Login, Pulse,
       PulseSubmit, PulseEnds, AwaitSucceeds, AwaitContinues, AwaitTimesOut, Drain, DrainSucceeds,
       Resume, Shutdown, Joined, WriterIdles, DispatchTake, AppendOK, AppendFails, ReplayFrame,
       ReplayBlocked, ReplayEnds, WriterTake, WriterApplies, WriterFails, Writer!Put, Writer!Take,
       writer

LEMMA WhoQueues ==
  ASSUME Next
  PROVE  \/ UNCHANGED <<durable_ready, w_pending>>
         \/ ApplyCompletions /\ durable_ready' = durable_ready
         \/ PulseSubmit \/ AppendOK \/ WriterFinishes \/ Restarted
<1>1. ASSUME NEW p \in Pids, GameOperation(p) PROVE UNCHANGED <<durable_ready, w_pending>>
  <2>1. ASSUME NEW intent, NEW capture, NEW fits, Terminal(p, intent, capture, fits)
        PROVE  UNCHANGED <<durable_ready, w_pending>>
    BY <2>1 DEF Terminal, writer
  <2>2. ASSUME NEW captured, NEW fits, TerminalDeath(p, captured, fits)
        PROVE  UNCHANGED <<durable_ready, w_pending>>
    BY <2>2 DEF TerminalDeath, writer
  <2>3. ASSUME NEW captured, NEW fits, Checkpoint(p, captured, fits)
        PROVE  UNCHANGED <<durable_ready, w_pending>>
    BY <2>3 DEF Checkpoint, writer
  <2>4. ASSUME NEW commits, NEW answered, SynchronousSave(p, commits, answered)
        PROVE  UNCHANGED <<durable_ready, w_pending>>
    BY <2>4 DEF SynchronousSave, writer, pipeline
  <2>5. ASSUME NEW comps, Change(p, comps) PROVE UNCHANGED <<durable_ready, w_pending>>
    BY <2>5 DEF Change, writer, pipeline
  <2>6. CASE AcquireTargetFence(p) \/ ReleaseTargetFence(p) \/ Login(p)
    BY <2>6 DEF AcquireTargetFence, ReleaseTargetFence, Login, writer, pipeline
  <2> QED BY <1>1, <2>1, <2>2, <2>3, <2>4, <2>5, <2>6 DEF GameOperation
<1>2. CASE GameLoop \/ Crash
  <2>1. CASE Pulse \/ DrainSucceeds
    BY <2>1 DEF Pulse, DrainSucceeds, pipeline
  <2>2. CASE ~Pulse /\ ~DrainSucceeds
    BY <1>2, <2>2 DEF GameLoop, Crash, Stopped, PulseEnds, AwaitSucceeds, AwaitContinues, AwaitTimesOut,
                Drain, Resume, Shutdown, Joined, WriterIdles, writer, pipeline
  <2> QED BY <2>1, <2>2
<1>3. CASE Dispatcher \/ WriterThread
  BY <1>3 DEF Dispatcher, WriterThread, DispatchTake, AppendFails, ReplayFrame, ReplayBlocked,
              ReplayEnds, WriterTake, WriterApplies, WriterFails, Writer!Take, writer, pipeline
<1> QED BY <1>1, <1>2, <1>3 DEF Next

LEMMA WhoReplays ==
  ASSUME Next
  PROVE  replayed' = replayed \/ (\E s \in todo : ReplayFrame(s)) \/ Restarted
BY ZenonT(60) DEF Next, GameOperation, GameLoop, Dispatcher, WriterThread, Crash, Stopped, Change, Checkpoint,
       Terminal, TerminalDeath, SynchronousSave, AcquireTargetFence, ReleaseTargetFence, Login, Pulse,
       PulseSubmit, PulseEnds, AwaitSucceeds, AwaitContinues, AwaitTimesOut, Drain, DrainSucceeds,
       Resume, Shutdown, Joined, WriterIdles, DispatchTake, AppendOK, AppendFails,
       ReplayBlocked, ReplayEnds, WriterTake, WriterApplies, WriterFails, WriterFinishes, replay

LEMMA WhoDecides ==
  ASSUME Next
  PROVE  \/ w_outcome' = w_outcome
         \/ \E answered \in BOOLEAN : WriterApplies(answered)
         \/ w_outcome' \in {"none", "terminal_failure"}
BY ZenonT(60) DEF Next, GameOperation, GameLoop, Dispatcher, WriterThread, Crash, Stopped, Restarted, Change,
       Checkpoint, Terminal, TerminalDeath, SynchronousSave, AcquireTargetFence, ReleaseTargetFence,
       Login, Pulse, PulseSubmit, PulseEnds, AwaitSucceeds, AwaitContinues, AwaitTimesOut, Drain,
       DrainSucceeds, Resume, Shutdown, Joined, WriterIdles, DispatchTake, AppendOK, AppendFails,
       ReplayFrame, ReplayBlocked, ReplayEnds, WriterTake, WriterFails, WriterFinishes, writer

LEMMA WhoFences ==
  ASSUME Next
  PROVE  \/ terminal_fences' = terminal_fences
         \/ \E p \in Pids : \E comps \in SUBSET Components : Change(p, comps)
         \/ \E p \in Pids : \E intent \in Intents, capture \in {"taken", "failed", "put off"}, fits \in BOOLEAN :
              Terminal(p, intent, capture, fits)
         \/ \E p \in Pids : \E captured, fits \in BOOLEAN : TerminalDeath(p, captured, fits)
         \/ ApplyCompletions
         \/ \E leaves \in BOOLEAN : AwaitSucceeds(leaves)
         \/ AppendOK \/ Restarted
<1>1. ASSUME NEW p \in Pids, GameOperation(p)
      PROVE  \/ terminal_fences' = terminal_fences
             \/ \E comps \in SUBSET Components : Change(p, comps)
             \/ \E intent \in Intents, capture \in {"taken", "failed", "put off"}, fits \in BOOLEAN :
                  Terminal(p, intent, capture, fits)
             \/ \E captured, fits \in BOOLEAN : TerminalDeath(p, captured, fits)
  BY <1>1 DEF GameOperation, Checkpoint, SynchronousSave, AcquireTargetFence, ReleaseTargetFence,
              Login, fences
<1>2. CASE \E p \in Pids : GameOperation(p)
  BY <1>1, <1>2, Zenon
<1>3. CASE ~(\E p \in Pids : GameOperation(p))
  BY <1>3 DEF Next, GameLoop, Dispatcher, WriterThread, Crash, Stopped, Pulse, PulseSubmit, PulseEnds, AwaitContinues, AwaitTimesOut, Drain,
       DrainSucceeds, Resume, Shutdown, Joined, WriterIdles, DispatchTake, AppendFails,
       ReplayFrame, ReplayBlocked, ReplayEnds, WriterTake, WriterApplies, WriterFails, WriterFinishes,
       fences
<1> QED BY <1>2, <1>3

-----------------------------------------------------------------------------
(***************************************************************************)
(* Each part of the invariant, from step to step.                          *)
(***************************************************************************)
LEMMA DurableStays ==
  ASSUME StoreTyped, StoreTyped', RowsGrow, NEW s \in Snapshot, Durable(s)
  PROVE  s.revision <= db'[s.owner].revision
<1>1. s.owner \in Pids /\ s.revision \in Nat
  BY CaptureNumbers
<1>2. db[s.owner].revision \in Nat /\ db'[s.owner].revision \in Nat
  <2>1. db' \in [Pids -> Rows]
    BY DEF StoreTyped
  <2> QED BY <1>1, <2>1, RowNumbers, RevisionNumbers DEF Rows
<1>3. s.revision <= db[s.owner].revision /\ db[s.owner].revision <= db'[s.owner].revision
  BY <1>1 DEF Durable, RowsGrow
<1> QED BY <1>1, <1>2, <1>3

LEMMA HeldStays ==
  ASSUME StoreTyped, StoreTyped', RowsGrow, FramesKept, NEW s \in Snapshot, Held(s)
  PROVE  s \in journal' \/ s.revision <= db'[s.owner].revision
<1>1. CASE s \in journal
  BY <1>1 DEF FramesKept
<1>2. CASE Durable(s)
  BY <1>2, DurableStays
<1> QED BY <1>1, <1>2 DEF Held

\* A completion, once handed out, stays true; a new one reports what was applied.
LEMMA ReportsStep ==
  ASSUME Typed, Typed', Truthful, Next, RowsGrow
  PROVE  ReportsTrue'
<1>0. StoreTyped /\ StoreTyped' /\ w_completions \in Seq(Done)
  BY DEF Typed, WriterTyped
<1>1. ASSUME NEW i \in 1 .. Len(w_completions), w_completions[i].outcome \in Saved
      PROVE  w_completions[i].capture.revision <= db'[w_completions[i].capture.owner].revision
  <2>1. w_completions[i] \in Done /\ w_completions[i].capture \in Reported
    BY <1>0, <1>1 DEF Reported
  <2>2. w_completions[i].capture \in Snapshot /\ Durable(w_completions[i].capture)
    BY <2>1 DEF Done, Truthful, ReportsTrue
  <2> QED BY <1>0, <2>2, DurableStays
<1>2. SUFFICES ASSUME NEW i \in 1 .. Len(w_completions'), w_completions'[i].outcome \in Saved
               PROVE  w_completions'[i].capture.revision
                        <= db'[w_completions'[i].capture.owner].revision
  BY DEF ReportsTrue, Reported, Durable
<1>3. CASE \E j \in 1 .. Len(w_completions) : w_completions'[i] = w_completions[j]
  BY <1>1, <1>2, <1>3
<1>4. CASE WriterFinishes /\ ~(\E j \in 1 .. Len(w_completions) : w_completions'[i] = w_completions[j])
  <2>1. w_taken /\ w_outcome # "none" /\ Writer!Finish(w_outcome)
    BY <1>4 DEF WriterFinishes
  <2>2. w_completions'[i].capture = w_pending[1] /\ w_completions'[i].outcome = w_outcome
    BY <1>4, <2>1, Finished DEF Typed
  <2>3. Durable(w_pending[1]) /\ w_pending[1] \in Snapshot
    BY <1>2, <2>1, <2>2, Writing DEF Truthful, OutcomeTrue, Typed
  <2>4. w_pending[1].revision <= db'[w_pending[1].owner].revision
    BY <1>0, <2>3, DurableStays
  <2> QED BY <2>2, <2>4
<1>5. CASE Restarted
  <2>1. PICK c : c = w_completions'
    OBVIOUS
  <2>2. c = <<>>
    BY <1>5, <2>1 DEF Restarted
  <2>3. Len(c) = 0
    BY <2>2, EmptyTyped
  <2> QED BY <1>2, <2>1, <2>3
<1>6. CASE w_completions' = w_completions
  BY <1>3, <1>6
<1>7. CASE ApplyCompletions
  BY <1>3, <1>7, CompletionsApplied
<1> QED BY <1>3, <1>4, <1>5, <1>6, <1>7, WhoCompletes

\* The outcome of the job being written is that of the row it was applied to.
LEMMA OutcomeStep ==
  ASSUME Typed, Typed', Truthful, Next, RowsGrow
  PROVE  OutcomeTrue'
<1> SUFFICES ASSUME w_outcome' \in Saved
             PROVE  w_pending'[1].revision <= db'[w_pending'[1].owner].revision
  BY DEF OutcomeTrue, Durable
<1>1. CASE w_outcome' = w_outcome
  <2>1. w_outcome # "none" /\ w_taken /\ Durable(w_pending[1])
    BY <1>1 DEF Truthful, OutcomeTrue, Saved, Typed, WriterTyped
  <2>2. w_pending[1] \in Snapshot
    BY <2>1, Writing DEF Typed
  <2>3. w_pending[1].revision <= db'[w_pending[1].owner].revision
    BY <2>1, <2>2, DurableStays DEF Typed
  <2>4. w_pending'[1] = w_pending[1]
    <3>1. CASE PulseSubmit
      <4>1. Writer!Put(Head(durable_ready)) /\ durable_ready # <<>>
        BY <3>1 DEF PulseSubmit, MaySubmit
      <4>2. PICK t : t = Tail(durable_ready)
        OBVIOUS
      <4>3. Head(durable_ready) \in Snapshot
        BY <4>1, <4>2, Tailed DEF Typed, QueuesTyped
      <4> QED BY <2>1, <4>1, <4>3, CapturePut DEF Typed
    <3>2. CASE ApplyCompletions
      BY <3>2, CompletionsApplied
    <3>3. CASE AppendOK
      BY <3>3 DEF AppendOK, writer
    <3>4. ~WriterFinishes /\ ~Restarted
      BY <2>1, <1>1 DEF WriterFinishes, Restarted
    <3> QED BY <3>1, <3>2, <3>3, <3>4, WhoQueues
  <2> QED BY <2>3, <2>4
<1>2. ASSUME NEW answered \in BOOLEAN, WriterApplies(answered)
      PROVE  w_pending'[1].revision <= db'[w_pending'[1].owner].revision
  <2>1. w_taken /\ db' = Applied(Head(w_pending)) /\ w_pending' = w_pending
    BY <1>2 DEF WriterApplies
  <2>2. Head(w_pending) \in Snapshot /\ Head(w_pending) = w_pending[1]
    BY <2>1, Writing DEF Typed
  <2> QED BY <2>1, <2>2, AppliedRows DEF Typed, StoreTyped
<1>3. w_outcome' \notin {"none", "terminal_failure"}
  BY DEF Saved
<1> QED BY <1>1, <1>2, <1>3, WhoDecides

\* The replay's count of what is durable is behind the database.
LEMMA ReplayStep ==
  ASSUME Typed, Typed', Truthful, Next, RowsGrow
  PROVE  ReplayTrue'
<1> SUFFICES ASSUME NEW p \in Pids PROVE replayed'[p] <= db'[p].revision
  BY DEF ReplayTrue
<1>0. db[p].revision \in Nat /\ db'[p].revision \in Nat /\ replayed[p] \in Nat
      /\ db[p].revision <= db'[p].revision /\ replayed[p] <= db[p].revision
  <2>1. db' \in [Pids -> Rows]
    BY DEF Typed, StoreTyped
  <2> QED BY <2>1, RowNumbers, RevisionNumbers DEF Typed, Rows, ReplayTyped, RowsGrow, Truthful, ReplayTrue
<1>1. CASE replayed' = replayed
  BY <1>0, <1>1
<1>2. ASSUME NEW s \in todo, ReplayFrame(s) PROVE replayed'[p] <= db'[p].revision
  <2>1. replayed' = [replayed EXCEPT ![s.owner] = Max({replayed[s.owner], db'[s.owner].revision})]
    BY <1>2 DEF ReplayFrame
  <2>2. CASE p # s.owner
    <3>1. replayed'[p] = replayed[p]
      BY <2>1, <2>2 DEF Typed, ReplayTyped
    <3> QED BY <1>0, <3>1
  <2>3. CASE p = s.owner
    <3>1. replayed'[p] = Max({replayed[p], db'[p].revision})
      BY <2>1, <2>3 DEF Typed, ReplayTyped
    <3>2. Max({replayed[p], db'[p].revision}) \in {replayed[p], db'[p].revision}
      BY <1>0, MaxOfTwo
    <3> QED BY <1>0, <3>1, <3>2
  <2> QED BY <2>2, <2>3
<1>3. CASE Restarted
  BY <1>0, <1>3 DEF Restarted
<1> QED BY <1>1, <1>2, <1>3, WhoReplays

\* What the dispatcher has let go is in the journal or in the database.
LEMMA QueuesStep ==
  ASSUME Typed, Typed', Truthful, Next, RowsGrow, FramesKept
  PROVE  QueuesHeld'
<1>0. StoreTyped /\ StoreTyped' /\ durable_ready \in Seq(Snapshot) /\ w_pending \in Seq(Snapshot)
  BY DEF Typed, QueuesTyped, WriterTyped
<1>1. ASSUME NEW s \in PastJournal PROVE s \in journal' \/ s.revision <= db'[s.owner].revision
  <2>1. s \in Snapshot
    BY <1>0 DEF PastJournal
  <2> QED BY <1>0, <2>1, HeldStays DEF Truthful, QueuesHeld
<1>2. SUFFICES \A s \in PastJournal' : s \in PastJournal \/ s \in journal'
  BY <1>1 DEF QueuesHeld, Held, Durable
<1>3. CASE UNCHANGED <<durable_ready, w_pending>>
  BY <1>3 DEF PastJournal
<1>4. CASE ApplyCompletions /\ durable_ready' = durable_ready
  BY <1>4, CompletionsApplied DEF PastJournal
<1>5. CASE PulseSubmit
  <2>1. /\ \A i \in 1 .. Len(w_pending') :
             \/ w_pending'[i] = durable_ready[1]
             \/ \E j \in 1 .. Len(w_pending) : w_pending'[i] = w_pending[j]
        /\ 1 \in 1 .. Len(durable_ready)
        /\ \A i \in 1 .. Len(durable_ready') :
             \E j \in 1 .. Len(durable_ready) : durable_ready'[i] = durable_ready[j]
    BY <1>5, SubmitCaptures
  <2>2. ASSUME NEW s \in PastJournal' PROVE s \in PastJournal
    <3>1. \/ \E i \in 1 .. Len(w_pending') : s = w_pending'[i]
          \/ \E i \in 1 .. Len(durable_ready') : s = durable_ready'[i]
      BY <2>2 DEF PastJournal
    <3>2. \/ \E j \in 1 .. Len(w_pending) : s = w_pending[j]
          \/ \E j \in 1 .. Len(durable_ready) : s = durable_ready[j]
      BY <2>1, <3>1
    <3> QED BY <3>2 DEF PastJournal
  <2> QED BY <2>2
<1>6. CASE AppendOK
  <2>1. w_pending' = w_pending
    BY <1>6 DEF AppendOK, writer
  <2>2. /\ append_inflight[1] \in journal'
        /\ \A i \in 1 .. Len(durable_ready') :
              \/ durable_ready'[i] = append_inflight[1]
              \/ \E j \in 1 .. Len(durable_ready) : durable_ready'[i] = durable_ready[j]
    BY <1>6, AppendOKCaptures
  <2> QED BY <2>1, <2>2 DEF PastJournal
<1>7. CASE WriterFinishes
  <2>1. w_taken /\ w_outcome # "none" /\ Writer!Finish(w_outcome) /\ durable_ready' = durable_ready
    BY <1>7 DEF WriterFinishes, pipeline
  <2>2. \A i \in 1 .. Len(w_pending') : \E j \in 1 .. Len(w_pending) : w_pending'[i] = w_pending[j]
    BY <2>1, Finished DEF Typed
  <2> QED BY <2>1, <2>2 DEF PastJournal
<1>8. CASE Restarted
  <2>1. Captured' = {}
    BY <1>8, RestartCaptures
  <2> QED BY <2>1 DEF Captured, PastJournal
<1> QED BY <1>3, <1>4, <1>5, <1>6, <1>7, <1>8, WhoQueues

\* A fence is acknowledged only by the completion of its own revision, and journaled only
\* by the append of its own capture; every other step leaves it or starts it afresh.
LEMMA FencesStep ==
  ASSUME Typed, Typed', Truthful, Next, RowsGrow, FramesKept
  PROVE  FencesTrue'
<1> SUFFICES ASSUME NEW p \in Pids PROVE FenceTells(p)'
  BY DEF FencesTrue
<1> DEFINE Tells(fence) ==
      /\ fence.acknowledged => fence.revision <= db'[p].revision
      /\ fence.journaled => \/ fence.revision <= db'[p].revision
                            \/ \E s \in journal' : s.owner = p /\ s.revision = fence.revision
<1>0. StoreTyped /\ StoreTyped' /\ terminal_fences \in [Pids -> Fences]
      /\ terminal_fences[p] \in Fences /\ terminal_fences[p].revision \in Nat
      /\ db[p].revision \in Nat /\ db'[p].revision \in Nat
  <2>1. db' \in [Pids -> Rows] /\ terminal_fences[p] \in Fences
    BY DEF Typed, StoreTyped, FencesTyped
  <2> QED BY <2>1, RowNumbers, RevisionNumbers DEF Typed, Rows, FencesTyped, Fences
<1>1. SUFFICES Tells(terminal_fences'[p])
  BY DEF FenceTells
<1>2. Tells(terminal_fences[p])
  <2>1. FenceTells(p)
    BY DEF Truthful, FencesTrue
  <2>2. db[p].revision <= db'[p].revision
    BY DEF RowsGrow
  <2>3. ASSUME terminal_fences[p].acknowledged PROVE terminal_fences[p].revision <= db'[p].revision
    BY <1>0, <2>1, <2>2, <2>3 DEF FenceTells
  <2>4. ASSUME terminal_fences[p].journaled
        PROVE  \/ terminal_fences[p].revision <= db'[p].revision
               \/ \E s \in journal' : s.owner = p /\ s.revision = terminal_fences[p].revision
    <3>1. CASE terminal_fences[p].revision <= db[p].revision
      BY <1>0, <2>2, <3>1
    <3>2. ASSUME NEW s \in journal, s.owner = p, s.revision = terminal_fences[p].revision
          PROVE  \/ terminal_fences[p].revision <= db'[p].revision
                 \/ \E f \in journal' : f.owner = p /\ f.revision = terminal_fences[p].revision
      BY <3>2 DEF FramesKept
    <3> QED BY <2>1, <2>4, <3>1, <3>2 DEF FenceTells
  <2> QED BY <2>3, <2>4
<1>3. Tells(NoFence) /\ \A r \in Rev!Revisions : Tells(Fence(r))
  BY FenceTyped
<1> HIDE DEF Tells
<1>4. CASE terminal_fences' = terminal_fences
  BY <1>2, <1>4
<1>5. ASSUME NEW q \in Pids, NEW comps \in SUBSET Components, Change(q, comps)
      PROVE  Tells(terminal_fences'[p])
  <2>1. revision_states[q].current + 1 \in Rev!Revisions
    <3>1. revision_states[q] \in Rev!Entry /\ revision_states[q].current < MaxRevision
      BY <1>5 DEF Typed, TableTyped, Change, Rev!Mark, Rev!MarkAccepts
    <3> QED BY <3>1, MarkedEntry
  <2>2. PICK g : g = Advanced(terminal_fences[q], revision_states[q].current + 1)
    OBVIOUS
  <2>3. g = terminal_fences[q] \/ g = Fence(revision_states[q].current + 1)
    BY <2>2 DEF Advanced
  <2>4. terminal_fences' = [terminal_fences EXCEPT ![q] = g]
    BY <1>5, <2>2 DEF Change
  <2> QED BY <1>0, <1>2, <1>3, <2>1, <2>3, <2>4
<1>6. ASSUME NEW q \in Pids, NEW r \in Rev!Revisions,
             \/ terminal_fences' = [terminal_fences EXCEPT ![q] = Fence(r)]
             \/ terminal_fences' = [terminal_fences EXCEPT ![q] = NoFence]
      PROVE  Tells(terminal_fences'[p])
  BY <1>0, <1>2, <1>3, <1>6
<1>7. ASSUME NEW q \in Pids, NEW intent \in Intents, NEW capture, NEW fits \in BOOLEAN,
             Terminal(q, intent, capture, fits)
      PROVE  Tells(terminal_fences'[p])
  <2>1. Rev!Sealed(TerminalEntry(q)).current \in Rev!Revisions
    BY <1>7, TerminalTyped DEF Terminal, MayFence
  <2>2. terminal_fences' =
          [terminal_fences EXCEPT ![q] = Fence(Rev!Sealed(TerminalEntry(q)).current)]
    BY <1>7 DEF Terminal
  <2> QED BY <1>6, <2>1, <2>2
<1>8. ASSUME NEW q \in Pids, NEW captured \in BOOLEAN, NEW fits \in BOOLEAN,
             TerminalDeath(q, captured, fits)
      PROVE  Tells(terminal_fences'[p])
  <2>1. Rev!Sealed(TerminalEntry(q)).current \in Rev!Revisions
    BY <1>8, TerminalTyped DEF TerminalDeath, MayFence
  <2>2. \/ terminal_fences' =
             [terminal_fences EXCEPT ![q] = Fence(Rev!Sealed(TerminalEntry(q)).current)]
        \/ terminal_fences' = [terminal_fences EXCEPT ![q] = NoFence]
    BY <1>8 DEF TerminalDeath
  <2> QED BY <1>6, <2>1, <2>2
<1>9. CASE ApplyCompletions
  <2>1. CASE terminal_fences'[p] = terminal_fences[p]
    BY <1>2, <2>1
  <2>2. ASSUME NEW j \in 1 .. Len(w_completions), w_completions[j].capture.owner = p,
               Acknowledges(terminal_fences[p], w_completions[j]),
               terminal_fences'[p] = [terminal_fences[p] EXCEPT !.acknowledged = TRUE]
        PROVE  Tells(terminal_fences'[p])
    <3>1. /\ terminal_fences[p].revision = w_completions[j].capture.revision
          /\ w_completions[j].capture \in Reported
      BY <2>2 DEF Acknowledges, Reported
    <3>2. terminal_fences[p].revision <= db[p].revision
      BY <2>2, <3>1 DEF Truthful, ReportsTrue, Durable
    <3>3. terminal_fences[p].revision <= db'[p].revision
      BY <1>0, <3>2 DEF RowsGrow
    <3>4. terminal_fences'[p].revision = terminal_fences[p].revision
      BY <1>0, <2>2 DEF Fences
    <3> QED BY <3>3, <3>4 DEF Tells
  <2> QED BY <1>9, <2>1, <2>2, CompletionsApplied
<1>10. ASSUME NEW leaves \in BOOLEAN, AwaitSucceeds(leaves) PROVE Tells(terminal_fences'[p])
  <2>1. terminal_fences' = [terminal_fences EXCEPT ![game.wait.pid] = NoFence]
    BY <1>10 DEF AwaitSucceeds
  <2> QED BY <1>0, <1>2, <1>3, <2>1
<1>11. CASE AppendOK
  <2>1. PICK s : s = Head(append_inflight)
    OBVIOUS
  <2>2. PICK g \in BOOLEAN :
          g = (terminal_fences[s.owner].held /\ terminal_fences[s.owner].revision = s.revision)
    OBVIOUS
  <2>3. /\ terminal_fences' = [terminal_fences EXCEPT ![s.owner].journaled =
                                 terminal_fences[s.owner].journaled \/ g]
        /\ journal' = journal \cup {s}
    BY <1>11, <2>1, <2>2 DEF AppendOK
  <2>4. CASE p # s.owner
    BY <1>0, <1>2, <2>3, <2>4
  <2>5. CASE p = s.owner
    <3>1. /\ terminal_fences'[p].revision = terminal_fences[p].revision
          /\ terminal_fences'[p].acknowledged = terminal_fences[p].acknowledged
          /\ terminal_fences'[p].journaled = (terminal_fences[p].journaled \/ g)
      BY <1>0, <2>3, <2>5 DEF Fences
    <3>2. CASE ~g
      BY <1>2, <3>1, <3>2 DEF Tells
    <3>3. CASE g
      BY <1>2, <2>2, <2>3, <2>5, <3>1, <3>3 DEF Tells
    <3> QED BY <3>2, <3>3
  <2> QED BY <2>4, <2>5
<1>12. CASE Restarted
  <2>1. terminal_fences'[p] = NoFence
    BY <1>12 DEF Restarted
  <2> QED BY <1>3, <2>1
<1> QED BY <1>4, <1>5, <1>7, <1>8, <1>9, <1>10, <1>11, <1>12, WhoFences

LEMMA TruthfulStep ==
  ASSUME Typed, Typed', Truthful, [Next]_vars
  PROVE  Truthful'
<1>1. CASE Next
  <2>1. RowsGrow /\ FramesKept
    BY <1>1, StoreSteps
  <2> QED BY <1>1, <2>1, ReportsStep, OutcomeStep, ReplayStep, QueuesStep, FencesStep DEF Truthful
<1>2. CASE UNCHANGED vars
  BY <1>2 DEF vars, pipeline, fences, replay, writer, Truthful, ReportsTrue, OutcomeTrue, ReplayTrue,
              QueuesHeld, FencesTrue, FenceTells, Reported, PastJournal, Held, Durable
<1> QED BY <1>1, <1>2

LEMMA TruthfulInit == Init => Truthful
<1> SUFFICES ASSUME Init PROVE Truthful
  OBVIOUS
<1>1. PICK c, d, w : c = w_completions /\ d = durable_ready /\ w = w_pending
  OBVIOUS
<1>2. c = <<>> /\ d = <<>> /\ w = <<>>
  BY <1>1 DEF Init
<1>3. Len(c) = 0 /\ Len(d) = 0 /\ Len(w) = 0
  BY <1>2, EmptyTyped
<1>4. Reported = {} /\ PastJournal = {}
  BY <1>1, <1>3 DEF Reported, PastJournal
<1>5. ReplayTrue
  BY DEF Init, ReplayTrue
<1>6. OutcomeTrue
  BY DEF Init, OutcomeTrue, Saved
<1>7. FencesTrue
  BY FenceTyped DEF Init, FencesTrue, FenceTells
<1> QED BY <1>4, <1>5, <1>6, <1>7 DEF Truthful, ReportsTrue, QueuesHeld

LEMMA AlwaysTruthful == Spec => [](Typed /\ Truthful)
<1>1. Init => Typed /\ Truthful
  BY TypedInit, TruthfulInit
<1>2. Typed /\ Truthful /\ [Next]_vars => (Typed /\ Truthful)'
  BY TypedStep, TruthfulStep
<1> QED BY <1>1, <1>2, PTL DEF Spec

(***************************************************************************)
(* A terminal fence never claims too much: what await_terminal_fence lets  *)
(* a character go on is in the database, or in the synced journal, at the  *)
(* revision the fence is for, whatever the number of players, crashes and  *)
(* failures.                                                               *)
(***************************************************************************)
THEOREM FencesTellTheTruth == Spec => []FenceIsTruthful
<1>1. Truthful => FenceIsTruthful
  BY DEF Truthful, FencesTrue, FenceTells, FenceIsTruthful
<1> QED BY <1>1, AlwaysTruthful, PTL

(***************************************************************************)
(* The database never goes back to an older revision of a player, and the  *)
(* journal never drops a frame, by a checkpoint of the writer, a replay or *)
(* its end, unless the database holds that revision or a newer one.        *)
(***************************************************************************)
THEOREM NothingIsDroppedEarly == Spec => [][RowsGrow /\ FramesKept]_vars
<1>1. Typed /\ Truthful /\ [Next]_vars => [RowsGrow /\ FramesKept]_vars
  BY StoreSteps
<1> QED BY <1>1, AlwaysTruthful, PTL DEF Spec

-----------------------------------------------------------------------------
(***************************************************************************)
(* The stop.  From the moment the dispatcher has left, nothing is before   *)
(* the journal any more; what is behind it is held.                        *)
(***************************************************************************)
Left == game.wait.for \in {"idle", "stop"}
Quiet == (Left => pending_append = <<>> /\ append_inflight = <<>>) /\ crashes \in Nat

LEMMA FreeWaits == Free.wait.for = "nothing" /\ Free.step = "idle"
BY DEF Free, NoWait

\* How a step changes what the game thread waits for
LEMMA WhoWaits ==
  ASSUME Typed, Next
  PROVE  \/ game'.wait = game.wait
         \/ ~Left' /\ ~Stopping
         \/ ~Left' /\ (Stopped \/ Crash)
         \/ ~Left' /\ Shutdown
         \/ Joined /\ Stopping'
         \/ WriterIdles /\ Stopping'
<1>0. game \in [step : {"idle", "submitting", "checking", "joining"}, left : 0 .. Budget, wait : Waits]
  BY DEF Typed, GameTyped
<1>1. ASSUME NEW p \in Pids, GameOperation(p) PROVE ~Left' /\ ~Stopping
  <2>1. game = Free
    BY <1>1 DEF GameOperation, Change, Checkpoint, Terminal, TerminalDeath, SynchronousSave,
                AcquireTargetFence, ReleaseTargetFence, Login, Playing
  <2>2. ~Stopping
    BY <2>1, FreeWaits DEF Stopping, Stops
  <2>3. game' = game \/ game' = Await(p, TRUE) \/ game' = Await(p, FALSE)
    BY <1>1 DEF GameOperation, Change, Checkpoint, Terminal, TerminalDeath, SynchronousSave,
                AcquireTargetFence, ReleaseTargetFence, Login
  <2>4. Await(p, TRUE).wait.for = "fence" /\ Await(p, FALSE).wait.for = "fence"
    BY DEF Await, Free
  <2> QED BY <2>1, <2>2, <2>3, <2>4, FreeWaits DEF Left
<1>2. CASE Dispatcher \/ WriterThread
  BY <1>2 DEF Dispatcher, WriterThread, DispatchTake, AppendOK, AppendFails, ReplayFrame, ReplayBlocked,
              ReplayEnds, WriterTake, WriterApplies, WriterFails, WriterFinishes
<1>3. CASE Pulse \/ PulseSubmit \/ PulseEnds \/ AwaitContinues \/ Resume
  BY <1>0, <1>3 DEF Pulse, PulseSubmit, PulseEnds, AwaitContinues, Resume
<1>4. CASE AwaitTimesOut \/ DrainSucceeds \/ \E leaves \in BOOLEAN : AwaitSucceeds(leaves)
  BY <1>4, FreeWaits DEF AwaitTimesOut, DrainSucceeds, AwaitSucceeds, Left, Stopping, Stops
<1>5. CASE Drain
  <2>1. game = Free /\ game'.wait.for = "drain"
    BY <1>5 DEF Drain, Free
  <2> QED BY <2>1, FreeWaits DEF Left, Stopping, Stops
<1>6. CASE Shutdown
  <2>1. game'.wait.for = "join"
    BY <1>6 DEF Shutdown, Free
  <2> QED BY <1>6, <2>1 DEF Left
<1>7. CASE Joined
  <2>1. game'.wait.for = "idle"
    BY <1>7 DEF Joined, Free
  <2> QED BY <1>7, <2>1 DEF Stopping, Stops
<1>8. CASE WriterIdles
  <2>1. game'.wait.for = "stop"
    BY <1>8 DEF WriterIdles, Free
  <2> QED BY <1>8, <2>1 DEF Stopping, Stops
<1>9. CASE Stopped \/ Crash
  <2>1. game' = Free
    BY <1>9 DEF Stopped, Crash, Restarted
  <2> QED BY <1>9, <2>1, FreeWaits DEF Left
<1> QED BY <1>1, <1>2, <1>3, <1>4, <1>5, <1>6, <1>7, <1>8, <1>9 DEF Next, GameLoop

LEMMA QuietStep == Typed /\ Quiet /\ [Next]_vars => Quiet'
<1> SUFFICES ASSUME Typed, Quiet, Next PROVE Quiet'
  BY DEF vars, pipeline, ghosts, Quiet, Left
<1>1. crashes' \in Nat
  <2>1. crashes' = crashes \/ crashes' = crashes + 1
    BY ZenonT(60) DEF Next, GameOperation, GameLoop, Dispatcher, WriterThread, Crash, Stopped, Change, Checkpoint,
           Terminal, TerminalDeath, SynchronousSave, AcquireTargetFence, ReleaseTargetFence, Login, Pulse,
           PulseSubmit, PulseEnds, AwaitSucceeds, AwaitContinues, AwaitTimesOut, Drain, DrainSucceeds,
           Resume, Shutdown, Joined, WriterIdles, DispatchTake, AppendOK, AppendFails, ReplayFrame,
           ReplayBlocked, ReplayEnds, WriterTake, WriterApplies, WriterFails, WriterFinishes, ghosts
  <2> QED BY <2>1 DEF Quiet
<1>2. ASSUME Left' PROVE pending_append' = <<>> /\ append_inflight' = <<>>
  <2>1. CASE Joined
    BY <2>1 DEF Joined, DispatcherLeaves, pipeline
  <2>2. CASE WriterIdles
    BY <2>2 DEF WriterIdles, Quiet, Left, pipeline
  <2>3. CASE Left
    <3>1. pending_append = <<>> /\ append_inflight = <<>>
      BY <2>3 DEF Quiet
    <3>2. game # Free
      BY <2>3, FreeWaits DEF Left
    <3>3. ASSUME NEW p \in Pids PROVE ~GameOperation(p)
      BY <3>2 DEF GameOperation, Change, Checkpoint, Terminal, TerminalDeath, SynchronousSave,
                AcquireTargetFence, ReleaseTargetFence, Login, Playing
    <3>4. ~DispatchTake /\ ~AppendOK /\ \A left \in BOOLEAN : ~AppendFails(left)
      BY <3>1 DEF DispatchTake, AppendOK, AppendFails
    <3>5. CASE Restarted
      BY <3>5 DEF Restarted
    <3>6. CASE ~Restarted
      <4>1. UNCHANGED <<pending_append, append_inflight>>
        BY <3>3, <3>4, <3>6 DEF Next, GameLoop, Dispatcher, WriterThread, Crash, Stopped, Pulse,
           PulseSubmit, PulseEnds, AwaitSucceeds, AwaitContinues, AwaitTimesOut, Drain, DrainSucceeds,
           Resume, Shutdown, Joined, WriterIdles, ReplayFrame,
           ReplayBlocked, ReplayEnds, WriterTake, WriterApplies, WriterFails, WriterFinishes, pipeline
      <4> QED BY <3>1, <4>1
    <3> QED BY <3>5, <3>6
  <2>4. CASE ~Left /\ ~Joined /\ ~WriterIdles
    BY <1>2, <2>4, WhoWaits DEF Left
  <2> QED BY <2>1, <2>2, <2>3, <2>4
<1> QED BY <1>1, <1>2 DEF Quiet

\* With nothing before the journal, all that is on the way is behind it, and held.
LEMMA QuietKeeps ==
  ASSUME Typed, Truthful, pending_append = <<>>, append_inflight = <<>>
  PROVE  KeepsOnTheWay
<1>1. PICK a, b, c : /\ a = w_pending \o durable_ready
                     /\ b = a \o append_inflight /\ c = b \o pending_append
  OBVIOUS
<1>2. PICK m, k : m = append_inflight /\ k = pending_append
  OBVIOUS
<1>3. m \in Seq(Snapshot) /\ k \in Seq(Snapshot) /\ Len(m) = 0 /\ Len(k) = 0
  BY <1>2, EmptyTyped
<1>4. /\ a \in Seq(Snapshot) /\ Len(w_pending) \in Nat /\ Len(durable_ready) \in Nat
      /\ Len(a) = Len(w_pending) + Len(durable_ready)
      /\ \A i \in 1 .. Len(a) : a[i] = (IF i =< Len(w_pending) THEN w_pending[i]
                                        ELSE durable_ready[i - Len(w_pending)])
  BY <1>1, Concatenated DEF Typed, QueuesTyped, WriterTyped
<1>5. /\ b \in Seq(Snapshot) /\ Len(b) = Len(a) + Len(m)
      /\ \A i \in 1 .. Len(b) : b[i] = (IF i =< Len(a) THEN a[i] ELSE m[i - Len(a)])
  BY <1>1, <1>2, <1>3, <1>4, Concatenated
<1>6. /\ c \in Seq(Snapshot) /\ Len(c) = Len(b) + Len(k)
      /\ \A i \in 1 .. Len(c) : c[i] = (IF i =< Len(b) THEN b[i] ELSE k[i - Len(b)])
  BY <1>1, <1>2, <1>3, <1>5, Concatenated
<1>7. ASSUME NEW i \in 1 .. Len(c) PROVE c[i] \in PastJournal
  <2>1. i \in 1 .. Len(a) /\ c[i] = a[i]
    BY <1>3, <1>4, <1>5, <1>6
  <2>2. CASE i =< Len(w_pending)
    <3>1. i \in 1 .. Len(w_pending) /\ a[i] = w_pending[i]
      BY <1>4, <2>1, <2>2
    <3> QED BY <2>1, <3>1 DEF PastJournal
  <2>3. CASE ~(i =< Len(w_pending))
    <3>1. i - Len(w_pending) \in 1 .. Len(durable_ready) /\ a[i] = durable_ready[i - Len(w_pending)]
      BY <1>4, <2>1, <2>3
    <3> QED BY <2>1, <3>1 DEF PastJournal
  <2> QED BY <2>2, <2>3
<1>8. DOMAIN c = 1 .. Len(c)
  BY <1>6
<1>9. \A i \in DOMAIN c : c[i] \in journal \/ c[i].revision <= db[c[i].owner].revision
  BY <1>7, <1>8 DEF Truthful, QueuesHeld, Held, Durable
<1>10. OnTheWay = c
  BY <1>1 DEF OnTheWay
<1> QED BY <1>9, <1>10 DEF KeepsOnTheWay

LEMMA AlwaysQuiet == Spec => [](Typed /\ Truthful /\ Quiet)
<1>1. Init => Quiet
  BY FreeWaits DEF Init, Quiet, Left
<1> QED BY <1>1, AlwaysTruthful, QuietStep, PTL DEF Spec

(***************************************************************************)
(* An orderly player_save_pipeline_shutdown loses no save: at the step     *)
(* that ends it every capture that is still queued anywhere in the process *)
(* is in the database, itself or a newer one, or in the journal.  It is    *)
(* the dispatcher, who leaves only with nothing before the journal, and    *)
(* the truth of what is behind it that make it so.                         *)
(***************************************************************************)
THEOREM ShutdownKeepsSaves == Spec => StopKeepsSaves
<1>1. ASSUME Typed, Truthful, Quiet, Next, Stopping, ~Stopping', crashes' = crashes
      PROVE  KeepsOnTheWay
  <2>1. ~Crash
    BY <1>1 DEF Crash, Quiet
  <2>2. ~Shutdown
    BY <1>1, FreeWaits DEF Shutdown, Stopping, Stops
  <2>3. game'.wait # game.wait
    BY <1>1 DEF Stopping
  <2>4. Stopped
    BY <1>1, <2>1, <2>2, <2>3, WhoWaits
  <2>5. pending_append = <<>> /\ append_inflight = <<>>
    BY <1>1, <2>4 DEF Stopped, Quiet, Left
  <2> QED BY <1>1, <2>5, QuietKeeps
<1>2. Typed /\ Truthful /\ Quiet /\ [Next]_vars
        => [Stopping /\ ~Stopping' /\ crashes' = crashes => KeepsOnTheWay]_vars
  BY <1>1
<1> QED BY <1>2, AlwaysQuiet, PTL DEF Spec, StopKeepsSaves

-----------------------------------------------------------------------------
(***************************************************************************)
(* What an entry of the revision table knows.  A component that counts as  *)
(* saved was last marked no later than the acknowledged revision; nothing  *)
(* is later than the current one.                                          *)
(***************************************************************************)
Knows(e) ==
  /\ \A c \in Components \ e.unacknowledged : e.component_revisions[c] <= e.acknowledged
  /\ \A c \in Components : e.component_revisions[c] <= e.current
  /\ e.acknowledged <= e.current

LEMMA EntryNumbers ==
  ASSUME NEW e \in Rev!Entry
  PROVE  /\ e.current \in Nat /\ e.acknowledged \in Nat
         /\ \A c \in Components : e.component_revisions[c] \in Nat
         /\ e.unacknowledged \in SUBSET Components
<1>1. /\ e.current \in Rev!Revisions /\ e.acknowledged \in Rev!Revisions
      /\ \A c \in Components : e.component_revisions[c] \in Rev!Revisions
      /\ e.unacknowledged \in SUBSET Components
  BY DEF Rev!Entry
<1> QED BY <1>1, RevisionNumbers

LEMMA HydratedKnows ==
  ASSUME NEW d \in Rev!Revisions
  PROVE  /\ Knows(Rev!Hydrated(d)) /\ Rev!Hydrated(d).present
         /\ Rev!Hydrated(d).current = d /\ Rev!Hydrated(d).acknowledged = d
         /\ \A c \in Components : Rev!Hydrated(d).component_revisions[c] = d
<1>1. d \in Nat
  BY RevisionNumbers
<1> QED BY <1>1 DEF Rev!Hydrated, Knows

LEMMA AbsentKnows == Knows(Rev!Absent)
<1>1. 0 \in Rev!Revisions
  BY RevisionNumbers
<1>2. Knows(Rev!Hydrated(0)) /\ Rev!Hydrated(0) \in Rev!Entry
  BY <1>1, HydratedKnows, HydratedEntry
<1> HIDE DEF Rev!Hydrated
<1> QED BY <1>2 DEF Rev!Absent, Rev!Entry, Knows

LEMMA RehydratedKnows ==
  ASSUME NEW e \in Rev!Entry, NEW d \in Rev!Revisions
  PROVE  /\ Knows(Rev!Rehydrated(e, d)) /\ Rev!Rehydrated(e, d).present = e.present
         /\ Rev!Rehydrated(e, d).current = d /\ Rev!Rehydrated(e, d).acknowledged = d
         /\ \A c \in Components : Rev!Rehydrated(e, d).component_revisions[c] = d
<1>1. d \in Nat
  BY RevisionNumbers
<1>2. /\ Rev!Rehydrated(e, d).present = e.present
      /\ Rev!Rehydrated(e, d).current = d /\ Rev!Rehydrated(e, d).acknowledged = d
      /\ \A c \in Components : Rev!Rehydrated(e, d).component_revisions[c] = d
  BY DEF Rev!Rehydrated, Rev!Entry
<1> QED BY <1>1, <1>2 DEF Knows

LEMMA MarkedKnows ==
  ASSUME NEW e \in Rev!Entry, Knows(e), NEW comps \in SUBSET Components
  PROVE  /\ Knows(Rev!Marked(e, comps)) /\ Rev!Marked(e, comps).present = e.present
         /\ Rev!Marked(e, comps).current = e.current + 1
         /\ Rev!Marked(e, comps).acknowledged = e.acknowledged
         /\ Rev!Marked(e, comps).unacknowledged = e.unacknowledged \cup comps
         /\ \A c \in Components : Rev!Marked(e, comps).component_revisions[c] =
                                   IF c \in comps THEN e.current + 1 ELSE e.component_revisions[c]
<1>1. /\ Rev!Marked(e, comps).present = e.present
      /\ Rev!Marked(e, comps).current = e.current + 1
      /\ Rev!Marked(e, comps).acknowledged = e.acknowledged
      /\ Rev!Marked(e, comps).unacknowledged = e.unacknowledged \cup comps
      /\ \A c \in Components : Rev!Marked(e, comps).component_revisions[c] =
                                   IF c \in comps THEN e.current + 1 ELSE e.component_revisions[c]
  BY DEF Rev!Marked, Rev!Entry
<1>2. /\ e.current \in Nat /\ e.acknowledged \in Nat
      /\ \A c \in Components : e.component_revisions[c] \in Nat
  BY EntryNumbers
<1> HIDE DEF Rev!Marked
<1>3. Knows(Rev!Marked(e, comps))
  BY <1>1, <1>2 DEF Knows
<1> QED BY <1>1, <1>3

LEMMA SealedKnows ==
  ASSUME NEW e \in Rev!Entry, Knows(e)
  PROVE  /\ Knows(Rev!Sealed(e)) /\ Rev!Sealed(e).present = e.present
         /\ Rev!Sealed(e).current = e.current /\ Rev!Sealed(e).acknowledged = e.acknowledged
         /\ Rev!Sealed(e).unacknowledged = e.unacknowledged
         /\ Rev!Sealed(e).component_revisions = e.component_revisions
<1>1. /\ Rev!Sealed(e).present = e.present
      /\ Rev!Sealed(e).current = e.current /\ Rev!Sealed(e).acknowledged = e.acknowledged
      /\ Rev!Sealed(e).unacknowledged = e.unacknowledged
      /\ Rev!Sealed(e).component_revisions = e.component_revisions
  BY DEF Rev!Sealed, Rev!Entry
<1> QED BY <1>1 DEF Knows

\* What acknowledgements make of entry e while the row is at revision d.
Acks(e, f, d) ==
  /\ f.present = e.present /\ f.current = e.current
  /\ f.component_revisions = e.component_revisions
  /\ Knows(e) => Knows(f)
  /\ e.acknowledged <= d => f.acknowledged <= d

LEMMA DurablyAcknowledgedKnows ==
  ASSUME NEW e \in Rev!Entry, NEW r \in Rev!Revisions, NEW comps \in SUBSET Components,
         NEW d \in Nat, r <= d, e.acknowledged <= r, r <= e.current
  PROVE  Acks(e, Rev!DurablyAcknowledged(e, r, comps), d)
<1> DEFINE f == Rev!DurablyAcknowledged(e, r, comps)
<1>1. /\ f.present = e.present /\ f.current = e.current
      /\ f.component_revisions = e.component_revisions
      /\ f.unacknowledged = e.unacknowledged \ Rev!Covered(e, r, comps)
      /\ f.acknowledged = Rev!Later(e.acknowledged, r)
  BY DEF Rev!DurablyAcknowledged, Rev!Entry
<1>2. /\ e.current \in Nat /\ e.acknowledged \in Nat /\ r \in Nat
      /\ \A c \in Components : e.component_revisions[c] \in Nat
  BY EntryNumbers, RevisionNumbers
<1> HIDE DEF f
<1>3. f.acknowledged = r
  BY <1>1, <1>2 DEF Rev!Later
<1>4. ASSUME NEW c \in Components \ f.unacknowledged, Knows(e)
      PROVE  e.component_revisions[c] <= r
  <2>1. CASE c \in e.unacknowledged
    BY <1>1, <1>4, <2>1 DEF Rev!Covered
  <2>2. CASE c \notin e.unacknowledged
    <3>1. e.component_revisions[c] <= e.acknowledged
      BY <1>4, <2>2 DEF Knows
    <3> QED BY <1>2, <3>1
  <2> QED BY <2>1, <2>2
<1>5. Knows(e) => Knows(f)
  BY <1>1, <1>3, <1>4 DEF Knows
<1>6. Acks(e, f, d)
  BY <1>1, <1>3, <1>5 DEF Acks
<1> QED BY <1>6 DEF f

LEMMA AcknowledgedKnows ==
  ASSUME NEW e \in Rev!Entry, NEW done \in Done, NEW d \in Nat,
         done.outcome \in Saved => done.capture.revision <= d
  PROVE  Acks(e, Acknowledged(e, done), d)
<1>1. done.capture.revision \in Rev!Revisions /\ done.capture.components \in SUBSET Components
  BY DEF Done, Snapshot
<1>2. CASE /\ done.outcome \in Saved
           /\ Rev!AcknowledgeDurableAccepts(e, done.capture.revision, done.capture.components)
  BY <1>1, <1>2, DurablyAcknowledgedKnows DEF Acknowledged, Rev!AcknowledgeDurableAccepts
<1>3. CASE Acknowledged(e, done) = e
  BY <1>3 DEF Acks
<1> QED BY <1>2, <1>3 DEF Acknowledged

LEMMA CompletedKnows ==
  ASSUME Typed, ReportsTrue, NEW n \in 0 .. Len(w_completions), NEW p \in Pids
  PROVE  Acks(revision_states[p], Completed(n)[p], db[p].revision)
<1>0. w_completions \in Seq(Done) /\ revision_states \in [Pids -> Rev!Entry]
      /\ Len(w_completions) \in Nat /\ n \in Nat
  BY DEF Typed, WriterTyped, TableTyped
<1>1. PICK f : /\ f[0] = revision_states /\ f[n] = Completed(n)
               /\ \A i \in 0 .. n : f[i] \in [Pids -> Rev!Entry]
               /\ \A i \in 1 .. n :
                    f[i] = [f[i - 1] EXCEPT ![w_completions[i].capture.owner] =
                              Acknowledged(@, w_completions[i])]
  BY <1>0, CompletedSteps
<1>2. db[p].revision \in Nat
  BY RowNumbers DEF Typed
<1> DEFINE T == {i \in 0 .. n : Acks(revision_states[p], f[i][p], db[p].revision)}
<1>3. 0 \in T
  BY <1>0, <1>1 DEF Acks
<1>4. ASSUME NEW i \in 1 .. n, i - 1 \in T PROVE i \in T
  <2>1. i - 1 \in 0 .. n /\ i \in 1 .. Len(w_completions)
    BY <1>0
  <2>2. PICK done \in Done : done = w_completions[i]
    BY <1>0, <2>1
  <2>3. done.outcome \in Saved /\ done.capture.owner = p => done.capture.revision <= db[p].revision
    BY <2>1, <2>2 DEF ReportsTrue, Reported, Durable
  <2>4. PICK e \in Rev!Entry : e = f[i - 1][p]
    BY <1>1, <2>1
  <2>5. f[i][p] = IF done.capture.owner = p THEN Acknowledged(e, done) ELSE e
    <3>1. PICK g \in [Pids -> Rev!Entry] : g = f[i - 1] /\ e = g[p]
      BY <1>1, <2>1, <2>4
    <3>2. f[i] = [g EXCEPT ![done.capture.owner] = Acknowledged(g[done.capture.owner], done)]
      BY <1>1, <2>2, <3>1
    <3> QED BY <3>1, <3>2
  <2>6. Acks(revision_states[p], e, db[p].revision)
    BY <1>4, <2>4
  <2>7. CASE done.capture.owner = p
    <3>1. Acks(e, Acknowledged(e, done), db[p].revision)
      BY <1>2, <2>3, <2>7, AcknowledgedKnows
    <3>2. Acks(revision_states[p], f[i][p], db[p].revision)
      BY <2>5, <2>6, <2>7, <3>1 DEF Acks
    <3> QED BY <3>2, <1>0
  <2>8. CASE done.capture.owner # p
    BY <1>0, <2>5, <2>6, <2>8
  <2> QED BY <2>7, <2>8
<1>5. 0 .. n \subseteq T
  <2> HIDE DEF T
  <2> QED BY <1>0, <1>3, <1>4, UpTo
<1>6. n \in T
  BY <1>0, <1>5
<1> QED BY <1>1, <1>6

\* What a pulse does to the table: entries are acknowledged, those of ended sessions forgotten.
LEMMA CompletionsKnown ==
  ASSUME Typed, ReportsTrue, ApplyCompletions, NEW p \in Pids
  PROVE  \/ Acks(revision_states[p], revision_states'[p], db[p].revision)
         \/ ~live[p].online /\ revision_states'[p] = Rev!Absent
<1>0. w_completions \in Seq(Done) /\ Len(w_completions) \in Nat
  BY DEF Typed, WriterTyped
<1>1. PICK n \in 0 .. Len(w_completions) :
        n = IF Budget <= Len(w_completions) THEN Budget ELSE Len(w_completions)
  BY <1>0, LimitAssumption
<1> DEFINE rest == SubSeq(w_completions, n + 1, Len(w_completions))
           of(q) == {i \in 1 .. n : w_completions[i].capture.owner = q}
<1>2. revision_states' = [q \in Pids |-> IF of(q) = {} THEN revision_states[q]
                                         ELSE Retired(q, Completed(n)[q], rest)]
  BY <1>1, Zenon DEF ApplyCompletions
<1> HIDE DEF rest, of
<1>3. \/ revision_states'[p] = revision_states[p]
      \/ revision_states'[p] = Retired(p, Completed(n)[p], rest)
  BY <1>2
<1>4. Acks(revision_states[p], Completed(n)[p], db[p].revision)
  BY CompletedKnows
<1>5. Acks(revision_states[p], revision_states[p], db[p].revision)
  BY DEF Acks
<1> QED BY <1>3, <1>4, <1>5 DEF Retired

-----------------------------------------------------------------------------
(***************************************************************************)
(* How the table, the character, the row and the saves of one player fit   *)
(* together.  A save the row does not hold yet has the current value of    *)
(* every component that was not marked after it, or leaves the component   *)
(* to the row; and the row has the current value of every component that   *)
(* was not marked after its own revision.                                  *)
(***************************************************************************)
Carries(e, v, row, s) ==
  \A c \in Components : e.component_revisions[c] <= s.revision =>
    IF c \in s.components THEN s.values[c] = v[c] ELSE e.component_revisions[c] <= row.revision

Later(row, saves) == {s \in saves : row.revision < s.revision}

Fits(e, v, row, saves) ==
  /\ e.present
  /\ e.acknowledged <= row.revision /\ row.revision <= e.current
  /\ \A c \in Components : e.component_revisions[c] <= row.revision => row.values[c] = v[c]
  /\ \A s \in Later(row, saves) : s.revision <= e.current /\ Carries(e, v, row, s)

\* The row once save s is written over it
Overlaid(row, s) ==
  [revision |-> s.revision,
   values |-> [c \in Components |-> IF c \in s.components THEN s.values[c] ELSE row.values[c]]]

LEMMA SaveNumbers ==
  /\ \A s \in Snapshot : s.revision \in Nat /\ s.components \in SUBSET Components /\ s.values \in Values
  /\ \A row \in Rows : row.revision \in Nat /\ row.values \in Values
<1>1. ASSUME NEW s \in Snapshot
      PROVE  s.revision \in Rev!Revisions /\ s.components \in SUBSET Components /\ s.values \in Values
  BY DEF Snapshot
<1>2. ASSUME NEW row \in Rows PROVE row.revision \in Rev!Revisions /\ row.values \in Values
  BY DEF Rows
<1> QED BY <1>1, <1>2, RevisionNumbers

LEMMA OverlaidRow ==
  ASSUME NEW row \in Rows, NEW s \in Snapshot
  PROVE  /\ Overlaid(row, s) \in Rows /\ Overlaid(row, s).revision = s.revision
         /\ \A c \in Components : Overlaid(row, s).values[c] =
                                   IF c \in s.components THEN s.values[c] ELSE row.values[c]
<1>1. s.revision \in Rev!Revisions /\ s.values \in Values /\ row.values \in Values
  BY DEF Snapshot, Rows
<1>2. [c \in Components |-> IF c \in s.components THEN s.values[c] ELSE row.values[c]] \in Values
  BY <1>1 DEF Values
<1> QED BY <1>1, <1>2 DEF Overlaid, Rows

LEMMA FitsFewer ==
  ASSUME NEW e, NEW v, NEW row, NEW saves, NEW fewer \in SUBSET saves, Fits(e, v, row, saves)
  PROVE  Fits(e, v, row, fewer)
BY DEF Fits, Later

LEMMA FitsMark ==
  ASSUME NEW e \in Rev!Entry, NEW v \in Values, NEW w \in Values, NEW row \in Rows,
         NEW saves \in SUBSET Snapshot, NEW comps \in SUBSET Components,
         Knows(e), Fits(e, v, row, saves), \A c \in Components \ comps : w[c] = v[c]
  PROVE  Fits(Rev!Marked(e, comps), w, row, saves)
<1>1. PICK f : f = Rev!Marked(e, comps)
  OBVIOUS
<1>2. /\ f.present = e.present /\ f.current = e.current + 1 /\ f.acknowledged = e.acknowledged
      /\ \A c \in Components : f.component_revisions[c] =
                                IF c \in comps THEN e.current + 1 ELSE e.component_revisions[c]
  BY <1>1, MarkedKnows
<1>3. /\ e.current \in Nat /\ e.acknowledged \in Nat /\ row.revision \in Nat
      /\ \A c \in Components : e.component_revisions[c] \in Nat
      /\ \A s \in saves : s.revision \in Nat
  BY EntryNumbers, SaveNumbers
<1>4. ASSUME NEW c \in Components, f.component_revisions[c] <= row.revision
      PROVE  row.values[c] = w[c]
  <2>1. c \notin comps
    BY <1>2, <1>3, <1>4 DEF Fits
  <2> QED BY <1>2, <1>4, <2>1 DEF Fits
<1>5. ASSUME NEW s \in Later(row, saves) PROVE s.revision <= f.current /\ Carries(f, w, row, s)
  <2>1. s.revision \in Nat /\ s.revision <= e.current /\ Carries(e, v, row, s)
    BY <1>3, <1>5 DEF Fits, Later
  <2>2. ASSUME NEW c \in Components, f.component_revisions[c] <= s.revision
        PROVE  IF c \in s.components THEN s.values[c] = w[c]
               ELSE f.component_revisions[c] <= row.revision
    <3>1. c \notin comps
      BY <1>2, <1>3, <2>1, <2>2
    <3> QED BY <1>2, <2>1, <2>2, <3>1 DEF Carries
  <2> QED BY <1>2, <1>3, <2>1, <2>2 DEF Carries
<1> QED BY <1>1, <1>2, <1>3, <1>4, <1>5 DEF Fits

LEMMA FitsSame ==
  ASSUME NEW e, NEW f, NEW v, NEW row, NEW saves, Fits(e, v, row, saves),
         f.present = e.present, f.current = e.current, f.acknowledged <= row.revision,
         f.component_revisions = e.component_revisions
  PROVE  Fits(f, v, row, saves)
BY DEF Fits, Carries

\* What is captured is the character, where the row does not have it already.
LEMMA FitsCapture ==
  ASSUME NEW e \in Rev!Entry, NEW v \in Values, NEW row \in Rows, NEW saves \in SUBSET Snapshot,
         NEW s \in Snapshot, Knows(e), Fits(e, v, row, saves),
         s.revision = e.current, s.components = e.unacknowledged,
         \A c \in s.components : s.values[c] = v[c]
  PROVE  Fits(e, v, row, saves \cup {s})
<1>1. /\ e.current \in Nat /\ e.acknowledged \in Nat /\ row.revision \in Nat
      /\ \A c \in Components : e.component_revisions[c] \in Nat
  BY EntryNumbers, SaveNumbers
<1>2. Carries(e, v, row, s)
  <2>1. ASSUME NEW c \in Components \ s.components PROVE e.component_revisions[c] <= row.revision
    <3>1. e.component_revisions[c] <= e.acknowledged /\ e.acknowledged <= row.revision
      BY DEF Knows, Fits
    <3> QED BY <1>1, <3>1
  <2> QED BY <2>1 DEF Carries
<1>3. s.revision <= e.current
  BY <1>1
<1> QED BY <1>2, <1>3 DEF Fits, Later

LEMMA FitsApply ==
  ASSUME NEW e \in Rev!Entry, NEW v \in Values, NEW row \in Rows, NEW saves \in SUBSET Snapshot,
         NEW s \in Later(row, saves), Fits(e, v, row, saves)
  PROVE  Fits(e, v, Overlaid(row, s), saves)
<1>0. s \in Snapshot /\ row.revision < s.revision /\ s.revision <= e.current /\ Carries(e, v, row, s)
  BY DEF Later, Fits
<1>1. PICK new \in Rows : new = Overlaid(row, s)
  BY <1>0, OverlaidRow
<1>2. /\ new.revision = s.revision
      /\ \A c \in Components : new.values[c] = IF c \in s.components THEN s.values[c] ELSE row.values[c]
  BY <1>0, <1>1, OverlaidRow
<1>3. /\ e.current \in Nat /\ e.acknowledged \in Nat /\ row.revision \in Nat
      /\ \A c \in Components : e.component_revisions[c] \in Nat
      /\ \A q \in saves : q.revision \in Nat
      /\ s.revision \in Nat
  BY <1>0, EntryNumbers, SaveNumbers
<1>4. ASSUME NEW c \in Components, e.component_revisions[c] <= new.revision
      PROVE  new.values[c] = v[c]
  <2>1. CASE c \in s.components
    BY <1>0, <1>2, <1>4, <2>1 DEF Carries
  <2>2. CASE c \notin s.components
    BY <1>0, <1>2, <1>4, <2>2 DEF Carries, Fits
  <2> QED BY <2>1, <2>2
<1>5. ASSUME NEW q \in Later(new, saves) PROVE q.revision <= e.current /\ Carries(e, v, new, q)
  <2>1. q \in Later(row, saves)
    BY <1>0, <1>2, <1>3, <1>5 DEF Later
  <2>2. q.revision <= e.current /\ Carries(e, v, row, q)
    BY <2>1 DEF Fits
  <2>3. ASSUME NEW c \in Components, e.component_revisions[c] <= row.revision
        PROVE  e.component_revisions[c] <= new.revision
    BY <1>0, <1>2, <1>3, <2>3
  <2> QED BY <2>2, <2>3 DEF Carries
<1>6. e.acknowledged <= new.revision /\ new.revision <= e.current
  BY <1>0, <1>2, <1>3 DEF Fits
<1> QED BY <1>1, <1>4, <1>5, <1>6 DEF Fits

\* A synchronous save, which is newer than every other, writes the character as it is.
LEMMA FitsWrite ==
  ASSUME NEW e \in Rev!Entry, NEW v \in Values, NEW row \in Rows, NEW saves \in SUBSET Snapshot,
         Knows(e), Fits(e, v, row, saves), NEW new \in Rows,
         new.revision = e.current, new.values = v
  PROVE  Fits(e, v, new, saves) /\ Later(new, saves) = {}
<1>1. /\ e.current \in Nat /\ e.acknowledged \in Nat /\ row.revision \in Nat
      /\ \A q \in saves : q.revision \in Nat
  BY EntryNumbers, SaveNumbers
<1>2. Later(new, saves) = {}
  <2> SUFFICES ASSUME NEW q \in Later(new, saves) PROVE FALSE
    OBVIOUS
  <2>1. q \in Later(row, saves)
    BY <1>1 DEF Later, Fits
  <2> QED BY <1>1, <2>1 DEF Later, Fits
<1> QED BY <1>1, <1>2 DEF Fits, Knows

\* A character that is loaded with nothing of it newer than the row.
LEMMA FitsLoad ==
  ASSUME NEW e, NEW row \in Rows, NEW saves, Later(row, saves) = {},
         e.present, e.acknowledged <= row.revision, row.revision <= e.current
  PROVE  Fits(e, row.values, row, saves)
BY DEF Fits

\* Once the row is at the current revision it is the character, and nothing is newer.
LEMMA FitsCurrent ==
  ASSUME NEW e \in Rev!Entry, NEW v \in Values, NEW row \in Rows, NEW saves \in SUBSET Snapshot,
         Knows(e), Fits(e, v, row, saves), e.current <= row.revision
  PROVE  row.values = v /\ Later(row, saves) = {}
<1>1. /\ e.current \in Nat /\ row.revision \in Nat
      /\ \A c \in Components : e.component_revisions[c] \in Nat
      /\ \A q \in saves : q.revision \in Nat
  BY EntryNumbers, SaveNumbers
<1>2. \A c \in Components : row.values[c] = v[c]
  BY <1>1 DEF Knows, Fits
<1>3. row.values = v
  <2>1. row.values \in Values
    BY SaveNumbers
  <2> QED BY <1>2, <2>1 DEF Values
<1>4. Later(row, saves) = {}
  <2> SUFFICES ASSUME NEW q \in Later(row, saves) PROVE FALSE
    OBVIOUS
  <2>1. q.revision <= e.current /\ row.revision < q.revision /\ q.revision \in Nat
    BY <1>1 DEF Later, Fits
  <2> QED BY <1>1, <2>1
<1> QED BY <1>3, <1>4

\* What the table counts as saved is in the row.
LEMMA FitsSaved ==
  ASSUME NEW e \in Rev!Entry, NEW v, NEW row \in Rows, NEW saves,
         Knows(e), Fits(e, v, row, saves), NEW c \in Components \ e.unacknowledged
  PROVE  row.values[c] = v[c]
<1>1. /\ e.acknowledged \in Nat /\ row.revision \in Nat /\ e.component_revisions[c] \in Nat
  BY EntryNumbers, SaveNumbers
<1>2. e.component_revisions[c] <= e.acknowledged /\ e.acknowledged <= row.revision
  BY DEF Knows, Fits
<1>3. e.component_revisions[c] <= row.revision
  BY <1>1, <1>2
<1> QED BY <1>3 DEF Fits

-----------------------------------------------------------------------------
(***************************************************************************)
(* The row is one cut, and stays one whichever saves are written, in the   *)
(* order of their revisions: each save completes the row, and any older    *)
(* saves written before it, to the character of one moment.                *)
(***************************************************************************)
Completes(s, row, saves, v) ==
  \A c \in Components :
    IF c \in s.components THEN s.values[c] = v[c]
    ELSE /\ row.values[c] = v[c]
         /\ \A q \in Later(row, saves) :
              q.revision < s.revision /\ c \in q.components => q.values[c] = v[c]

OneCut(row, saves, moments) ==
  /\ row.values \in moments
  /\ \A s \in Later(row, saves) : \E v \in moments : Completes(s, row, saves, v)

LEMMA CutFewer ==
  ASSUME NEW row, NEW saves, NEW fewer \in SUBSET saves, NEW moments, NEW more,
         moments \subseteq more, OneCut(row, saves, moments)
  PROVE  OneCut(row, fewer, more)
<1>1. Later(row, fewer) \subseteq Later(row, saves)
  BY DEF Later
<1>2. ASSUME NEW s \in Later(row, fewer) PROVE \E v \in more : Completes(s, row, fewer, v)
  <2>1. PICK v \in moments : Completes(s, row, saves, v)
    BY <1>1 DEF OneCut
  <2>2. Completes(s, row, fewer, v)
    BY <1>1, <2>1 DEF Completes
  <2> QED BY <2>2
<1> QED BY <1>2 DEF OneCut

LEMMA CutCapture ==
  ASSUME NEW e \in Rev!Entry, NEW v \in Values, NEW row \in Rows, NEW saves \in SUBSET Snapshot,
         NEW moments, v \in moments,
         NEW s \in Snapshot, Knows(e), Fits(e, v, row, saves), OneCut(row, saves, moments),
         s.revision = e.current, s.components = e.unacknowledged,
         \A c \in s.components : s.values[c] = v[c]
  PROVE  OneCut(row, saves \cup {s}, moments)
<1>1. /\ e.current \in Nat /\ row.revision \in Nat /\ \A q \in saves : q.revision \in Nat
      /\ \A c \in Components : e.component_revisions[c] \in Nat
  BY EntryNumbers, SaveNumbers
<1>2. ASSUME NEW q \in Later(row, saves) PROVE q.revision <= e.current /\ q.revision \in Nat
  BY <1>1 DEF Fits, Later
<1>3. Completes(s, row, saves \cup {s}, v)
  <2>1. ASSUME NEW c \in Components \ s.components
        PROVE  /\ row.values[c] = v[c]
               /\ \A q \in Later(row, saves) : c \in q.components => q.values[c] = v[c]
    <3>1. row.values[c] = v[c]
      BY FitsSaved
    <3>2. ASSUME NEW q \in Later(row, saves), c \in q.components PROVE q.values[c] = v[c]
      <4>1. e.component_revisions[c] <= e.acknowledged /\ e.acknowledged <= row.revision
        BY DEF Knows, Fits
      <4>2. e.acknowledged \in Nat /\ row.revision < q.revision
        BY <3>2, EntryNumbers DEF Later
      <4>3. e.component_revisions[c] <= q.revision
        BY <1>1, <1>2, <4>1, <4>2
      <4> QED BY <3>2, <4>3 DEF Fits, Carries
    <3> QED BY <3>1, <3>2
  <2>2. ASSUME NEW q \in Later(row, saves \cup {s}), q.revision < s.revision
        PROVE  q \in Later(row, saves)
    BY <1>1, <2>2 DEF Later
  <2> QED BY <2>1, <2>2 DEF Completes
<1>4. ASSUME NEW q \in Later(row, saves) PROVE \E w \in moments : Completes(q, row, saves \cup {s}, w)
  <2>1. PICK w \in moments : Completes(q, row, saves, w)
    BY DEF OneCut
  <2>2. ASSUME NEW r \in Later(row, saves \cup {s}), r.revision < q.revision
        PROVE  r \in Later(row, saves)
    BY <1>1, <1>2, <2>2 DEF Later
  <2>3. Completes(q, row, saves \cup {s}, w)
    BY <2>1, <2>2 DEF Completes
  <2> QED BY <2>3
<1>5. ASSUME NEW q \in Later(row, saves \cup {s}) PROVE q = s \/ q \in Later(row, saves)
  BY DEF Later
<1> QED BY <1>3, <1>4, <1>5 DEF OneCut

LEMMA CutApply ==
  ASSUME NEW row \in Rows, NEW saves \in SUBSET Snapshot, NEW moments \in SUBSET Values,
         NEW s \in Later(row, saves), OneCut(row, saves, moments)
  PROVE  OneCut(Overlaid(row, s), saves, moments)
<1>0. s \in Snapshot /\ row.revision < s.revision
  BY DEF Later
<1>1. PICK new \in Rows : new = Overlaid(row, s)
  BY <1>0, OverlaidRow
<1>2. /\ new.revision = s.revision
      /\ \A c \in Components : new.values[c] = IF c \in s.components THEN s.values[c] ELSE row.values[c]
  BY <1>0, <1>1, OverlaidRow
<1>3. /\ row.revision \in Nat /\ s.revision \in Nat /\ new.values \in Values
      /\ \A q \in saves : q.revision \in Nat
  BY <1>0, SaveNumbers
<1>4. new.values \in moments
  <2>1. PICK v \in moments : Completes(s, row, saves, v)
    BY DEF OneCut
  <2>2. \A c \in Components : new.values[c] = v[c]
    BY <1>2, <2>1 DEF Completes
  <2>3. new.values = v
    BY <1>3, <2>2 DEF Values
  <2> QED BY <2>3
<1>5. ASSUME NEW q \in Later(new, saves) PROVE q \in Later(row, saves) /\ s.revision < q.revision
  BY <1>0, <1>2, <1>3 DEF Later
<1>6. ASSUME NEW q \in Later(new, saves) PROVE \E v \in moments : Completes(q, new, saves, v)
  <2>1. PICK v \in moments : Completes(q, row, saves, v)
    BY <1>5 DEF OneCut
  <2>2. ASSUME NEW c \in Components \ q.components PROVE new.values[c] = v[c]
    BY <1>2, <1>5, <2>1 DEF Completes
  <2>3. Completes(q, new, saves, v)
    BY <1>5, <2>1, <2>2 DEF Completes
  <2> QED BY <2>3
<1> QED BY <1>1, <1>4, <1>6 DEF OneCut

-----------------------------------------------------------------------------
(***************************************************************************)
(* A character that was let go is what the row holds, with nothing newer   *)
(* than it, or is a whole frame of the journal that no other save is newer *)
(* than.                                                                   *)
(***************************************************************************)
Whole(s, v) == s.components = Components /\ s.values = v

LetGo(v, row, saves, frames) ==
  \/ row.values = v /\ Later(row, saves) = {}
  \/ \E s \in frames \cap Later(row, saves) :
       /\ Whole(s, v)
       /\ \A q \in Later(row, saves) :
            q.revision < s.revision \/ (q.revision = s.revision /\ Whole(q, v))

LEMMA LetGoFewer ==
  ASSUME NEW v, NEW row, NEW saves, NEW fewer \in SUBSET saves, NEW frames,
         NEW kept \in SUBSET fewer, Later(row, frames) \subseteq kept, LetGo(v, row, saves, frames)
  PROVE  LetGo(v, row, fewer, kept)
<1>1. Later(row, fewer) \subseteq Later(row, saves)
  BY DEF Later
<1>2. ASSUME NEW s \in frames \cap Later(row, saves) PROVE s \in kept \cap Later(row, fewer)
  BY DEF Later
<1> QED BY <1>1, <1>2 DEF LetGo

LEMMA LetGoApply ==
  ASSUME NEW v \in Values, NEW row \in Rows, NEW saves \in SUBSET Snapshot, NEW frames,
         NEW t \in Later(row, saves), LetGo(v, row, saves, frames)
  PROVE  LetGo(v, Overlaid(row, t), saves, frames)
<1>0. t \in Snapshot /\ row.revision < t.revision
  BY DEF Later
<1>1. PICK new \in Rows : new = Overlaid(row, t)
  BY <1>0, OverlaidRow
<1>2. /\ new.revision = t.revision
      /\ \A c \in Components : new.values[c] = IF c \in t.components THEN t.values[c] ELSE row.values[c]
  BY <1>0, <1>1, OverlaidRow
<1>3. /\ row.revision \in Nat /\ t.revision \in Nat /\ new.values \in Values
      /\ \A q \in saves : q.revision \in Nat
  BY <1>0, SaveNumbers
<1>4. ASSUME NEW q \in Later(new, saves) PROVE q \in Later(row, saves) /\ t.revision < q.revision
  BY <1>0, <1>2, <1>3 DEF Later
<1>5. PICK s \in frames \cap Later(row, saves) :
        /\ Whole(s, v)
        /\ \A q \in Later(row, saves) :
             q.revision < s.revision \/ (q.revision = s.revision /\ Whole(q, v))
  BY DEF LetGo
<1>6. s \in saves /\ s.revision \in Nat
  BY <1>3 DEF Later
<1>7. CASE t.revision < s.revision
  <2>1. s \in Later(new, saves)
    BY <1>2, <1>6, <1>7 DEF Later
  <2> QED BY <1>1, <1>4, <1>5, <2>1 DEF LetGo
<1>8. CASE t.revision = s.revision /\ Whole(t, v)
  <2>1. \A c \in Components : new.values[c] = v[c]
    BY <1>2, <1>8 DEF Whole
  <2>2. new.values = v
    BY <1>3, <2>1 DEF Values
  <2>3. Later(new, saves) = {}
    <3> SUFFICES ASSUME NEW q \in Later(new, saves) PROVE FALSE
      OBVIOUS
    <3>1. q \in saves
      BY DEF Later
    <3> QED BY <1>3, <1>4, <1>5, <1>6, <1>8, <3>1
  <2> QED BY <1>1, <2>2, <2>3 DEF LetGo
<1> QED BY <1>5, <1>7, <1>8

\* A terminal save marked everything at the revision its fence waits for.
LEMMA LetGoLeaves ==
  ASSUME NEW e \in Rev!Entry, NEW v \in Values, NEW row \in Rows, NEW saves \in SUBSET Snapshot,
         NEW frames \in SUBSET saves, Knows(e), Fits(e, v, row, saves),
         \A c \in Components : e.component_revisions[c] = e.current,
         e.current <= row.revision \/ \E s \in frames : s.revision = e.current
  PROVE  LetGo(v, row, saves, frames)
<1>1. /\ e.current \in Nat /\ row.revision \in Nat /\ \A q \in saves : q.revision \in Nat
  BY EntryNumbers, SaveNumbers
<1>2. CASE e.current <= row.revision
  BY <1>2, FitsCurrent DEF LetGo
<1>3. CASE ~(e.current <= row.revision)
  <2>1. PICK s \in frames : s.revision = e.current
    BY <1>3
  <2>2. ASSUME NEW q \in Later(row, saves), q.revision = e.current PROVE Whole(q, v)
    <3>1. Carries(e, v, row, q) /\ q \in Snapshot
      BY DEF Fits, Later
    <3>2. ASSUME NEW c \in Components PROVE c \in q.components /\ q.values[c] = v[c]
      BY <1>1, <1>3, <2>2, <3>1 DEF Carries
    <3>3. q.components \in SUBSET Components /\ q.values \in Values
      BY <3>1, SaveNumbers
    <3> QED BY <3>2, <3>3 DEF Whole, Values
  <2>3. s \in Later(row, saves)
    BY <1>1, <1>3, <2>1 DEF Later
  <2>4. ASSUME NEW q \in Later(row, saves)
        PROVE  q.revision < s.revision \/ (q.revision = s.revision /\ Whole(q, v))
    <3>1. q.revision <= e.current /\ q \in saves
      BY DEF Fits, Later
    <3> QED BY <1>1, <2>1, <2>2, <3>1
  <2> QED BY <2>1, <2>2, <2>3, <2>4 DEF LetGo
<1> QED BY <1>2, <1>3

-----------------------------------------------------------------------------
(***************************************************************************)
(* The saves of a player: what the queues hold, what the replay has still  *)
(* to do, and the journal.                                                 *)
(***************************************************************************)
Queued ==
  {pending_append[i] : i \in 1 .. Len(pending_append)}
    \cup {append_inflight[i] : i \in 1 .. Len(append_inflight)}
    \cup {durable_ready[i] : i \in 1 .. Len(durable_ready)}
    \cup {w_pending[i] : i \in 1 .. Len(w_pending)}

Saves == Queued \cup todo \cup journal
SavesOf(p) == {s \in Saves : s.owner = p}
FramesOf(p) == {s \in journal : s.owner = p}

LEMMA SavesTyped ==
  ASSUME Typed
  PROVE  /\ Saves \subseteq Snapshot /\ \A p : SavesOf(p) \in SUBSET Snapshot
         /\ \A p : FramesOf(p) \in SUBSET SavesOf(p)
<1>1. Queued \subseteq Snapshot
  BY DEF Typed, QueuesTyped, WriterTyped, Queued
<1>2. todo \subseteq Snapshot /\ journal \subseteq Snapshot
  BY DEF Typed, ReplayTyped, StoreTyped
<1> QED BY <1>1, <1>2 DEF Saves, SavesOf, FramesOf

Elements(q) == {q[i] : i \in 1 .. Len(q)}

LEMMA ConcatenatedElements ==
  ASSUME NEW x \in Seq(Snapshot), NEW y \in Seq(Snapshot), NEW z, z = x \o y
  PROVE  \A e : e \in Elements(z) <=> e \in Elements(x) \/ e \in Elements(y)
<1>1. /\ Len(x) \in Nat /\ Len(y) \in Nat /\ Len(z) = Len(x) + Len(y)
      /\ \A i \in 1 .. Len(z) : z[i] = (IF i =< Len(x) THEN x[i] ELSE y[i - Len(x)])
  BY Concatenated
<1>2. ASSUME NEW i \in 1 .. Len(z) PROVE z[i] \in Elements(x) \/ z[i] \in Elements(y)
  <2>1. CASE i =< Len(x)
    <3>1. i \in 1 .. Len(x) /\ z[i] = x[i]
      BY <1>1, <2>1
    <3> QED BY <3>1 DEF Elements
  <2>2. CASE ~(i =< Len(x))
    <3>1. i - Len(x) \in 1 .. Len(y) /\ z[i] = y[i - Len(x)]
      BY <1>1, <2>2
    <3> QED BY <3>1 DEF Elements
  <2> QED BY <2>1, <2>2
<1>3. ASSUME NEW i \in 1 .. Len(x) PROVE x[i] \in Elements(z)
  <2>1. i \in 1 .. Len(z) /\ z[i] = x[i]
    BY <1>1
  <2> QED BY <2>1 DEF Elements
<1>4. ASSUME NEW i \in 1 .. Len(y) PROVE y[i] \in Elements(z)
  <2>1. PICK j : j = Len(x) + i
    OBVIOUS
  <2>2. j \in 1 .. Len(z) /\ ~(j =< Len(x)) /\ j - Len(x) = i
    BY <1>1, <2>1
  <2>3. z[j] = y[i]
    BY <1>1, <2>2
  <2> QED BY <2>2, <2>3 DEF Elements
<1>5. \A e : e \in Elements(z) => e \in Elements(x) \/ e \in Elements(y)
  BY <1>2, Zenon DEF Elements
<1>6. \A e : e \in Elements(x) \/ e \in Elements(y) => e \in Elements(z)
  BY <1>3, <1>4, Zenon DEF Elements
<1> QED BY <1>1, <1>5, <1>6

LEMMA OnTheWayIsQueued ==
  ASSUME Typed
  PROVE  Range(OnTheWay) = Queued
<1>a. PICK a : a = w_pending \o durable_ready
  OBVIOUS
<1>b. PICK b : b = a \o append_inflight
  OBVIOUS
<1>c. PICK c : c = b \o pending_append
  OBVIOUS
<1>2. /\ w_pending \in Seq(Snapshot) /\ durable_ready \in Seq(Snapshot)
      /\ append_inflight \in Seq(Snapshot) /\ pending_append \in Seq(Snapshot)
  BY DEF Typed, QueuesTyped, WriterTyped
<1>3. a \in Seq(Snapshot) /\ b \in Seq(Snapshot) /\ c \in Seq(Snapshot)
  BY <1>a, <1>b, <1>c, <1>2
<1>4. \A e : e \in Elements(a) <=> e \in Elements(w_pending) \/ e \in Elements(durable_ready)
  <2>1. w_pending \in Seq(Snapshot) /\ durable_ready \in Seq(Snapshot)
    BY <1>2, <1>3
  <2> QED BY <1>a, <2>1, ConcatenatedElements, Zenon
<1>5. \A e : e \in Elements(b) <=> e \in Elements(a) \/ e \in Elements(append_inflight)
  <2>1. a \in Seq(Snapshot) /\ append_inflight \in Seq(Snapshot)
    BY <1>2, <1>3
  <2> QED BY <1>b, <2>1, ConcatenatedElements, Zenon
<1>6. \A e : e \in Elements(c) <=> e \in Elements(b) \/ e \in Elements(pending_append)
  <2>1. b \in Seq(Snapshot) /\ pending_append \in Seq(Snapshot)
    BY <1>2, <1>3
  <2> QED BY <1>c, <2>1, ConcatenatedElements, Zenon
<1>7. Elements(c) = Queued
  <2>1. Queued = Elements(pending_append) \cup Elements(append_inflight) \cup Elements(durable_ready)
                   \cup Elements(w_pending)
    BY DEF Queued, Elements
  <2> QED BY <1>4, <1>5, <1>6, <2>1
<1>8. DOMAIN c = 1 .. Len(c)
  BY <1>3
<1>9. OnTheWay = c
  BY <1>a, <1>b, <1>c DEF OnTheWay
<1> QED BY <1>7, <1>8, <1>9 DEF Range, Elements

\* What is unwritten is what is later than the row.
LEMMA NothingUnwritten ==
  ASSUME Typed, NEW p \in Pids
  PROVE  Unwritten(p) = Later(db[p], SavesOf(p))
BY OnTheWayIsQueued DEF Unwritten, Later, SavesOf, Saves, Newer

\* No step but a capture brings a save in.
LEMMA AdmissionSaves ==
  ASSUME Typed, NEW s \in Snapshot, NEW fits,
         pending_append' = pending_append \/ pending_append' = Enqueued(s, fits),
         UNCHANGED <<durable_ready, append_inflight, writer, todo, journal>>
  PROVE  Saves' \subseteq Saves \cup {s}
<1>1. PICK q : q = pending_append'
  OBVIOUS
<1>2. \A i \in 1 .. Len(q) :
        q[i] = s \/ \E j \in 1 .. Len(pending_append) : q[i] = pending_append[j]
  <2>1. pending_append \in Seq(Snapshot)
    BY DEF Typed, QueuesTyped
  <2>2. CASE q = pending_append
    BY <2>2
  <2>3. CASE q = Enqueued(s, fits)
    BY <2>1, <2>3, EnqueuedCaptures
  <2> QED BY <1>1, <2>2, <2>3
<1> QED BY <1>1, <1>2 DEF Saves, Queued, writer

LEMMA UnmovedSaves ==
  ASSUME UNCHANGED <<pipeline, w_pending>>, todo' \subseteq todo, journal' \subseteq journal
  PROVE  Saves' \subseteq Saves
BY DEF Saves, Queued, pipeline

LEMMA SubmitSaves ==
  ASSUME Typed, PulseSubmit
  PROVE  Saves' \subseteq Saves
<1>1. /\ \A i \in 1 .. Len(w_pending') :
           \/ w_pending'[i] = durable_ready[1]
           \/ \E j \in 1 .. Len(w_pending) : w_pending'[i] = w_pending[j]
      /\ 1 \in 1 .. Len(durable_ready)
      /\ \A i \in 1 .. Len(durable_ready') :
           \E j \in 1 .. Len(durable_ready) : durable_ready'[i] = durable_ready[j]
  BY SubmitCaptures
<1>2. UNCHANGED <<pending_append, append_inflight, todo, journal>>
  BY DEF PulseSubmit, replay
<1> QED BY <1>1, <1>2 DEF Saves, Queued

LEMMA TakeSaves ==
  ASSUME Typed, DispatchTake
  PROVE  Saves' \subseteq Saves
<1>1. pending_append # <<>> /\ pending_append \in Seq(Snapshot)
  BY DEF DispatchTake, Typed, QueuesTyped
<1>2. PICK s, t, u : s = Head(pending_append) /\ t = Tail(pending_append) /\ u = <<s>>
  OBVIOUS
<1>3. /\ s = pending_append[1] /\ s \in Snapshot /\ 1 \in 1 .. Len(pending_append)
      /\ \A i \in 1 .. Len(t) : i + 1 \in 1 .. Len(pending_append) /\ t[i] = pending_append[i + 1]
  BY <1>1, <1>2, Tailed
<1>4. Len(u) = 1 /\ u[1] = s
  BY <1>2, <1>3, SingleTyped
<1>5. append_inflight' = u /\ pending_append' = t
      /\ UNCHANGED <<durable_ready, w_pending, todo, journal>>
  BY <1>2 DEF DispatchTake, writer, replay
<1>6. /\ \A i \in 1 .. Len(u) : \E j \in 1 .. Len(pending_append) : u[i] = pending_append[j]
      /\ \A i \in 1 .. Len(t) : \E j \in 1 .. Len(pending_append) : t[i] = pending_append[j]
  BY <1>3, <1>4
<1>7. Queued' \subseteq Queued
  BY <1>5, <1>6 DEF Queued
<1> QED BY <1>5, <1>7 DEF Saves

LEMMA AppendOKSaves ==
  ASSUME Typed, AppendOK
  PROVE  Saves' \subseteq Saves
<1>0. append_inflight # <<>>
  BY DEF AppendOK
<1>1. PICK s, t, u : s = Head(append_inflight) /\ t = Append(durable_ready, s) /\ u = append_inflight'
  OBVIOUS
<1>2. s \in Snapshot /\ Len(append_inflight) = 1 /\ append_inflight[1] = s
  BY <1>0, <1>1, Inflight DEF Typed
<1>3. \A i \in 1 .. Len(t) : t[i] = s \/ \E j \in 1 .. Len(durable_ready) : t[i] = durable_ready[j]
  <2>1. /\ Len(durable_ready) \in Nat /\ Len(t) = Len(durable_ready) + 1
        /\ \A i \in 1 .. Len(durable_ready) : t[i] = durable_ready[i]
        /\ t[Len(durable_ready) + 1] = s
    BY <1>1, <1>2, Appended DEF Typed, QueuesTyped
  <2> QED BY <2>1
<1>4. u = <<>> /\ durable_ready' = t /\ UNCHANGED <<pending_append, w_pending, todo>>
      /\ journal' = journal \cup {s}
  BY <1>1 DEF AppendOK, writer, replay
<1>5. Len(u) = 0
  BY <1>4, EmptyTyped
<1>6. s \in Queued
  BY <1>2 DEF Queued
<1> QED BY <1>1, <1>3, <1>4, <1>5, <1>6 DEF Saves, Queued

LEMMA AppendFailsSaves ==
  ASSUME Typed, NEW left \in BOOLEAN, AppendFails(left)
  PROVE  Saves' \subseteq Saves
<1>1. PICK t, u : t = append_inflight \o pending_append /\ u = append_inflight'
  OBVIOUS
<1>2. /\ Len(append_inflight) \in Nat /\ Len(pending_append) \in Nat
      /\ Len(t) = Len(append_inflight) + Len(pending_append)
      /\ \A i \in 1 .. Len(t) : t[i] = (IF i =< Len(append_inflight) THEN append_inflight[i]
                                        ELSE pending_append[i - Len(append_inflight)])
  BY <1>1, Concatenated DEF Typed, QueuesTyped
<1>3. \A i \in 1 .. Len(t) : \/ \E j \in 1 .. Len(append_inflight) : t[i] = append_inflight[j]
                             \/ \E j \in 1 .. Len(pending_append) : t[i] = pending_append[j]
  <2>1. ASSUME NEW i \in 1 .. Len(t), i =< Len(append_inflight)
        PROVE  i \in 1 .. Len(append_inflight) /\ t[i] = append_inflight[i]
    BY <1>2, <2>1
  <2>2. ASSUME NEW i \in 1 .. Len(t), ~(i =< Len(append_inflight))
        PROVE  /\ i - Len(append_inflight) \in 1 .. Len(pending_append)
               /\ t[i] = pending_append[i - Len(append_inflight)]
    BY <1>2, <2>2
  <2> QED BY <2>1, <2>2
<1>4. u = <<>> /\ pending_append' = t /\ UNCHANGED <<durable_ready, w_pending, todo>>
  BY <1>1 DEF AppendFails, writer, replay
<1>5. Len(u) = 0
  BY <1>4, EmptyTyped
<1>6. journal' \subseteq journal \cup Queued
  <2>1. append_inflight # <<>>
    BY DEF AppendFails
  <2>2. Len(append_inflight) = 1 /\ append_inflight[1] = Head(append_inflight)
    BY <2>1, Inflight DEF Typed
  <2>3. Head(append_inflight) \in Queued
    BY <2>2 DEF Queued
  <2> QED BY <2>3 DEF AppendFails
<1> QED BY <1>1, <1>3, <1>4, <1>5, <1>6 DEF Saves, Queued

LEMMA FinishSaves ==
  ASSUME Typed, WriterFinishes
  PROVE  Saves' \subseteq Saves
<1>0. w_taken /\ w_outcome # "none" /\ Writer!Finish(w_outcome) /\ UNCHANGED <<pipeline, todo>>
  BY DEF WriterFinishes, replay
<1>1. \A i \in 1 .. Len(w_pending') : \E j \in 1 .. Len(w_pending) : w_pending'[i] = w_pending[j]
  BY <1>0, Finished, Writing DEF Typed
<1>2. journal' \subseteq journal
  BY DEF WriterFinishes, AcknowledgedJournal, Compacted
<1> QED BY <1>0, <1>1, <1>2 DEF Saves, Queued, pipeline

LEMMA RestartSaves ==
  ASSUME Restarted
  PROVE  Saves' \subseteq Saves
<1>1. Queued' = {}
  <2>1. PICK a, b, c, d : /\ a = pending_append' /\ b = durable_ready' /\ c = append_inflight'
                          /\ d = w_pending'
    OBVIOUS
  <2>2. a = <<>> /\ b = <<>> /\ c = <<>> /\ d = <<>>
    BY <2>1 DEF Restarted
  <2>3. Len(a) = 0 /\ Len(b) = 0 /\ Len(c) = 0 /\ Len(d) = 0
    BY <2>2, EmptyTyped
  <2>4. /\ 1 .. Len(pending_append)' = {} /\ 1 .. Len(durable_ready)' = {}
        /\ 1 .. Len(append_inflight)' = {} /\ 1 .. Len(w_pending)' = {}
    BY <2>1, <2>3
  <2> QED BY <2>4, Zenon DEF Queued
<1>2. todo' = journal /\ journal' = journal
  BY DEF Restarted
<1> QED BY <1>1, <1>2 DEF Saves

-----------------------------------------------------------------------------
(***************************************************************************)
(* What holds of one player at every step.                                 *)
(***************************************************************************)
Sound(p) ==
  /\ Knows(revision_states[p])
  /\ live[p].online =>
       /\ Fits(revision_states[p], live[p].values, db[p], SavesOf(p))
       /\ live[p].values \in Moments(p)
  /\ OneCut(db[p], SavesOf(p), Moments(p))
  /\ released[p] # <<>> =>
       /\ ~live[p].online /\ released[p] \in Values
       /\ LetGo(released[p], db[p], SavesOf(p), FramesOf(p))

\* The game waits for the fence of a terminal save: its player is still there, every
\* component marked at the revision of the fence.
FenceWaits ==
  game.wait.for = "fence" =>
    LET e == revision_states[game.wait.pid]
    IN  /\ live[game.wait.pid].online /\ e.current = game.wait.revision
        /\ \A c \in Components : e.component_revisions[c] = e.current

ReleasedTyped == released \in [Pids -> Values \cup {<<>>}]

Faithful == (\A p \in Pids : Sound(p)) /\ FenceWaits /\ ReleasedTyped

LEMMA PlayerTyped ==
  ASSUME Typed, NEW p \in Pids
  PROVE  /\ revision_states[p] \in Rev!Entry /\ live[p].values \in Values /\ db[p] \in Rows
         /\ SavesOf(p) \in SUBSET Snapshot /\ FramesOf(p) \in SUBSET SavesOf(p)
         /\ Moments(p) \in SUBSET Values
<1>1. revision_states[p] \in Rev!Entry /\ live[p].values \in Values /\ db[p] \in Rows
  BY DEF Typed, TableTyped, LiveTyped, StoreTyped, Characters
<1>2. [c \in Components |-> 0] \in Values
  BY LimitAssumption DEF Values
<1>3. ASSUME NEW i \in DOMAIN history PROVE history[i].values \in Values
  <2>1. history[i] \in Changes
    BY DEF Typed, LiveTyped
  <2> QED BY <2>1 DEF Changes
<1>4. Moments(p) \in SUBSET Values
  BY <1>2, <1>3 DEF Moments
<1> QED BY <1>1, <1>4, SavesTyped

\* A change adds a moment.
LEMMA MomentsGrow ==
  ASSUME Typed, NEW p \in Pids, NEW comps \in SUBSET Components, Change(p, comps)
  PROVE  /\ Changed(p, comps) \in Moments(p)'
         /\ \A q \in Pids : Moments(q) \subseteq Moments(q)'
<1>0. history \in Seq(Changes) /\ Changed(p, comps) \in Values
  <2>1. Len(history) \in Nat /\ Len(history) < MaxChanges
    BY DEF Change, Typed, LiveTyped
  <2>2. Len(history) + 1 \in 0 .. MaxChanges
    BY <2>1, LimitAssumption
  <2> QED BY <2>2, PlayerTyped DEF Changed, Values, Typed, LiveTyped
<1>1. PICK ch, h : ch = [pid |-> p, values |-> Changed(p, comps)] /\ h = history'
  OBVIOUS
<1>2. ch \in Changes /\ h = Append(history, ch)
  BY <1>0, <1>1 DEF Changes, Change
<1>3. /\ Len(history) \in Nat /\ Len(h) = Len(history) + 1 /\ h \in Seq(Changes)
      /\ \A i \in 1 .. Len(history) : h[i] = history[i]
      /\ h[Len(history) + 1] = ch
  BY <1>0, <1>2, Appended
<1>4. DOMAIN h = 1 .. Len(h) /\ DOMAIN history = 1 .. Len(history)
  BY <1>0, <1>3
<1>5. Len(history) + 1 \in DOMAIN h /\ \A i \in DOMAIN history : i \in DOMAIN h /\ h[i] = history[i]
  BY <1>3, <1>4
<1>6. ASSUME NEW q \in Pids, NEW v \in Moments(q) PROVE v \in Moments(q)'
  <2>1. CASE v = [c \in Components |-> 0]
    BY <2>1 DEF Moments
  <2>2. CASE \E i \in DOMAIN history : history[i].pid = q /\ v = history[i].values
    BY <1>1, <1>5, <2>2 DEF Moments
  <2> QED BY <1>6, <2>1, <2>2 DEF Moments
<1>7. Changed(p, comps) \in Moments(p)'
  BY <1>1, <1>3, <1>5 DEF Moments
<1> QED BY <1>6, <1>7

\* Frames that are later than the row stay.
LEMMA FramesStay ==
  ASSUME Typed, Typed', FramesKept, NEW p \in Pids
  PROVE  Later(db'[p], FramesOf(p)) \subseteq FramesOf(p)'
<1> SUFFICES ASSUME NEW s \in Later(db'[p], FramesOf(p)) PROVE s \in FramesOf(p)'
  OBVIOUS
<1>1. s \in journal /\ s.owner = p /\ db'[p].revision < s.revision
  BY DEF Later, FramesOf
<1>2. s.revision \in Nat
  BY <1>1, RowNumbers DEF Typed
<1>3. db'[p].revision \in Nat
  <2>1. db' \in [Pids -> Rows]
    BY DEF Typed, StoreTyped
  <2> QED BY <2>1, SaveNumbers
<1>4. s \in journal'
  BY <1>1, <1>2, <1>3 DEF FramesKept
<1> QED BY <1>1, <1>4 DEF FramesOf

\* A player to whom nothing happens but that acknowledgements arrive, one of his saves
\* is written, or some of them are dropped.
LEMMA SoundStep ==
  ASSUME Typed, Typed', FramesKept, NEW p \in Pids, Sound(p),
         live'[p] = live[p], released'[p] = released[p],
         SavesOf(p)' \subseteq SavesOf(p), Moments(p) \subseteq Moments(p)',
         db'[p] = db[p] \/ \E s \in Later(db[p], SavesOf(p)) : db'[p] = Overlaid(db[p], s),
         Knows(revision_states'[p]),
         live[p].online => Acks(revision_states[p], revision_states'[p], db'[p].revision)
  PROVE  Sound(p)'
<1>1. PICK e, v, row, saves, frames, moments :
        /\ e = revision_states[p] /\ v = live[p].values /\ row = db[p] /\ saves = SavesOf(p)
        /\ frames = FramesOf(p) /\ moments = Moments(p)
  OBVIOUS
<1>2. PICK f, new, fewer, kept, more :
        /\ f = revision_states'[p] /\ new = db'[p] /\ fewer = SavesOf(p)' /\ kept = FramesOf(p)'
        /\ more = Moments(p)'
  OBVIOUS
<1>3. /\ e \in Rev!Entry /\ v \in Values /\ row \in Rows /\ saves \in SUBSET Snapshot
      /\ frames \in SUBSET saves /\ moments \in SUBSET Values
  BY <1>1, PlayerTyped
<1>4. fewer \in SUBSET saves
  BY <1>1, <1>2 DEF SavesOf
<1>5. kept \in SUBSET fewer
  BY <1>2 DEF FramesOf, SavesOf, Saves
<1>6. OneCut(new, saves, moments)
  BY <1>1, <1>2, <1>3, CutApply DEF Sound
<1>7. OneCut(new, fewer, more)
  BY <1>1, <1>2, <1>4, <1>6, CutFewer
<1>8. ASSUME live[p].online PROVE Fits(f, v, new, fewer)
  <2>1. Fits(e, v, new, saves)
    BY <1>1, <1>2, <1>3, <1>8, FitsApply DEF Sound
  <2>2. /\ f.present = e.present /\ f.current = e.current
        /\ f.component_revisions = e.component_revisions
        /\ e.acknowledged <= new.revision => f.acknowledged <= new.revision
    BY <1>1, <1>2, <1>8 DEF Acks
  <2>3. e.acknowledged <= new.revision
    BY <2>1 DEF Fits
  <2>4. Fits(f, v, new, saves)
    BY <2>1, <2>2, <2>3, FitsSame
  <2> QED BY <1>4, <2>4, FitsFewer
<1>9. ASSUME released[p] # <<>> PROVE LetGo(released[p], new, fewer, kept)
  <2>1. LetGo(released[p], row, saves, frames) /\ released[p] \in Values
    BY <1>1, <1>9 DEF Sound
  <2>2. LetGo(released[p], new, saves, frames)
    BY <1>1, <1>2, <1>3, <2>1, LetGoApply
  <2>3. Later(new, frames) \subseteq kept
    BY <1>1, <1>2, FramesStay
  <2> QED BY <1>4, <1>5, <2>2, <2>3, LetGoFewer
<1>10. Knows(f)
  BY <1>2
<1> QED BY <1>1, <1>2, <1>7, <1>8, <1>9, <1>10 DEF Sound

\* The player who is captured: his entry, marked anew or not, is sealed.
LEMMA CaptureSound ==
  ASSUME Typed, Typed', NEW p \in Pids, Sound(p), live[p].online, NEW e \in Rev!Entry,
         Knows(e), Fits(e, live[p].values, db[p], SavesOf(p)), NEW death \in BOOLEAN,
         revision_states'[p] = e \/ revision_states'[p] = Rev!Sealed(e),
         Saves' \subseteq Saves \cup {Capture(p, Rev!Sealed(e), death)},
         UNCHANGED <<live, db, released, history>>
  PROVE  Sound(p)'
<1>1. PICK v, row, saves, moments, s :
        /\ v = live[p].values /\ row = db[p] /\ saves = SavesOf(p)
        /\ moments = Moments(p) /\ s = Capture(p, Rev!Sealed(e), death)
  OBVIOUS
<1>2. /\ v \in Values /\ row \in Rows /\ saves \in SUBSET Snapshot
  BY <1>1, PlayerTyped
<1>3. Rev!Sealed(e) \in Rev!Entry /\ Rev!Sealed(e).queued_revision = e.current
      /\ Rev!Sealed(e).queued = e.unacknowledged
  BY SealedEntry
<1>4. s \in Snapshot /\ s.owner = p /\ s.revision = e.current
  BY <1>1, <1>3, CaptureTyped DEF Typed
<1>5. s.components = e.unacknowledged /\ \A c \in s.components : s.values[c] = v[c]
  <2>1. s.components = e.unacknowledged
    BY <1>1, <1>3 DEF Capture
  <2>2. s.values = [c \in Components |-> IF c \in e.unacknowledged THEN v[c] ELSE 0]
    BY <1>1, <1>3 DEF Capture
  <2>3. e.unacknowledged \in SUBSET Components
    BY EntryNumbers
  <2> QED BY <2>1, <2>2, <2>3
<1>6. Fits(e, v, row, saves \cup {s})
  BY <1>1, <1>2, <1>4, <1>5, FitsCapture
<1>7. OneCut(row, saves \cup {s}, moments)
  BY <1>1, <1>2, <1>4, <1>5, CutCapture DEF Sound
<1>8. PICK f, fewer : f = revision_states'[p] /\ fewer = SavesOf(p)'
  OBVIOUS
<1>9. fewer \in SUBSET (saves \cup {s})
  BY <1>1, <1>8 DEF SavesOf
<1>10. /\ Knows(f) /\ f.present = e.present /\ f.current = e.current /\ f.acknowledged = e.acknowledged
       /\ f.component_revisions = e.component_revisions
  BY <1>8, SealedKnows
<1>11. e.acknowledged <= row.revision
  BY <1>6 DEF Fits
<1>12. Fits(f, v, row, saves \cup {s})
  BY <1>6, <1>10, <1>11, FitsSame
<1>13. Fits(f, v, row, fewer)
  BY <1>9, <1>12, FitsFewer
<1>14. OneCut(row, fewer, moments)
  BY <1>7, <1>9, CutFewer
<1>15. Moments(p)' = Moments(p)
  BY DEF Moments
<1>16. released[p] = <<>>
  BY DEF Sound
<1> QED BY <1>1, <1>8, <1>10, <1>13, <1>14, <1>15, <1>16 DEF Sound

-----------------------------------------------------------------------------
(***************************************************************************)
(* Each operation of the game keeps its player sound, and leaves the       *)
(* others.                                                                 *)
(***************************************************************************)
LEMMA Untouched ==
  ASSUME Typed, Typed', FramesKept, NEW p \in Pids, Sound(p),
         revision_states'[p] = revision_states[p], live'[p] = live[p], db'[p] = db[p],
         released'[p] = released[p],
         SavesOf(p)' \subseteq SavesOf(p), Moments(p) \subseteq Moments(p)'
  PROVE  Sound(p)'
<1>1. Knows(revision_states'[p])
  BY DEF Sound
<1>2. Acks(revision_states[p], revision_states'[p], db'[p].revision)
  BY DEF Acks
<1> QED BY <1>1, <1>2, SoundStep

LEMMA TerminalKnows ==
  ASSUME Typed, NEW p \in Pids, Sound(p), live[p].online, Rev!MarkAccepts(p, Components)
  PROVE  /\ TerminalEntry(p) \in Rev!Entry /\ Knows(TerminalEntry(p))
         /\ Fits(TerminalEntry(p), live[p].values, db[p], SavesOf(p))
         /\ \A c \in Components : TerminalEntry(p).component_revisions[c] = TerminalEntry(p).current
<1>1. revision_states[p] \in Rev!Entry /\ Components \in SUBSET Components
  BY PlayerTyped
<1>2. TerminalEntry(p) \in Rev!Entry
  BY TerminalTyped
<1>3. /\ Knows(TerminalEntry(p))
      /\ \A c \in Components : TerminalEntry(p).component_revisions[c] = TerminalEntry(p).current
  BY <1>1, MarkedKnows DEF TerminalEntry, Sound
<1>4. Fits(TerminalEntry(p), live[p].values, db[p], SavesOf(p))
  BY <1>1, PlayerTyped, FitsMark DEF TerminalEntry, Sound
<1> QED BY <1>2, <1>3, <1>4

LEMMA ChangeSound ==
  ASSUME Typed, Typed', FramesKept, \A q \in Pids : Sound(q),
         NEW p \in Pids, NEW comps \in SUBSET Components, Change(p, comps)
  PROVE  \A q \in Pids : Sound(q)'
<1>1. /\ live[p].online /\ Rev!MarkAccepts(p, comps)
      /\ revision_states' = [revision_states EXCEPT ![p] = Rev!Marked(revision_states[p], comps)]
      /\ live' = [live EXCEPT ![p].values = Changed(p, comps)]
      /\ UNCHANGED <<pipeline, writer, replay, journal, db, released>>
  BY DEF Change, Playing, Rev!Mark, Rev!Update
<1>2. Saves' \subseteq Saves
  BY <1>1, UnmovedSaves DEF writer, replay
<1>3. \A q \in Pids : SavesOf(q)' \subseteq SavesOf(q)
  BY <1>2 DEF SavesOf
<1>4. ASSUME NEW q \in Pids, q # p PROVE Sound(q)'
  <2>1. revision_states'[q] = revision_states[q] /\ live'[q] = live[q]
    BY <1>1, <1>4 DEF Typed, TableTyped, LiveTyped
  <2> QED BY <1>1, <1>3, <2>1, MomentsGrow, Untouched
<1>5. Sound(p)'
  <2>1. PICK e, v, w, row, saves, moments, fewer, more, f :
          /\ e = revision_states[p] /\ v = live[p].values /\ w = Changed(p, comps) /\ row = db[p]
          /\ saves = SavesOf(p) /\ moments = Moments(p) /\ fewer = SavesOf(p)'
          /\ more = Moments(p)' /\ f = Rev!Marked(e, comps)
    OBVIOUS
  <2>2. e \in Rev!Entry /\ v \in Values /\ row \in Rows /\ saves \in SUBSET Snapshot
    BY <2>1, PlayerTyped
  <2>3. live'[p].online = live[p].online /\ live'[p].values = w /\ revision_states'[p] = f
        /\ db'[p] = row
    BY <1>1, <2>1 DEF Typed, TableTyped, LiveTyped, Characters
  <2>4. w \in Values
    BY <2>3, PlayerTyped DEF Typed, LiveTyped, Characters
  <2>5. \A c \in Components \ comps : w[c] = v[c]
    BY <2>1 DEF Changed
  <2>6. Knows(e) /\ Fits(e, v, row, saves) /\ OneCut(row, saves, moments) /\ released[p] = <<>>
    BY <1>1, <2>1 DEF Sound
  <2>7. Fits(f, w, row, saves)
    BY <2>1, <2>2, <2>4, <2>5, <2>6, FitsMark
  <2>8. Knows(f)
    BY <2>1, <2>2, <2>6, MarkedKnows
  <2>9. fewer \in SUBSET saves /\ moments \subseteq more /\ w \in more
    BY <1>3, <2>1, MomentsGrow
  <2>10. Fits(f, w, row, fewer) /\ OneCut(row, fewer, more)
    BY <2>6, <2>7, <2>9, FitsFewer, CutFewer
  <2>11. released'[p] = <<>>
    BY <1>1, <2>6
  <2> QED BY <2>1, <2>3, <2>8, <2>9, <2>10, <2>11 DEF Sound
<1> QED BY <1>4, <1>5

\* The captures: checkpoints and terminal saves.
LEMMA TakenSound ==
  ASSUME Typed, Typed', FramesKept, \A q \in Pids : Sound(q),
         NEW p \in Pids, live[p].online, NEW e \in Rev!Entry,
         Knows(e), Fits(e, live[p].values, db[p], SavesOf(p)), NEW death \in BOOLEAN, NEW fits,
         \/ revision_states' = [revision_states EXCEPT ![p] = e]
         \/ revision_states' = [revision_states EXCEPT ![p] = Rev!Sealed(e)],
         \/ pending_append' = pending_append
         \/ pending_append' = Enqueued(Capture(p, Rev!Sealed(e), death), fits),
         UNCHANGED <<durable_ready, append_inflight, writer, replay, journal, db, live, ghosts>>
  PROVE  \A q \in Pids : Sound(q)'
<1>1. PICK s : s = Capture(p, Rev!Sealed(e), death)
  OBVIOUS
<1>2. s \in Snapshot /\ s.owner = p
  BY <1>1, SealedEntry, CaptureTyped DEF Typed
<1>3. Saves' \subseteq Saves \cup {s}
  <2>1. UNCHANGED <<durable_ready, append_inflight, writer, todo, journal>>
    BY DEF replay
  <2> QED BY <1>1, <1>2, <2>1, AdmissionSaves
<1>4. UNCHANGED <<live, db, released, history>>
  BY DEF ghosts
<1>5. ASSUME NEW q \in Pids, q # p PROVE Sound(q)'
  <2>1. revision_states'[q] = revision_states[q]
    BY <1>5 DEF Typed, TableTyped
  <2>2. SavesOf(q)' \subseteq SavesOf(q)
    BY <1>2, <1>3, <1>5 DEF SavesOf
  <2>3. Moments(q)' = Moments(q)
    BY <1>4 DEF Moments
  <2> QED BY <1>4, <2>1, <2>2, <2>3, Untouched
<1>6. Sound(p)'
  <2>1. revision_states'[p] = e \/ revision_states'[p] = Rev!Sealed(e)
    BY DEF Typed, TableTyped
  <2> QED BY <1>1, <1>3, <1>4, <2>1, CaptureSound
<1> QED BY <1>5, <1>6

LEMMA CheckpointSound ==
  ASSUME Typed, Typed', FramesKept, \A q \in Pids : Sound(q),
         NEW p \in Pids, NEW captured \in BOOLEAN, NEW fits \in BOOLEAN, Checkpoint(p, captured, fits)
  PROVE  \A q \in Pids : Sound(q)'
<1>1. /\ live[p].online
      /\ revision_states' = [revision_states EXCEPT ![p] = Rev!Sealed(revision_states[p])]
      /\ \/ pending_append' = pending_append
         \/ pending_append' = Enqueued(Capture(p, Rev!Sealed(revision_states[p]), FALSE), fits)
      /\ UNCHANGED <<durable_ready, append_inflight, writer, replay, journal, db, live, ghosts>>
  BY DEF Checkpoint, Playing, Rev!Queue, Rev!Update
<1>2. /\ revision_states[p] \in Rev!Entry /\ Knows(revision_states[p])
      /\ Fits(revision_states[p], live[p].values, db[p], SavesOf(p))
  BY <1>1, PlayerTyped DEF Sound
<1> QED BY <1>1, <1>2, TakenSound

LEMMA TerminalSound ==
  ASSUME Typed, Typed', FramesKept, \A q \in Pids : Sound(q),
         NEW p \in Pids, NEW intent, NEW capture, NEW fits \in BOOLEAN,
         Terminal(p, intent, capture, fits)
  PROVE  \A q \in Pids : Sound(q)'
<1>0. live[p].online /\ Rev!MarkAccepts(p, Components)
  BY DEF Terminal, Playing, MayFence
<1>1. /\ \/ revision_states' = [revision_states EXCEPT ![p] = TerminalEntry(p)]
         \/ revision_states' = [revision_states EXCEPT ![p] = Rev!Sealed(TerminalEntry(p))]
      /\ \/ pending_append' = pending_append
         \/ pending_append' = Enqueued(Capture(p, Rev!Sealed(TerminalEntry(p)), FALSE), fits)
      /\ UNCHANGED <<durable_ready, append_inflight, writer, replay, journal, db, live, ghosts>>
  BY DEF Terminal
<1>2. /\ TerminalEntry(p) \in Rev!Entry /\ Knows(TerminalEntry(p))
      /\ Fits(TerminalEntry(p), live[p].values, db[p], SavesOf(p))
  BY <1>0, TerminalKnows
<1> HIDE DEF TerminalEntry
<1> QED BY <1>0, <1>1, <1>2, TakenSound

LEMMA TerminalDeathSound ==
  ASSUME Typed, Typed', FramesKept, \A q \in Pids : Sound(q),
         NEW p \in Pids, NEW captured \in BOOLEAN, NEW fits \in BOOLEAN,
         TerminalDeath(p, captured, fits)
  PROVE  \A q \in Pids : Sound(q)'
<1>0. live[p].online /\ Rev!MarkAccepts(p, Components)
  BY DEF TerminalDeath, Playing, MayFence
<1>1. /\ \/ revision_states' = [revision_states EXCEPT ![p] = TerminalEntry(p)]
         \/ revision_states' = [revision_states EXCEPT ![p] = Rev!Sealed(TerminalEntry(p))]
      /\ \/ pending_append' = pending_append
         \/ pending_append' = Enqueued(Capture(p, Rev!Sealed(TerminalEntry(p)), TRUE), fits)
      /\ UNCHANGED <<durable_ready, append_inflight, writer, replay, journal, db, live, ghosts>>
  BY DEF TerminalDeath
<1>2. /\ TerminalEntry(p) \in Rev!Entry /\ Knows(TerminalEntry(p))
      /\ Fits(TerminalEntry(p), live[p].values, db[p], SavesOf(p))
  BY <1>0, TerminalKnows
<1> QED BY <1>0, <1>1, <1>2, TakenSound

\* A synchronous save: everything marked at a fresh revision, and perhaps in the row.
LEMMA SynchronousSaveSound ==
  ASSUME Typed, Typed', FramesKept, \A q \in Pids : Sound(q),
         NEW p \in Pids, NEW commits \in BOOLEAN, NEW answered \in BOOLEAN,
         SynchronousSave(p, commits, answered)
  PROVE  \A q \in Pids : Sound(q)'
<1>0. /\ live[p].online /\ Rev!MarkAccepts(p, Components)
      /\ UNCHANGED <<pipeline, replay, writer, journal, live, ghosts>>
  BY DEF SynchronousSave, Playing
<1>1. PICK e, v, row, saves, fewer, moments, f, new :
        /\ e = TerminalEntry(p) /\ v = live[p].values /\ row = db[p] /\ saves = SavesOf(p)
        /\ fewer = SavesOf(p)' /\ moments = Moments(p) /\ f = revision_states'[p] /\ new = db'[p]
  OBVIOUS
<1>2. /\ e \in Rev!Entry /\ Knows(e) /\ Fits(e, v, row, saves)
  BY <1>0, <1>1, TerminalKnows
<1>3. v \in Values /\ row \in Rows /\ saves \in SUBSET Snapshot
  BY <1>1, PlayerTyped
<1>4. \/ /\ revision_states' = [revision_states EXCEPT ![p] = e] /\ db' = db
      \/ /\ \/ revision_states' = [revision_states EXCEPT ![p] = e]
            \/ revision_states' = [revision_states EXCEPT ![p] =
                                     Rev!DurablyAcknowledged(e, e.current, Components)]
         /\ db' = [db EXCEPT ![p] = [revision |-> e.current, values |-> v]]
  BY <1>1 DEF SynchronousSave
<1>5. Saves' \subseteq Saves
  BY <1>0, UnmovedSaves DEF writer, replay
<1>6. UNCHANGED <<released, history>>
  BY <1>0 DEF ghosts
<1>7. \A q \in Pids : Moments(q)' = Moments(q) /\ SavesOf(q)' \subseteq SavesOf(q)
  BY <1>5, <1>6 DEF Moments, SavesOf
<1>8. ASSUME NEW q \in Pids, q # p PROVE Sound(q)'
  <2>1. revision_states'[q] = revision_states[q] /\ db'[q] = db[q]
    BY <1>4, <1>8 DEF Typed, TableTyped, StoreTyped
  <2> QED BY <1>0, <1>6, <1>7, <2>1, Untouched
<1>9. /\ Knows(f) /\ Fits(f, v, new, fewer) /\ OneCut(new, fewer, moments)
  <2>0. fewer \in SUBSET saves /\ OneCut(row, saves, moments) /\ v \in moments
    BY <1>0, <1>1, <1>7 DEF Sound
  <2>1. CASE f = e /\ new = row
    BY <1>2, <2>0, <2>1, FitsFewer, CutFewer
  <2>2. CASE /\ f = e \/ f = Rev!DurablyAcknowledged(e, e.current, Components)
             /\ new = [revision |-> e.current, values |-> v]
    <3>1. e.current \in Rev!Revisions /\ e.current \in Nat
      BY <1>2, EntryNumbers DEF Rev!Entry
    <3>2. new \in Rows /\ new.revision = e.current /\ new.values = v
      BY <1>3, <2>2, <3>1 DEF Rows
    <3>3. Fits(e, v, new, saves) /\ Later(new, saves) = {}
      BY <1>2, <1>3, <3>2, FitsWrite
    <3>4. Acks(e, f, e.current)
      <4>1. CASE f = e
        BY <4>1 DEF Acks
      <4>2. CASE f = Rev!DurablyAcknowledged(e, e.current, Components)
        <5>1. e.acknowledged <= e.current /\ Components \in SUBSET Components
          BY <1>2 DEF Knows
        <5>2. e.current <= e.current
          BY <3>1
        <5> QED BY <1>2, <3>1, <4>2, <5>1, <5>2, DurablyAcknowledgedKnows
      <4> QED BY <2>2, <4>1, <4>2
    <3>5. Knows(f) /\ f.acknowledged <= new.revision
      BY <1>2, <3>2, <3>4 DEF Acks, Knows
    <3>6. Fits(f, v, new, saves)
      BY <3>3, <3>4, <3>5, FitsSame DEF Acks
    <3>7. OneCut(new, saves, moments)
      BY <2>0, <3>2, <3>3 DEF OneCut
    <3> QED BY <2>0, <3>5, <3>6, <3>7, FitsFewer, CutFewer
  <2>3. \/ f = e /\ new = row
        \/ /\ f = e \/ f = Rev!DurablyAcknowledged(e, e.current, Components)
           /\ new = [revision |-> e.current, values |-> v]
    BY <1>1, <1>4 DEF Typed, TableTyped, StoreTyped
  <2> QED BY <2>1, <2>2, <2>3
<1>10. live'[p] = live[p] /\ released'[p] = <<>> /\ live[p].values \in Moments(p)
  BY <1>0, <1>6 DEF Sound
<1>11. Sound(p)'
  BY <1>1, <1>7, <1>9, <1>10 DEF Sound
<1> QED BY <1>8, <1>11

\* A login that waited gets the whole character, with nothing of it newer than the row.
LEMMA LoginSound ==
  ASSUME Typed, Typed', FramesKept, \A q \in Pids : Sound(q), ReleasedTyped,
         NEW p \in Pids, Login(p), LoadWaits
  PROVE  \A q \in Pids : Sound(q)'
<1>0. /\ ~live[p].online /\ Rev!Hydrate(p, db[p].revision)
      /\ live' = [live EXCEPT ![p] = [online |-> TRUE, values |-> db[p].values]]
      /\ released' = [released EXCEPT ![p] = <<>>]
      /\ UNCHANGED <<pipeline, replay, writer, journal, db, history>>
  BY DEF Login
<1>1. PICK e, row, saves, fewer, moments, f :
        /\ e = revision_states[p] /\ row = db[p] /\ saves = SavesOf(p)
        /\ fewer = SavesOf(p)' /\ moments = Moments(p) /\ f = revision_states'[p]
  OBVIOUS
<1>2. e \in Rev!Entry /\ row \in Rows /\ saves \in SUBSET Snapshot /\ row.revision \in Rev!Revisions
      /\ row.revision \in Nat
  BY <1>1, PlayerTyped, SaveNumbers DEF Rows
<1>3. Saves' \subseteq Saves
  BY <1>0, UnmovedSaves DEF writer, replay
<1>4. \A q \in Pids : Moments(q)' = Moments(q) /\ SavesOf(q)' \subseteq SavesOf(q)
  BY <1>0, <1>3 DEF Moments, SavesOf
<1>5. PICK g : revision_states' = [revision_states EXCEPT ![p] = g] /\ f = g
  BY <1>0, <1>1 DEF Rev!Hydrate, Rev!Update, Typed, TableTyped
<1>6. ASSUME NEW q \in Pids, q # p PROVE Sound(q)'
  <2>1. revision_states'[q] = revision_states[q] /\ live'[q] = live[q]
    BY <1>0, <1>5, <1>6 DEF Typed, TableTyped, LiveTyped
  <2>2. released'[q] = released[q]
    BY <1>0, <1>6 DEF ReleasedTyped
  <2> QED BY <1>0, <1>4, <2>1, <2>2, Untouched
<1>7. live'[p] = [online |-> TRUE, values |-> row.values]
  BY <1>0, <1>1 DEF Typed, LiveTyped
<1>8. Unwritten(p) = {}
  BY <1>0, <1>7 DEF LoadWaits
<1>9. Later(row, saves) = {}
  BY <1>1, <1>8, NothingUnwritten
<1>10. Knows(e)
  BY <1>1 DEF Sound
<1>11. /\ Rev!HydrateAccepts(p, row.revision)
       /\ f = IF ~e.present THEN Rev!Hydrated(row.revision)
              ELSE IF Rev!Settled(e) THEN Rev!Rehydrated(e, row.revision) ELSE e
  BY <1>0, <1>1 DEF Rev!Hydrate, Rev!Update, Typed, TableTyped
<1>12. Knows(f) /\ f.present /\ f.acknowledged <= row.revision /\ row.revision <= f.current
  <2>1. CASE ~e.present
    BY <1>2, <1>11, <2>1, HydratedKnows
  <2>2. CASE e.present /\ Rev!Settled(e)
    BY <1>2, <1>11, <2>2, RehydratedKnows
  <2>3. CASE e.present /\ ~Rev!Settled(e)
    <3>1. f = e /\ row.revision = e.acknowledged
      BY <1>1, <1>11, <2>3 DEF Rev!HydrateAccepts
    <3> QED BY <1>2, <1>10, <2>3, <3>1 DEF Knows
  <2> QED BY <2>1, <2>2, <2>3
<1>13. Fits(f, row.values, row, saves)
  BY <1>2, <1>9, <1>12, FitsLoad
<1>14. OneCut(row, saves, moments) /\ fewer \in SUBSET saves
  BY <1>1, <1>4 DEF Sound
<1>15. Fits(f, row.values, row, fewer) /\ OneCut(row, fewer, moments) /\ row.values \in moments
  BY <1>13, <1>14, FitsFewer, CutFewer DEF OneCut
<1>16. released'[p] = <<>>
  BY <1>0 DEF ReleasedTyped
<1>17. live'[p].online /\ live'[p].values = row.values /\ db'[p] = row
  BY <1>0, <1>1, <1>7
<1>18. Sound(p)'
  BY <1>1, <1>4, <1>12, <1>15, <1>16, <1>17 DEF Sound
<1> QED BY <1>6, <1>18

-----------------------------------------------------------------------------
(***************************************************************************)
(* The other threads, the pulse, the waits and the end of the process.     *)
(***************************************************************************)
LEMMA QuietSound ==
  ASSUME Typed, Typed', FramesKept, \A q \in Pids : Sound(q), Saves' \subseteq Saves,
         UNCHANGED <<revision_states, live, db, released, history>>
  PROVE  \A q \in Pids : Sound(q)'
<1>1. \A q \in Pids : Moments(q)' = Moments(q) /\ SavesOf(q)' \subseteq SavesOf(q)
  BY DEF Moments, SavesOf
<1>2. ASSUME NEW q \in Pids PROVE Sound(q)'
  BY <1>1, Untouched
<1> QED BY <1>2

\* One of the saves is written, by the writer or by the replay.
LEMMA WrittenSound ==
  ASSUME Typed, Typed', FramesKept, \A q \in Pids : Sound(q), NEW s \in Saves,
         db' = Applied(s) \/ db' = db, Saves' \subseteq Saves,
         UNCHANGED <<revision_states, live, released, history>>
  PROVE  \A q \in Pids : Sound(q)'
<1>1. \A q \in Pids : Moments(q)' = Moments(q) /\ SavesOf(q)' \subseteq SavesOf(q)
  BY DEF Moments, SavesOf
<1>2. s \in Snapshot /\ s.owner \in Pids
  BY SavesTyped DEF Snapshot
<1>3. ASSUME NEW q \in Pids
      PROVE  db'[q] = db[q] \/ \E t \in Later(db[q], SavesOf(q)) : db'[q] = Overlaid(db[q], t)
  <2>1. CASE db' = db \/ ~Newer(s)
    BY <2>1 DEF Applied
  <2>2. CASE db' = Applied(s) /\ Newer(s) /\ q = s.owner
    <3>1. db'[q] = Overlaid(db[q], s)
      BY <1>2, <2>2 DEF Applied, Overlaid, Typed, StoreTyped
    <3>2. s \in Later(db[q], SavesOf(q))
      BY <2>2 DEF Newer, Later, SavesOf
    <3> QED BY <3>1, <3>2
  <2>3. CASE db' = Applied(s) /\ Newer(s) /\ q # s.owner
    BY <1>2, <2>3, AppliedRows DEF Typed, StoreTyped
  <2> QED BY <2>1, <2>2, <2>3
<1>4. ASSUME NEW q \in Pids PROVE Sound(q)'
  <2>1. Knows(revision_states'[q])
    BY DEF Sound
  <2>2. Acks(revision_states[q], revision_states'[q], db'[q].revision)
    BY DEF Acks
  <2> QED BY <1>1, <1>3, <2>1, <2>2, SoundStep
<1> QED BY <1>4

LEMMA CompletionsSound ==
  ASSUME Typed, Typed', Truthful, FramesKept, \A q \in Pids : Sound(q), ApplyCompletions,
         UNCHANGED <<pipeline, replay, journal, db, live, released, history>>
  PROVE  \A q \in Pids : Sound(q)'
<1>0. w_pending' = w_pending
  BY DEF ApplyCompletions, Writer!Consume
<1>1. Saves' \subseteq Saves
  BY <1>0, UnmovedSaves DEF replay
<1>2. \A q \in Pids : Moments(q)' = Moments(q) /\ SavesOf(q)' \subseteq SavesOf(q)
  BY <1>1 DEF Moments, SavesOf
<1>3. ASSUME NEW q \in Pids PROVE Sound(q)'
  <2>1. \/ Acks(revision_states[q], revision_states'[q], db[q].revision)
        \/ ~live[q].online /\ revision_states'[q] = Rev!Absent
    BY CompletionsKnown DEF Truthful
  <2>2. Knows(revision_states'[q])
    BY <2>1, AbsentKnows DEF Acks, Sound
  <2>3. live[q].online => Acks(revision_states[q], revision_states'[q], db'[q].revision)
    BY <2>1
  <2> QED BY <1>2, <2>2, <2>3, SoundStep
<1> QED BY <1>3

\* A terminal save that succeeded lets the character go.
LEMMA AwaitSucceedsSound ==
  ASSUME Typed, Typed', Truthful, FramesKept, Faithful, NEW leaves \in BOOLEAN, AwaitSucceeds(leaves)
  PROVE  \A q \in Pids : Sound(q)'
<1>0. game.wait.for = "fence"
  BY DEF AwaitSucceeds
<1>1. PICK p \in Pids : p = game.wait.pid
  BY <1>0, WaitsForFence DEF Typed
<1>2. /\ terminal_fences[p].revision = game.wait.revision
      /\ terminal_fences[p].acknowledged \/ terminal_fences[p].journaled
      /\ IF leaves THEN Leaves(p) ELSE UNCHANGED <<live, revision_states, released>>
      /\ UNCHANGED <<pipeline, replay, writer, journal, db, history>>
  BY <1>1 DEF AwaitSucceeds, Secured
<1>3. Saves' = Saves /\ \A q \in Pids : SavesOf(q)' = SavesOf(q) /\ FramesOf(q)' = FramesOf(q)
  BY <1>2 DEF Saves, SavesOf, FramesOf, Queued, pipeline, writer, replay
<1>4. CASE ~leaves
  BY <1>2, <1>3, <1>4, QuietSound DEF Faithful
<1>5. CASE leaves
  <2>1. /\ live' = [live EXCEPT ![p] = Offline]
        /\ \/ revision_states' = [revision_states EXCEPT ![p] = Rev!Absent]
           \/ revision_states' = [revision_states EXCEPT ![p] =
                                    [revision_states[p] EXCEPT !.session_ended = TRUE]]
        /\ released' = [released EXCEPT ![p] = live[p].values]
    BY <1>2, <1>5 DEF Leaves
  <2>2. \A q \in Pids : Moments(q)' = Moments(q)
    BY <1>2 DEF Moments
  <2>3. ASSUME NEW q \in Pids, q # p PROVE Sound(q)'
    <3>1. revision_states'[q] = revision_states[q] /\ live'[q] = live[q] /\ released'[q] = released[q]
      BY <2>1, <2>3 DEF Typed, TableTyped, LiveTyped, Faithful, ReleasedTyped
    <3> QED BY <1>2, <1>3, <2>2, <3>1, Untouched DEF Faithful
  <2>4. PICK e, v, row, saves, frames, f :
          /\ e = revision_states[p] /\ v = live[p].values /\ row = db[p] /\ saves = SavesOf(p)
          /\ frames = FramesOf(p) /\ f = revision_states'[p]
    OBVIOUS
  <2>5. /\ e \in Rev!Entry /\ v \in Values /\ row \in Rows /\ saves \in SUBSET Snapshot
        /\ frames \in SUBSET saves
    BY <2>4, PlayerTyped
  <2>6. /\ live[p].online /\ e.current = game.wait.revision
        /\ \A c \in Components : e.component_revisions[c] = e.current
    BY <1>0, <1>1, <2>4 DEF Faithful, FenceWaits
  <2>7. Knows(e) /\ Fits(e, v, row, saves)
    BY <2>4, <2>6 DEF Faithful, Sound
  <2>8. e.current <= row.revision \/ \E s \in frames : s.revision = e.current
    BY <1>2, <2>4, <2>6 DEF Truthful, FencesTrue, FenceTells, FramesOf
  <2>9. LetGo(v, row, saves, frames)
    BY <2>5, <2>6, <2>7, <2>8, LetGoLeaves
  <2>10. Knows(f)
    <3>1. CASE f = Rev!Absent
      BY <3>1, AbsentKnows
    <3>2. CASE f = [e EXCEPT !.session_ended = TRUE]
      <4>1. /\ f.unacknowledged = e.unacknowledged /\ f.component_revisions = e.component_revisions
            /\ f.acknowledged = e.acknowledged /\ f.current = e.current
        BY <2>5, <3>2 DEF Rev!Entry
      <4> QED BY <2>7, <4>1 DEF Knows
    <3>3. f = Rev!Absent \/ f = [e EXCEPT !.session_ended = TRUE]
      BY <2>1, <2>4 DEF Typed, TableTyped
    <3> QED BY <3>1, <3>2, <3>3
  <2>11. ~live'[p].online /\ released'[p] = v /\ db'[p] = row
    BY <1>2, <2>1, <2>4, OfflineTyped DEF Typed, LiveTyped, Faithful, ReleasedTyped
  <2>12. OneCut(row, saves, Moments(p))
    BY <2>4 DEF Faithful, Sound
  <2>13. Sound(p)'
    BY <1>3, <2>2, <2>4, <2>5, <2>9, <2>10, <2>11, <2>12 DEF Sound
  <2> QED BY <2>3, <2>13
<1> QED BY <1>4, <1>5

\* Everyone is offline, and what is left are the row and the journal.
LEMMA RestartedSound ==
  ASSUME Typed, Typed', FramesKept, \A q \in Pids : Sound(q), Restarted
  PROVE  \A q \in Pids : Sound(q)'
<1>1. Saves' \subseteq Saves
  BY RestartSaves
<1>2. UNCHANGED <<journal, db, history, released>>
  BY DEF Restarted
<1>3. ASSUME NEW q \in Pids PROVE Sound(q)'
  <2>1. PICK row, saves, frames, moments, fewer :
          /\ row = db[q] /\ saves = SavesOf(q) /\ frames = FramesOf(q) /\ moments = Moments(q)
          /\ fewer = SavesOf(q)'
    OBVIOUS
  <2>2. fewer \in SUBSET saves
    BY <1>1, <2>1 DEF SavesOf
  <2>3. Moments(q)' = moments /\ FramesOf(q)' = frames /\ db'[q] = row /\ released'[q] = released[q]
    BY <1>2, <2>1 DEF Moments, FramesOf
  <2>4. frames \in SUBSET fewer
    BY <2>1, <2>3 DEF FramesOf, SavesOf, Saves
  <2>5. ~live'[q].online /\ revision_states'[q] = Rev!Absent
    BY OfflineTyped DEF Restarted
  <2>6. OneCut(row, fewer, moments)
    BY <2>1, <2>2, CutFewer DEF Sound
  <2>7. released[q] # <<>> => released[q] \in Values /\ LetGo(released[q], row, fewer, frames)
    <3>1. Later(row, frames) \subseteq frames
      BY DEF Later
    <3> QED BY <2>1, <2>2, <2>4, <3>1, LetGoFewer DEF Sound
  <2> QED BY <2>1, <2>3, <2>5, <2>6, <2>7, AbsentKnows DEF Sound
<1> QED BY <1>3

\* What the operations of the game start to wait for
LEMMA FenceOpens ==
  ASSUME Typed, NEW p \in Pids, Sound(p), GameOperation(p), game'.wait.for = "fence"
  PROVE  /\ game'.wait.pid = p /\ live'[p].online
         /\ revision_states'[p].current = game'.wait.revision
         /\ \A c \in Components : revision_states'[p].component_revisions[c] = revision_states'[p].current
<1>1. game = Free
  BY DEF GameOperation, Change, Checkpoint, Terminal, TerminalDeath, SynchronousSave,
         AcquireTargetFence, ReleaseTargetFence, Login, Playing
<1>2. game' # game
  BY <1>1, FreeWaits
<1> DEFINE waits == game' = Await(p, TRUE) \/ game' = Await(p, FALSE)
           marked == \/ revision_states' = [revision_states EXCEPT ![p] = TerminalEntry(p)]
                     \/ revision_states' = [revision_states EXCEPT ![p] = Rev!Sealed(TerminalEntry(p))]
<1>3. waits /\ marked /\ live[p].online /\ Rev!MarkAccepts(p, Components) /\ live' = live
  <2>1. ASSUME NEW intent \in Intents, NEW capture, NEW fits, Terminal(p, intent, capture, fits)
        PROVE  waits /\ marked /\ live[p].online /\ Rev!MarkAccepts(p, Components) /\ live' = live
    BY <2>1 DEF Terminal, Playing, MayFence
  <2>2. ASSUME NEW captured, NEW fits, TerminalDeath(p, captured, fits)
        PROVE  waits /\ marked /\ live[p].online /\ Rev!MarkAccepts(p, Components) /\ live' = live
    BY <1>2, <2>2 DEF TerminalDeath, Playing, MayFence
  <2> QED BY <1>2, <2>1, <2>2 DEF GameOperation, Change, Checkpoint, SynchronousSave,
            AcquireTargetFence, ReleaseTargetFence, Login
<1>4. PICK e : e = TerminalEntry(p)
  OBVIOUS
<1>5. e \in Rev!Entry /\ Knows(e) /\ \A c \in Components : e.component_revisions[c] = e.current
  BY <1>3, <1>4, TerminalKnows
<1>6. PICK f : f = revision_states'[p]
  OBVIOUS
<1>7. f = e \/ f = Rev!Sealed(e)
  BY <1>3, <1>4, <1>6 DEF Typed, TableTyped
<1>8. f.current = e.current /\ f.component_revisions = e.component_revisions
  BY <1>5, <1>7, SealedKnows
<1>9. game'.wait.pid = p /\ game'.wait.revision = e.current
  <2>1. /\ Await(p, TRUE).wait.pid = p /\ Await(p, FALSE).wait.pid = p
        /\ Await(p, TRUE).wait.revision = TerminalEntry(p).current
        /\ Await(p, FALSE).wait.revision = TerminalEntry(p).current
    BY DEF Await, Free
  <2> QED BY <1>3, <1>4, <2>1
<1> QED BY <1>3, <1>5, <1>6, <1>8, <1>9

\* The other steps wait on, or for something else; meanwhile only acknowledgements arrive.
LEMMA FenceStays ==
  ASSUME Typed, Next, ~Restarted, \A p \in Pids : ~GameOperation(p), game'.wait.for = "fence"
  PROVE  /\ game'.wait = game.wait /\ live' = live
         /\ revision_states' = revision_states \/ ApplyCompletions
<1>0. game \in [step : {"idle", "submitting", "checking", "joining"}, left : 0 .. Budget, wait : Waits]
  BY DEF Typed, GameTyped
<1>1. CASE Dispatcher \/ WriterThread
  BY <1>1 DEF Dispatcher, WriterThread, DispatchTake, AppendOK, AppendFails, ReplayFrame, ReplayBlocked,
              ReplayEnds, WriterTake, WriterApplies, WriterFails, WriterFinishes
<1>2. CASE Pulse \/ PulseSubmit \/ PulseEnds \/ AwaitContinues \/ Resume
  BY <1>0, <1>2 DEF Pulse, PulseSubmit, PulseEnds, AwaitContinues, Resume
<1>3. ~AwaitTimesOut /\ ~DrainSucceeds /\ ~(\E leaves \in BOOLEAN : AwaitSucceeds(leaves))
  BY FreeWaits DEF AwaitTimesOut, DrainSucceeds, AwaitSucceeds
<1>4. ~Drain /\ ~Shutdown /\ ~Joined /\ ~WriterIdles
  <2>1. \A w, t : /\ [Free EXCEPT !.wait = w].wait = w
                  /\ [Free EXCEPT !.step = t, !.wait = w].wait = w
    BY DEF Free
  <2>2. Drain => game'.wait = [for |-> "drain"]
    BY <2>1 DEF Drain
  <2>3. Shutdown => game'.wait = [for |-> "join"]
    BY <2>1 DEF Shutdown
  <2>4. Joined => game'.wait = [for |-> "idle"]
    BY <2>1 DEF Joined
  <2>5. WriterIdles => game'.wait = [for |-> "stop"]
    BY <2>1 DEF WriterIdles
  <2> QED BY <2>2, <2>3, <2>4, <2>5
<1> QED BY <1>1, <1>2, <1>3, <1>4 DEF Next, GameLoop, Stopped, Crash

LEMMA FenceWaitsStep ==
  ASSUME Typed, Truthful, Faithful, Next
  PROVE  FenceWaits'
<1> SUFFICES ASSUME game'.wait.for = "fence"
             PROVE  /\ live'[game'.wait.pid].online
                    /\ revision_states'[game'.wait.pid].current = game'.wait.revision
                    /\ \A c \in Components : revision_states'[game'.wait.pid].component_revisions[c] =
                                              revision_states'[game'.wait.pid].current
  BY DEF FenceWaits
<1>1. ~Restarted
  BY FreeWaits DEF Restarted
<1>2. ASSUME NEW p \in Pids, GameOperation(p)
      PROVE  /\ game'.wait.pid = p /\ live'[p].online
             /\ revision_states'[p].current = game'.wait.revision
             /\ \A c \in Components : revision_states'[p].component_revisions[c] = revision_states'[p].current
  BY <1>2, FenceOpens DEF Faithful
<1>3. CASE \E p \in Pids : GameOperation(p)
  BY <1>2, <1>3
<1>4. CASE \A p \in Pids : ~GameOperation(p)
  <2>1. /\ game'.wait = game.wait /\ live' = live
        /\ revision_states' = revision_states \/ ApplyCompletions
    BY <1>1, <1>4, FenceStays
  <2>2. PICK p \in Pids : p = game.wait.pid
    BY <2>1, WaitsForFence DEF Typed
  <2>3. PICK e, f : e = revision_states[p] /\ f = revision_states'[p]
    OBVIOUS
  <2>4. /\ live[p].online /\ e.current = game.wait.revision
        /\ \A c \in Components : e.component_revisions[c] = e.current
    BY <2>1, <2>2, <2>3 DEF Faithful, FenceWaits
  <2>5. f.current = e.current /\ f.component_revisions = e.component_revisions
    <3>1. CASE revision_states' = revision_states
      BY <2>3, <3>1
    <3>2. CASE ApplyCompletions
      <4>1. Acks(e, f, db[p].revision)
        BY <2>3, <2>4, <3>2, CompletionsKnown DEF Truthful
      <4> QED BY <4>1 DEF Acks
    <3> QED BY <2>1, <3>1, <3>2
  <2> QED BY <2>1, <2>2, <2>3, <2>4, <2>5
<1> QED BY <1>3, <1>4

LEMMA ReleasedTypedStep ==
  ASSUME Typed, ReleasedTyped, Next
  PROVE  ReleasedTyped'
<1>1. ASSUME NEW p \in Pids, GameOperation(p) PROVE ReleasedTyped'
  <2>1. released' = released \/ released' = [released EXCEPT ![p] = <<>>]
    BY <1>1 DEF GameOperation, Change, Checkpoint, Terminal, TerminalDeath, SynchronousSave,
                AcquireTargetFence, ReleaseTargetFence, Login, ghosts
  <2> QED BY <2>1 DEF ReleasedTyped
<1>2. ASSUME NEW leaves \in BOOLEAN, AwaitSucceeds(leaves) PROVE ReleasedTyped'
  <2>1. PICK p \in Pids : p = game.wait.pid
    BY <1>2, WaitsForFence DEF Typed, AwaitSucceeds
  <2>2. released' = released \/ released' = [released EXCEPT ![p] = live[p].values]
    BY <1>2, <2>1 DEF AwaitSucceeds, Leaves
  <2>3. live[p].values \in Values
    BY PlayerTyped
  <2> QED BY <2>2, <2>3 DEF ReleasedTyped
<1>3. CASE /\ \A p \in Pids : ~GameOperation(p)
           /\ ~(\E leaves \in BOOLEAN : AwaitSucceeds(leaves))
  <2>1. released' = released
    BY <1>3 DEF Next, GameLoop, Dispatcher, WriterThread, Crash, Stopped, Restarted, Pulse, PulseSubmit,
         PulseEnds, AwaitContinues, AwaitTimesOut, Drain, DrainSucceeds, Resume, Shutdown, Joined,
         WriterIdles, DispatchTake, AppendOK, AppendFails, ReplayFrame, ReplayBlocked, ReplayEnds,
         WriterTake, WriterApplies, WriterFails, WriterFinishes, ghosts
  <2> QED BY <2>1 DEF ReleasedTyped
<1> QED BY <1>1, <1>2, <1>3

-----------------------------------------------------------------------------
LEMMA GameOperationSound ==
  ASSUME Typed, Typed', FramesKept, Faithful, NEW p \in Pids, GameOperation(p), LoadWaits
  PROVE  \A q \in Pids : Sound(q)'
<1>0. \A q \in Pids : Sound(q)
  BY DEF Faithful
<1>1. CASE AcquireTargetFence(p) \/ ReleaseTargetFence(p)
  <2>1. UNCHANGED <<revision_states, pipeline, replay, writer, journal, db, live, ghosts>>
    BY <1>1 DEF AcquireTargetFence, ReleaseTargetFence
  <2>2. Saves' \subseteq Saves
    BY <2>1, UnmovedSaves DEF writer, replay
  <2> QED BY <1>0, <2>1, <2>2, QuietSound DEF ghosts
<1>2. CASE Login(p)
  BY <1>0, <1>2, LoginSound DEF Faithful
<1>3. CASE \E comps \in SUBSET Components : Change(p, comps)
  BY <1>0, <1>3, ChangeSound
<1>4. CASE \E captured, fits \in BOOLEAN : Checkpoint(p, captured, fits)
  BY <1>0, <1>4, CheckpointSound
<1>5. CASE \E intent \in Intents, capture \in {"taken", "failed", "put off"}, fits \in BOOLEAN :
             Terminal(p, intent, capture, fits)
  BY <1>0, <1>5, TerminalSound
<1>6. CASE \E captured, fits \in BOOLEAN : TerminalDeath(p, captured, fits)
  BY <1>0, <1>6, TerminalDeathSound
<1>7. CASE \E commits, answered \in BOOLEAN : SynchronousSave(p, commits, answered)
  BY <1>0, <1>7, SynchronousSaveSound
<1> QED BY <1>1, <1>2, <1>3, <1>4, <1>5, <1>6, <1>7 DEF GameOperation

LEMMA GameLoopSound ==
  ASSUME Typed, Typed', Truthful, FramesKept, Faithful, GameLoop
  PROVE  \A q \in Pids : Sound(q)'
<1>0. \A q \in Pids : Sound(q)
  BY DEF Faithful
<1>1. CASE Pulse \/ DrainSucceeds
  BY <1>0, <1>1, CompletionsSound DEF Pulse, DrainSucceeds, ghosts
<1>2. CASE PulseSubmit
  BY <1>0, <1>2, SubmitSaves, QuietSound DEF PulseSubmit, ghosts
<1>3. CASE PulseEnds \/ AwaitContinues \/ AwaitTimesOut \/ Drain \/ Resume \/ Shutdown \/ Joined \/ WriterIdles
  <2>1. UNCHANGED <<revision_states, pipeline, replay, writer, journal, db, live, history, released>>
    BY <1>3 DEF PulseEnds, AwaitContinues, AwaitTimesOut, Drain, Resume, Shutdown, Joined, WriterIdles,
                ghosts
  <2>2. Saves' \subseteq Saves
    BY <2>1, UnmovedSaves DEF writer, replay
  <2> QED BY <1>0, <2>1, <2>2, QuietSound
<1>4. CASE \E leaves \in BOOLEAN : AwaitSucceeds(leaves)
  BY <1>4, AwaitSucceedsSound
<1>5. CASE Stopped
  BY <1>0, <1>5, RestartedSound DEF Stopped
<1> QED BY <1>1, <1>2, <1>3, <1>4, <1>5 DEF GameLoop

LEMMA ThreadsSound ==
  ASSUME Typed, Typed', FramesKept, Faithful, Dispatcher \/ WriterThread
  PROVE  \A q \in Pids : Sound(q)'
<1>0. \A q \in Pids : Sound(q)
  BY DEF Faithful
<1>1. CASE DispatchTake
  BY <1>0, <1>1, TakeSaves, QuietSound DEF DispatchTake, ghosts
<1>2. CASE AppendOK
  BY <1>0, <1>2, AppendOKSaves, QuietSound DEF AppendOK, ghosts
<1>3. ASSUME NEW left \in BOOLEAN, AppendFails(left) PROVE \A q \in Pids : Sound(q)'
  BY <1>0, <1>3, AppendFailsSaves, QuietSound DEF AppendFails
<1>4. ASSUME NEW s \in todo, ReplayFrame(s) PROVE \A q \in Pids : Sound(q)'
  <2>1. /\ db' = Applied(s) /\ UNCHANGED <<revision_states, pipeline, writer, live, ghosts>>
        /\ todo' \subseteq todo /\ journal' \subseteq journal
    BY <1>4 DEF ReplayFrame, Compacted
  <2>2. s \in Saves /\ Saves' \subseteq Saves
    BY <2>1, UnmovedSaves DEF Saves, writer
  <2> QED BY <1>0, <2>1, <2>2, WrittenSound DEF ghosts
<1>5. ASSUME NEW s \in todo, NEW effective \in BOOLEAN, ReplayBlocked(s, effective)
      PROVE  \A q \in Pids : Sound(q)'
  <2>1. /\ db' = Applied(s) \/ db' = db
        /\ UNCHANGED <<revision_states, pipeline, writer, live, ghosts>>
        /\ todo' \subseteq todo /\ journal' \subseteq journal
    BY <1>5 DEF ReplayBlocked
  <2>2. s \in Saves /\ Saves' \subseteq Saves
    BY <2>1, UnmovedSaves DEF Saves, writer
  <2> QED BY <1>0, <2>1, <2>2, WrittenSound DEF ghosts
<1>6. ASSUME NEW ended \in SUBSET Pids, ReplayEnds(ended) PROVE \A q \in Pids : Sound(q)'
  <2>1. /\ UNCHANGED <<revision_states, pipeline, writer, db, live, ghosts, todo>>
        /\ journal' \subseteq journal
    BY <1>6 DEF ReplayEnds
  <2>2. Saves' \subseteq Saves
    BY <2>1, UnmovedSaves DEF writer
  <2> QED BY <1>0, <2>1, <2>2, QuietSound DEF ghosts
<1>7. CASE WriterTake \/ WriterFails
  <2>1. UNCHANGED <<revision_states, pipeline, replay, w_pending, journal, db, live, history, released>>
    BY <1>7 DEF WriterTake, WriterFails, Writer!Take, ghosts
  <2>2. Saves' \subseteq Saves
    BY <2>1, UnmovedSaves DEF replay
  <2> QED BY <1>0, <2>1, <2>2, QuietSound
<1>8. ASSUME NEW answered \in BOOLEAN, WriterApplies(answered) PROVE \A q \in Pids : Sound(q)'
  <2>1. /\ w_taken /\ db' = Applied(Head(w_pending))
        /\ UNCHANGED <<revision_states, pipeline, replay, w_pending, journal, live, ghosts>>
    BY <1>8 DEF WriterApplies
  <2>2. Head(w_pending) = w_pending[1] /\ 1 \in 1 .. Len(w_pending)
    BY <2>1, Writing DEF Typed
  <2>3. Head(w_pending) \in Saves
    BY <2>2 DEF Saves, Queued
  <2>4. Saves' \subseteq Saves
    BY <2>1, UnmovedSaves DEF replay
  <2> QED BY <1>0, <2>1, <2>3, <2>4, WrittenSound DEF ghosts
<1>9. CASE WriterFinishes
  BY <1>0, <1>9, FinishSaves, QuietSound DEF WriterFinishes, ghosts
<1> QED BY <1>1, <1>2, <1>3, <1>4, <1>5, <1>6, <1>7, <1>8, <1>9 DEF Dispatcher, WriterThread

LEMMA FaithfulStep ==
  ASSUME Typed, Typed', Truthful, Faithful, [Next]_vars, [LoadWaits]_vars
  PROVE  Faithful'
<1>1. CASE UNCHANGED vars
  <2>1. UNCHANGED <<revision_states, pipeline, w_pending, todo, journal, db, live, game, history, released>>
    BY <1>1 DEF vars, replay, writer, ghosts
  <2>2. \A q \in Pids : SavesOf(q)' = SavesOf(q) /\ FramesOf(q)' = FramesOf(q) /\ Moments(q)' = Moments(q)
    BY <2>1 DEF pipeline, SavesOf, FramesOf, Saves, Queued, Moments
  <2>3. \A q \in Pids : Sound(q)'
    BY <2>1, <2>2 DEF Faithful, Sound
  <2> QED BY <2>1, <2>3 DEF Faithful, FenceWaits, ReleasedTyped
<1>2. CASE Next /\ LoadWaits
  <2>1. FramesKept
    BY <1>2, StoreSteps
  <2>2. \A q \in Pids : Sound(q)
    BY DEF Faithful
  <2>3. CASE Crash
    BY <2>1, <2>2, <2>3, RestartedSound, FenceWaitsStep, ReleasedTypedStep, <1>2 DEF Crash, Faithful
  <2>4. \A q \in Pids : Sound(q)'
    BY <1>2, <2>1, <2>3, GameOperationSound, GameLoopSound, ThreadsSound DEF Next, Faithful
  <2> QED BY <1>2, <2>4, FenceWaitsStep, ReleasedTypedStep DEF Faithful
<1> QED BY <1>1, <1>2

LEMMA FaithfulInit == Init => Faithful
<1> SUFFICES ASSUME Init PROVE Faithful
  OBVIOUS
<1>1. PICK a, b, c, d, none, zeros :
        /\ a = pending_append /\ b = durable_ready /\ c = append_inflight /\ d = w_pending
        /\ none = <<>> /\ zeros = [x \in Components |-> 0]
  OBVIOUS
<1>2. Len(a) = 0 /\ Len(b) = 0 /\ Len(c) = 0 /\ Len(d) = 0
  BY <1>1, EmptyTyped DEF Init
<1>3. Saves = {}
  BY <1>1, <1>2 DEF Init, Saves, Queued
<1>4. ReleasedTyped
  BY DEF Init, ReleasedTyped
<1>5. FenceWaits
  BY FreeWaits DEF Init, FenceWaits
<1>6. ASSUME NEW p \in Pids PROVE Sound(p)
  <2>1. SavesOf(p) = {}
    BY <1>3 DEF SavesOf
  <2>2. revision_states[p] = Rev!Absent /\ ~live[p].online
    BY OfflineTyped DEF Init, Rev!Init
  <2>3. released[p] = <<>>
    BY DEF Init
  <2>4. db[p].values \in Moments(p)
    BY DEF Init, Moments
  <2>5. OneCut(db[p], SavesOf(p), Moments(p))
    BY <2>1, <2>4 DEF OneCut, Later
  <2> QED BY <2>2, <2>3, <2>5, AbsentKnows DEF Sound
<1> QED BY <1>4, <1>5, <1>6 DEF Faithful

LEMMA AlwaysFaithful == Spec /\ LoadsWait => [](Typed /\ Truthful /\ Faithful)
<1>1. Init => Typed /\ Truthful /\ Faithful
  BY TypedInit, TruthfulInit, FaithfulInit
<1>2. Typed /\ Truthful /\ Faithful /\ [Next]_vars /\ [LoadWaits]_vars
        => (Typed /\ Truthful /\ Faithful)'
  BY TypedStep, TruthfulStep, FaithfulStep
<1> QED BY <1>1, <1>2, PTL DEF Spec, LoadsWait

LEMMA FaithfulIsDurable == Typed /\ Faithful => SavedIsDurable
<1> SUFFICES ASSUME Typed, Faithful, NEW p \in Pids, live[p].online,
                    NEW c \in Components \ revision_states[p].unacknowledged
             PROVE  db[p].values[c] = live[p].values[c]
  BY DEF SavedIsDurable
<1>1. Knows(revision_states[p]) /\ Fits(revision_states[p], live[p].values, db[p], SavesOf(p))
  BY DEF Faithful, Sound
<1> QED BY <1>1, PlayerTyped, FitsSaved

LEMMA FaithfulIsOneCut == Faithful => DatabaseIsOneCut
BY DEF Faithful, Sound, OneCut, DatabaseIsOneCut

\* The newer of two saves completes the row and the older one to the same moment.
LEMMA FaithfulMakesUp == Typed /\ Faithful => NewerMakesUp
<1> SUFFICES ASSUME Typed, Faithful, NEW i \in DOMAIN OnTheWay, NEW j \in DOMAIN OnTheWay,
                    OnTheWay[i].owner = OnTheWay[j].owner, Newer(OnTheWay[i]),
                    OnTheWay[i].revision < OnTheWay[j].revision,
                    NEW c \in OnTheWay[i].components \ OnTheWay[j].components
             PROVE  db[OnTheWay[i].owner].values[c] = OnTheWay[i].values[c]
  BY DEF NewerMakesUp
<1>1. PICK s, t : s = OnTheWay[i] /\ t = OnTheWay[j]
  OBVIOUS
<1>2. PICK p : p = s.owner
  OBVIOUS
<1>3. s \in Queued /\ t \in Queued
  BY <1>1, OnTheWayIsQueued DEF Range
<1>4. s \in Snapshot /\ t \in Snapshot /\ s \in SavesOf(p) /\ t \in SavesOf(p)
  BY <1>1, <1>2, <1>3, SavesTyped DEF Saves, SavesOf
<1>5. /\ p \in Pids /\ s.revision \in Nat /\ t.revision \in Nat
      /\ s.components \in SUBSET Components
  BY <1>2, <1>4, SaveNumbers DEF Snapshot
<1>6. db[p].revision \in Nat /\ OneCut(db[p], SavesOf(p), Moments(p))
  BY <1>5, PlayerTyped, SaveNumbers DEF Faithful, Sound
<1>7. s \in Later(db[p], SavesOf(p)) /\ t \in Later(db[p], SavesOf(p))
  BY <1>1, <1>2, <1>4, <1>5, <1>6 DEF Newer, Later
<1>8. PICK v \in Moments(p) : Completes(t, db[p], SavesOf(p), v)
  BY <1>6, <1>7 DEF OneCut
<1>9. c \in Components /\ c \in s.components /\ c \notin t.components /\ s.revision < t.revision
  BY <1>1, <1>5
<1>10. db[p].values[c] = v[c] /\ s.values[c] = v[c]
  BY <1>7, <1>8, <1>9 DEF Completes
<1> QED BY <1>1, <1>2, <1>10

LEMMA FaithfulIsRecoverable == Faithful => ReleasedIsRecoverable
<1> SUFFICES ASSUME Faithful, NEW p \in Pids, released[p] # <<>> PROVE Recoverable(p, released[p])
  BY DEF ReleasedIsRecoverable
<1>1. LetGo(released[p], db[p], SavesOf(p), FramesOf(p))
  BY DEF Faithful, Sound
<1> QED BY <1>1 DEF LetGo, Whole, FramesOf, Later, Recoverable, Newer

\* Only a login brings a character into the game, with what the row holds.
LEMMA WhoEnters ==
  ASSUME Typed, Next, NEW p \in Pids, ~live[p].online, live'[p].online
  PROVE  Login(p) /\ live'[p].values = db[p].values
<1>0. live \in [Pids -> Characters]
  BY DEF Typed, LiveTyped
<1>1. ASSUME NEW q \in Pids, GameOperation(q)
      PROVE  Login(p) /\ live'[p].values = db[p].values
  <2>1. CASE Login(q)
    <3>1. q = p
      BY <1>0, <2>1 DEF Login
    <3> QED BY <1>0, <2>1, <3>1 DEF Login
  <2>2. ASSUME NEW comps, Change(q, comps) PROVE FALSE
    BY <1>0, <2>2 DEF Change, Characters
  <2>3. CASE live' = live
    BY <2>3
  <2> QED BY <1>1, <2>1, <2>2, <2>3 DEF GameOperation, Checkpoint, Terminal, TerminalDeath,
            SynchronousSave, AcquireTargetFence, ReleaseTargetFence
<1>2. ASSUME NEW leaves \in BOOLEAN, AwaitSucceeds(leaves) PROVE FALSE
  <2>1. live' = live \/ \E q : live' = [live EXCEPT ![q] = Offline]
    BY <1>2 DEF AwaitSucceeds, Leaves
  <2> QED BY <1>0, <2>1, OfflineTyped
<1>3. ~Restarted
  BY OfflineTyped DEF Restarted
<1>4. CASE live' = live
  BY <1>4
<1> QED BY <1>1, <1>2, <1>3, <1>4 DEF Next, GameLoop, Dispatcher, WriterThread, Crash, Stopped, Pulse,
     PulseSubmit, PulseEnds, AwaitContinues, AwaitTimesOut, Drain, DrainSucceeds, Resume, Shutdown,
     Joined, WriterIdles, DispatchTake, AppendOK, AppendFails, ReplayFrame, ReplayBlocked, ReplayEnds,
     WriterTake, WriterApplies, WriterFails, WriterFinishes

(***************************************************************************)
(* What the revision table of player_revision_state.c counts as saved is   *)
(* in the database, if logins wait for the saves of their character: an    *)
(* acknowledgement out of turn, a capture replaced before it was           *)
(* journaled, a failed write or append, a lost answer or a crash never     *)
(* make the table forget a change that the row does not have.              *)
(***************************************************************************)
THEOREM SavedStaysDurable == Spec /\ LoadsWait => []SavedIsDurable
BY AlwaysFaithful, FaithfulIsDurable, PTL

(***************************************************************************)
(* The row that player_snapshot_repository.c writes is always the whole    *)
(* character of one moment, if logins wait, although captures carry only   *)
(* what is unacknowledged, may be applied twice, out of order and by the   *)
(* replay of a journal that was partly applied, and synchronous saves come *)
(* between.                                                                *)
(***************************************************************************)
THEOREM RowsAreOneCut == Spec /\ LoadsWait => []DatabaseIsOneCut
BY AlwaysFaithful, FaithfulIsOneCut, PTL

(***************************************************************************)
(* A capture that a newer one overtakes, after a failed append of          *)
(* dispatcher_main or by coalescing in enqueue_snapshot, and that the      *)
(* database then refuses, loses nothing, if logins wait: what the newer    *)
(* one does not carry is in the row already.                               *)
(***************************************************************************)
THEOREM OvertakenIsMadeUpFor == Spec /\ LoadsWait => []NewerMakesUp
BY AlwaysFaithful, FaithfulMakesUp, PTL

(***************************************************************************)
(* A character that await_terminal_fence let go is in the row, or whole in *)
(* a journal frame that the replay still applies, if logins wait: neither  *)
(* the writer's checkpoints nor those of the replay drop the frame before  *)
(* the row has it.                                                         *)
(***************************************************************************)
THEOREM ReleasedStaysRecoverable == Spec /\ LoadsWait => []ReleasedIsRecoverable
BY AlwaysFaithful, FaithfulIsRecoverable, PTL

(***************************************************************************)
(* The wait that player_save_pipeline.h promises for a load, kept also for *)
(* saves that only the journal has, is enough for a login to get the       *)
(* character that its last terminal save let go.                           *)
(***************************************************************************)
THEOREM WaitingLoginSeesReleased == Spec /\ LoadsWait => LoginSeesReleased
<1>1. ASSUME Typed, Faithful, Next, LoadWaits, NEW p \in Pids, released[p] # <<>>, live'[p].online
      PROVE  live'[p].values = released[p]
  <2>1. ~live[p].online /\ LetGo(released[p], db[p], SavesOf(p), FramesOf(p))
    BY <1>1 DEF Faithful, Sound
  <2>2. Later(db[p], SavesOf(p)) = {}
    BY <1>1, <2>1, NothingUnwritten DEF LoadWaits
  <2>3. db[p].values = released[p]
    BY <2>1, <2>2 DEF LetGo
  <2> QED BY <1>1, <2>1, <2>3, WhoEnters
<1>2. Typed /\ Truthful /\ Faithful /\ [Next]_vars /\ [LoadWaits]_vars =>
        [\A p \in Pids : released[p] # <<>> /\ live'[p].online => live'[p].values = released[p]]_vars
  BY <1>1
<1> QED BY <1>2, AlwaysFaithful, PTL DEF Spec, LoadsWait, LoginSeesReleased

-----------------------------------------------------------------------------
(***************************************************************************)
(* Where no character leaves on a journal record and the process does not  *)
(* restart, every save of a character is in the row by the time it leaves, *)
(* so that logins wait without being made to.                              *)
(***************************************************************************)
Prompt ==
  /\ \A p \in Pids : ~live[p].online => Later(db[p], SavesOf(p)) = {}
  /\ game.wait.for = "fence" => ~game.wait.handoff
  /\ ~Stopping /\ game.step # "joining" /\ crashes \in Nat /\ stops \in Nat

NoRestarts == "linkdead" \notin Intents /\ MaxCrashes = 0 /\ MaxStops = 0

\* Only characters in the game are captured.
LEMMA WhoSaves ==
  ASSUME Typed, Next, NEW s \in Saves', s \notin Saves
  PROVE  s.owner \in Pids /\ live[s.owner].online
<1>1. ASSUME NEW p \in Pids, NEW e \in Rev!Entry, NEW death \in BOOLEAN, NEW fits, live[p].online,
             \/ pending_append' = pending_append
             \/ pending_append' = Enqueued(Capture(p, e, death), fits),
             UNCHANGED <<durable_ready, append_inflight, writer, replay, journal>>
      PROVE  s.owner \in Pids /\ live[s.owner].online
  <2>1. PICK t : t = Capture(p, e, death)
    OBVIOUS
  <2>2. t \in Snapshot /\ t.owner = p
    BY <2>1, CaptureTyped DEF Typed
  <2>3. Saves' \subseteq Saves \cup {t}
    <3>1. UNCHANGED <<durable_ready, append_inflight, writer, todo, journal>>
      BY <1>1 DEF replay
    <3> QED BY <1>1, <2>1, <2>2, <3>1, AdmissionSaves
  <2> QED BY <1>1, <2>2, <2>3
<1>2. ASSUME NEW p \in Pids, GameOperation(p) PROVE s.owner \in Pids /\ live[s.owner].online
  <2>1. CASE \E captured, fits \in BOOLEAN : Checkpoint(p, captured, fits)
    <3>1. PICK captured, fits \in BOOLEAN : Checkpoint(p, captured, fits)
      BY <2>1
    <3>2. Rev!Sealed(revision_states[p]) \in Rev!Entry
      BY PlayerTyped, SealedEntry
    <3> QED BY <1>1, <3>1, <3>2 DEF Checkpoint, Playing
  <2>2. CASE \E intent \in Intents, capture \in {"taken", "failed", "put off"}, fits \in BOOLEAN :
               Terminal(p, intent, capture, fits)
    <3>1. PICK intent, capture, fits : Terminal(p, intent, capture, fits)
      BY <2>2
    <3>2. Rev!Sealed(TerminalEntry(p)) \in Rev!Entry
      BY <3>1, TerminalTyped DEF Terminal, MayFence
    <3> QED BY <1>1, <3>1, <3>2 DEF Terminal, Playing
  <2>3. CASE \E captured, fits \in BOOLEAN : TerminalDeath(p, captured, fits)
    <3>1. PICK captured, fits \in BOOLEAN : TerminalDeath(p, captured, fits)
      BY <2>3
    <3>2. Rev!Sealed(TerminalEntry(p)) \in Rev!Entry
      BY <3>1, TerminalTyped DEF TerminalDeath, MayFence
    <3> QED BY <1>1, <3>1, <3>2 DEF TerminalDeath, Playing
  <2>4. CASE UNCHANGED <<pipeline, writer, replay, journal>>
    BY <2>4, UnmovedSaves DEF writer, replay
  <2> QED BY <1>2, <2>1, <2>2, <2>3, <2>4 DEF GameOperation, Change, SynchronousSave,
            AcquireTargetFence, ReleaseTargetFence, Login
<1>3. CASE GameLoop
  <2>1. CASE Pulse \/ DrainSucceeds
    BY <2>1, UnmovedSaves DEF Pulse, DrainSucceeds, ApplyCompletions, Writer!Consume, replay
  <2>2. CASE UNCHANGED <<pipeline, writer, replay, journal>>
    BY <2>2, UnmovedSaves DEF writer, replay
  <2>3. CASE Stopped
    BY <2>3, RestartSaves DEF Stopped
  <2> QED BY <1>3, <2>1, <2>2, <2>3, SubmitSaves DEF GameLoop, PulseEnds, AwaitSucceeds, AwaitContinues,
            AwaitTimesOut, Drain, Resume, Shutdown, Joined, WriterIdles
<1>4. CASE Dispatcher
  <2>1. ASSUME NEW t \in todo, ReplayFrame(t) PROVE FALSE
    BY <2>1, UnmovedSaves DEF ReplayFrame, Compacted, writer
  <2>2. ASSUME NEW t \in todo, NEW effective, ReplayBlocked(t, effective) PROVE FALSE
    BY <2>2, UnmovedSaves DEF ReplayBlocked, writer
  <2>3. ASSUME NEW ended, ReplayEnds(ended) PROVE FALSE
    BY <2>3, UnmovedSaves DEF ReplayEnds, writer
  <2> QED BY <1>4, <2>1, <2>2, <2>3, TakeSaves, AppendOKSaves, AppendFailsSaves DEF Dispatcher
<1>5. CASE WriterThread
  <2>1. CASE WriterTake \/ WriterFails \/ \E answered \in BOOLEAN : WriterApplies(answered)
    BY <2>1, UnmovedSaves DEF WriterTake, WriterFails, WriterApplies, Writer!Take, replay
  <2> QED BY <1>5, <2>1, FinishSaves DEF WriterThread
<1>6. CASE Crash
  BY <1>6, RestartSaves DEF Crash
<1> QED BY <1>2, <1>3, <1>4, <1>5, <1>6 DEF Next

\* Who leaves the game, but for a restart, leaves it on a fence that is secured.
LEMMA WhoLeaves ==
  ASSUME Typed, Next, ~Crash, ~Stopped, NEW p \in Pids, live[p].online, ~live'[p].online
  PROVE  /\ game.wait.for = "fence" /\ p = game.wait.pid
         /\ terminal_fences[p].revision = game.wait.revision
         /\ Secured(terminal_fences[p], game.wait.handoff)
         /\ UNCHANGED <<pipeline, replay, writer, journal, db>>
<1>0. live \in [Pids -> Characters]
  BY DEF Typed, LiveTyped
<1>1. ASSUME NEW q \in Pids, GameOperation(q) PROVE FALSE
  <2>1. ~Login(q)
    BY <1>0 DEF Login
  <2>2. ASSUME NEW comps, Change(q, comps) PROVE FALSE
    BY <1>0, <2>2 DEF Change, Characters
  <2> QED BY <1>1, <2>1, <2>2 DEF GameOperation, Checkpoint, Terminal, TerminalDeath,
            SynchronousSave, AcquireTargetFence, ReleaseTargetFence
<1>2. PICK leaves \in BOOLEAN : AwaitSucceeds(leaves)
  BY <1>1 DEF Next, GameLoop, Dispatcher, WriterThread, Pulse, PulseSubmit, PulseEnds,
     AwaitContinues, AwaitTimesOut, Drain, DrainSucceeds, Resume, Shutdown, Joined, WriterIdles,
     DispatchTake, AppendOK, AppendFails, ReplayFrame, ReplayBlocked, ReplayEnds,
     WriterTake, WriterApplies, WriterFails, WriterFinishes
<1>3. p = game.wait.pid
  BY <1>0, <1>2 DEF AwaitSucceeds, Leaves
<1> QED BY <1>2, <1>3 DEF AwaitSucceeds

\* Without a stop the game thread waits for fences and drains only.
LEMMA NoStopStep ==
  ASSUME Typed, Prompt, Next, ~Crash, ~Stopped, ~Shutdown
  PROVE  ~Stopping' /\ game'.step # "joining"
<1>0. game \in [step : {"idle", "submitting", "checking", "joining"}, left : 0 .. Budget, wait : Waits]
  BY DEF Typed, GameTyped
<1>1. ~Joined /\ ~WriterIdles
  BY DEF Joined, WriterIdles, Prompt, Stopping, Stops
<1>2. ASSUME NEW p \in Pids, GameOperation(p) PROVE ~Stopping' /\ game'.step # "joining"
  <2>1. game' = game \/ game' = Await(p, TRUE) \/ game' = Await(p, FALSE)
    BY <1>2 DEF GameOperation, Change, Checkpoint, Terminal, TerminalDeath, SynchronousSave,
                AcquireTargetFence, ReleaseTargetFence, Login
  <2>2. /\ Await(p, TRUE).wait.for = "fence" /\ Await(p, FALSE).wait.for = "fence"
        /\ Await(p, TRUE).step = "idle" /\ Await(p, FALSE).step = "idle"
    BY DEF Await, Free
  <2> QED BY <2>1, <2>2 DEF Prompt, Stopping, Stops
<1>3. CASE Dispatcher \/ WriterThread
  <2>1. game' = game
    BY <1>3 DEF Dispatcher, WriterThread, DispatchTake, AppendOK, AppendFails, ReplayFrame, ReplayBlocked,
              ReplayEnds, WriterTake, WriterApplies, WriterFails, WriterFinishes
  <2> QED BY <2>1 DEF Prompt, Stopping
<1>4. CASE Pulse \/ PulseSubmit \/ PulseEnds \/ AwaitContinues \/ Resume
  <2>1. game'.wait = game.wait /\ (game'.step = game.step \/ game'.step \in {"idle", "submitting", "checking"})
    BY <1>0, <1>4 DEF Pulse, PulseSubmit, PulseEnds, AwaitContinues, Resume
  <2> QED BY <2>1 DEF Prompt, Stopping
<1>5. CASE AwaitTimesOut \/ DrainSucceeds \/ \E leaves \in BOOLEAN : AwaitSucceeds(leaves)
  <2>1. game' = Free
    BY <1>5 DEF AwaitTimesOut, DrainSucceeds, AwaitSucceeds
  <2> QED BY <2>1, FreeWaits DEF Stopping, Stops
<1>6. CASE Drain
  <2>1. game'.wait.for = "drain" /\ game'.step = "idle"
    BY <1>6 DEF Drain, Free
  <2> QED BY <2>1 DEF Stopping, Stops
<1> QED BY <1>1, <1>2, <1>3, <1>4, <1>5, <1>6 DEF Next, GameLoop

LEMMA NoHandoffStep ==
  ASSUME Typed, Prompt, "linkdead" \notin Intents, Next, game'.wait.for = "fence"
  PROVE  ~game'.wait.handoff
<1>1. ~Restarted
  BY FreeWaits DEF Restarted
<1>2. ASSUME NEW p \in Pids, GameOperation(p) PROVE ~game'.wait.handoff
  <2>1. game' = game \/ game' = Await(p, FALSE)
    <3>1. ASSUME NEW intent \in Intents, NEW capture, NEW fits, Terminal(p, intent, capture, fits)
          PROVE  game' = Await(p, FALSE)
      <4>1. (intent = "linkdead") = FALSE
        OBVIOUS
      <4> QED BY <3>1, <4>1 DEF Terminal
    <3> QED BY <1>2, <3>1 DEF GameOperation, Change, Checkpoint, TerminalDeath, SynchronousSave,
              AcquireTargetFence, ReleaseTargetFence, Login
  <2>2. Await(p, FALSE).wait.handoff = FALSE
    BY DEF Await, Free
  <2> QED BY <2>1, <2>2 DEF Prompt
<1>3. CASE \A p \in Pids : ~GameOperation(p)
  BY <1>1, <1>3, FenceStays DEF Prompt
<1> QED BY <1>2, <1>3

\* Saves of a character that is away are not taken, and rows do not go back.
LEMMA AwayStep ==
  ASSUME Typed, Typed', RowsGrow, Next, NEW p \in Pids, ~live[p].online,
         Later(db[p], SavesOf(p)) = {}
  PROVE  Later(db[p], SavesOf(p))' = {}
<1>1. SavesOf(p)' \subseteq SavesOf(p)
  BY WhoSaves DEF SavesOf
<1>2. db[p].revision \in Nat /\ db'[p].revision \in Nat /\ db[p].revision <= db'[p].revision
  <2>1. db' \in [Pids -> Rows] /\ db \in [Pids -> Rows]
    BY DEF Typed, StoreTyped
  <2> QED BY <2>1, SaveNumbers DEF RowsGrow
<1>3. \A s \in SavesOf(p) : s.revision \in Nat
  BY SavesTyped, SaveNumbers
<1> QED BY <1>1, <1>2, <1>3 DEF Later

LEMMA PromptStep ==
  ASSUME Typed, Typed', Truthful, Faithful, Prompt, NoRestarts, [Next]_vars
  PROVE  Prompt'
<1>0. CASE UNCHANGED vars
  <2>1. UNCHANGED <<pipeline, w_pending, todo, journal, db, live, game, crashes, stops>>
    BY <1>0 DEF vars, replay, writer, ghosts
  <2>2. \A q \in Pids : SavesOf(q)' = SavesOf(q)
    BY <2>1 DEF pipeline, SavesOf, Saves, Queued
  <2> QED BY <2>1, <2>2 DEF Prompt, Later, Stopping
<1>1. CASE Next
  <2>1. ~Crash /\ ~Stopped /\ ~Shutdown
    BY DEF Crash, Stopped, Shutdown, Prompt, NoRestarts, Stopping, Stops
  <2>2. RowsGrow
    BY <1>1, StoreSteps
  <2>3. ASSUME NEW p \in Pids, ~live'[p].online PROVE Later(db[p], SavesOf(p))' = {}
    <3>1. CASE ~live[p].online
      BY <1>1, <2>2, <3>1, AwayStep DEF Prompt
    <3>2. CASE live[p].online
      <4>1. /\ game.wait.for = "fence" /\ p = game.wait.pid
            /\ terminal_fences[p].revision = game.wait.revision
            /\ Secured(terminal_fences[p], game.wait.handoff)
            /\ UNCHANGED <<pipeline, replay, writer, journal, db>>
        BY <1>1, <2>1, <2>3, <3>2, WhoLeaves
      <4>2. terminal_fences[p].revision <= db[p].revision
        BY <4>1 DEF Secured, Prompt, Truthful, FencesTrue, FenceTells
      <4>3. revision_states[p].current = game.wait.revision
        BY <4>1 DEF Faithful, FenceWaits
      <4>4. Knows(revision_states[p]) /\ Fits(revision_states[p], live[p].values, db[p], SavesOf(p))
        BY <3>2 DEF Faithful, Sound
      <4>5. Later(db[p], SavesOf(p)) = {}
        BY <4>1, <4>2, <4>3, <4>4, PlayerTyped, FitsCurrent
      <4>6. SavesOf(p)' = SavesOf(p)
        BY <4>1 DEF pipeline, writer, replay, SavesOf, Saves, Queued
      <4> QED BY <4>1, <4>5, <4>6 DEF Later
    <3> QED BY <3>1, <3>2
  <2>4. game'.wait.for = "fence" => ~game'.wait.handoff
    BY <1>1, NoHandoffStep DEF NoRestarts
  <2>5. crashes' \in Nat /\ stops' \in Nat
    <3>1. crashes' = crashes /\ stops' = stops
      BY <1>1, <2>1, ZenonT(60) DEF Next, GameOperation, GameLoop, Dispatcher, WriterThread, Change, Checkpoint,
           Terminal, TerminalDeath, SynchronousSave, AcquireTargetFence, ReleaseTargetFence, Login, Pulse,
           PulseSubmit, PulseEnds, AwaitSucceeds, AwaitContinues, AwaitTimesOut, Drain, DrainSucceeds,
           Resume, Joined, WriterIdles, DispatchTake, AppendOK, AppendFails, ReplayFrame,
           ReplayBlocked, ReplayEnds, WriterTake, WriterApplies, WriterFails, WriterFinishes, ghosts
    <3> QED BY <3>1 DEF Prompt
  <2> QED BY <1>1, <2>1, <2>3, <2>4, <2>5, NoStopStep DEF Prompt
<1> QED BY <1>0, <1>1

LEMMA PromptWaits ==
  ASSUME Typed, Prompt
  PROVE  LoadWaits
BY NothingUnwritten DEF Prompt, LoadWaits

LEMMA NothingSaved == Init => Saves = {}
<1> SUFFICES ASSUME Init PROVE Saves = {}
  OBVIOUS
<1>1. PICK a, b, c, d : /\ a = pending_append /\ b = durable_ready /\ c = append_inflight /\ d = w_pending
  OBVIOUS
<1>2. Len(a) = 0 /\ Len(b) = 0 /\ Len(c) = 0 /\ Len(d) = 0
  BY <1>1, EmptyTyped DEF Init
<1> QED BY <1>1, <1>2 DEF Init, Saves, Queued

LEMMA PromptInit == Init => Prompt
<1> SUFFICES ASSUME Init PROVE Prompt
  OBVIOUS
<1>1. \A p \in Pids : Later(db[p], SavesOf(p)) = {}
  BY NothingSaved DEF SavesOf, Later
<1> QED BY <1>1, FreeWaits DEF Init, Prompt, Stopping, Stops

LEMMA AlwaysPrompt ==
  ASSUME NoRestarts
  PROVE  Spec => [](Typed /\ Truthful /\ Faithful /\ Prompt)
<1>1. Init => Typed /\ Truthful /\ Faithful /\ Prompt
  BY TypedInit, TruthfulInit, FaithfulInit, PromptInit
<1>2. Typed /\ Truthful /\ Faithful /\ Prompt /\ [Next]_vars
        => (Typed /\ Truthful /\ Faithful /\ Prompt)'
  BY TypedStep, TruthfulStep, PromptWaits, FaithfulStep, PromptStep
<1> QED BY <1>1, <1>2, PTL DEF Spec

(***************************************************************************)
(* Where characters leave only on fences that the database acknowledged    *)
(* and the process neither crashes nor stops, a login waits by itself: all *)
(* saves of an absent character are written.                               *)
(***************************************************************************)
THEOREM LoadsWaitWithoutRestarts ==
  "linkdead" \notin Intents /\ MaxCrashes = 0 /\ MaxStops = 0 => (Spec => LoadsWait)
<1> SUFFICES ASSUME NoRestarts PROVE Spec => LoadsWait
  BY DEF NoRestarts
<1>1. Typed /\ Truthful /\ Faithful /\ Prompt => [LoadWaits]_vars
  BY PromptWaits
<1> QED BY <1>1, AlwaysPrompt, PTL DEF LoadsWait

(***************************************************************************)
(* Where characters camp or die and do not leave on a journal record, and  *)
(* the server keeps running, the table, the row and what was let go agree  *)
(* without any hypothesis on loads, through failed appends and writes,     *)
(* synchronous saves, drains and any number of logins.                     *)
(***************************************************************************)
THEOREM SoundWithoutRestarts ==
  "linkdead" \notin Intents /\ MaxCrashes = 0 /\ MaxStops = 0 =>
    (Spec => /\ [](SavedIsDurable /\ DatabaseIsOneCut /\ NewerMakesUp /\ ReleasedIsRecoverable)
             /\ LoginSeesReleased)
<1> SUFFICES ASSUME "linkdead" \notin Intents /\ MaxCrashes = 0 /\ MaxStops = 0
             PROVE  Spec => /\ [](SavedIsDurable /\ DatabaseIsOneCut /\ NewerMakesUp /\ ReleasedIsRecoverable)
                            /\ LoginSeesReleased
  OBVIOUS
<1>1. Spec => LoadsWait
  BY LoadsWaitWithoutRestarts
<1> QED BY <1>1, SavedStaysDurable, RowsAreOneCut, OvertakenIsMadeUpFor, ReleasedStaysRecoverable,
          WaitingLoginSeesReleased, PTL
=============================================================================
