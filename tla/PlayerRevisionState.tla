------------------------- MODULE PlayerRevisionState -------------------------
(***************************************************************************)
(* Per-player save revisions, player/player_revision_state.c: which        *)
(* components of a character changed since the last durable save, and      *)
(* which revision each change belongs to.  The table is touched by the     *)
(* game thread only, so every function is one atomic action.               *)
(*                                                                         *)
(* Component masks are sets of components.  The uint64_t revision is       *)
(* bounded by MaxRevision, which stands for its numeric limit.             *)
(***************************************************************************)
EXTENDS Integers, FiniteSets

CONSTANTS
  Pids,         \* player ids
  Components,   \* the checkpoint components (bits of PLAYER_CHECKPOINT_COMPONENT_ALL)
  MaxRevision,  \* numeric_limits<player_revision_t>::max()
  MaxStates     \* MAX_PLAYER_REVISION_STATES

ASSUME RevisionAssumption ==
  /\ MaxRevision \in Nat
  /\ MaxStates \in Nat

VARIABLE revision_states  \* pid -> player_revision_entry

Revisions == 0 .. MaxRevision

(***************************************************************************)
(* struct player_revision_entry; present says that the map holds the pid.  *)
(***************************************************************************)
Entry ==
  [ present : BOOLEAN,
    current : Revisions, acknowledged : Revisions,
    queued_revision : Revisions, inflight_revision : Revisions,
    dirty : SUBSET Components, unacknowledged : SUBSET Components,
    queued : SUBSET Components, inflight : SUBSET Components,
    component_revisions : [Components -> Revisions],
    overflowed : BOOLEAN, session_ended : BOOLEAN ]

\* A new entry whose every component is durable at revision d.
Hydrated(d) ==
  [ present |-> TRUE, current |-> d, acknowledged |-> d,
    queued_revision |-> 0, inflight_revision |-> 0,
    dirty |-> {}, unacknowledged |-> {}, queued |-> {}, inflight |-> {},
    component_revisions |-> [c \in Components |-> d],
    overflowed |-> FALSE, session_ended |-> FALSE ]

Absent == [Hydrated(0) EXCEPT !.present = FALSE]

Present == {p \in Pids : revision_states[p].present}

\* valid_components
Valid(comps) == comps # {} /\ comps \subseteq Components

Init == revision_states = [p \in Pids |-> Absent]

Update(p, f) == revision_states' = [revision_states EXCEPT ![p] = f]

-----------------------------------------------------------------------------
(***************************************************************************)
(* player_revision_hydrate.  A load publishes durable revision d; an entry *)
(* with unsettled saves is left alone and only compared.                   *)
(***************************************************************************)
Settled(e) == e.unacknowledged \cup e.queued \cup e.inflight = {}

FaultHydrateAccepts(p, d) ==
  revision_states[p].present \/ Cardinality(Present) < MaxStates

HydrateAccepts(p, d) ==
  LET e == revision_states[p]
  IN  IF e.present
      THEN IF Settled(e) THEN d >= e.acknowledged ELSE d = e.acknowledged
      ELSE Cardinality(Present) < MaxStates

Rehydrated(e, d) ==
  [e EXCEPT !.current = d, !.acknowledged = d,
            !.component_revisions = [c \in Components |-> d],
            !.session_ended = FALSE]

Hydrate(p, d) ==
  LET e == revision_states[p]
  IN  /\ HydrateAccepts(p, d)
      /\ Update(p, IF ~e.present THEN Hydrated(d)
                   ELSE IF Settled(e) THEN Rehydrated(e, d) ELSE e)

-----------------------------------------------------------------------------
(***************************************************************************)
(* player_revision_mark.  At the numeric limit the entry latches           *)
(* overflowed and refuses from then on.                                    *)
(***************************************************************************)
MarkAccepts(p, comps) ==
  LET e == revision_states[p]
  IN  e.present /\ Valid(comps) /\ ~e.overflowed /\ e.current < MaxRevision

Marked(e, comps) ==
  [e EXCEPT !.current = @ + 1,
            !.dirty = @ \cup comps,
            !.unacknowledged = @ \cup comps,
            !.component_revisions =
              [c \in Components |-> IF c \in comps THEN e.current + 1 ELSE @[c]]]

Mark(p, comps) ==
  /\ MarkAccepts(p, comps)
  /\ Update(p, Marked(revision_states[p], comps))

MarkOverflow(p) ==
  LET e == revision_states[p]
  IN  /\ e.present /\ ~e.overflowed /\ e.current = MaxRevision
      /\ Update(p, [e EXCEPT !.overflowed = TRUE])

(***************************************************************************)
(* player_revision_queue: seal everything unacknowledged at the current    *)
(* revision.                                                               *)
(***************************************************************************)
QueueAccepts(p) == revision_states[p].present /\ revision_states[p].unacknowledged # {}

Sealed(e) ==
  [e EXCEPT !.queued_revision = e.current, !.queued = e.unacknowledged, !.dirty = {}]

Queue(p) ==
  /\ QueueAccepts(p)
  /\ Update(p, Sealed(revision_states[p]))

-----------------------------------------------------------------------------
(***************************************************************************)
(* The components settled by a durable save of comps at revision.          *)
(* clear_acknowledged_components: a component marked after the save was    *)
(* sealed stays.                                                           *)
(***************************************************************************)
FaultCovered(e, revision, comps) == comps

Covered(e, revision, comps) ==
  {c \in comps : e.component_revisions[c] <= revision}

Later(r, s) == IF r >= s THEN r ELSE s

\* player_revision_acknowledge_durable
AcknowledgeDurableAccepts(e, revision, comps) ==
  e.present /\ Valid(comps) /\ e.acknowledged <= revision /\ revision <= e.current

DurablyAcknowledged(e, revision, comps) ==
  LET covered == Covered(e, revision, comps)
      queued == e.queued \ covered
      inflight == e.inflight \ (covered \cap e.unacknowledged)
  IN  [e EXCEPT !.unacknowledged = @ \ covered, !.dirty = @ \ covered,
                !.queued = queued, !.inflight = inflight,
                !.queued_revision = IF queued = {} THEN 0 ELSE @,
                !.inflight_revision = IF inflight = {} THEN 0 ELSE @,
                !.acknowledged = Later(@, revision)]

AcknowledgeDurable(p, revision, comps) ==
  /\ AcknowledgeDurableAccepts(revision_states[p], revision, comps)
  /\ Update(p, DurablyAcknowledged(revision_states[p], revision, comps))

(***************************************************************************)
(* player_revision_begin_inflight, _acknowledge and _fail_inflight: one    *)
(* save at a time handed to a writer.                                      *)
(***************************************************************************)
Begun(e) ==
  [e EXCEPT !.inflight_revision = e.queued_revision, !.inflight = e.queued,
            !.queued_revision = 0, !.queued = {}]

BeginInflight(p, revision, comps) ==
  LET e == revision_states[p]
  IN  /\ e.present /\ e.inflight = {} /\ Valid(comps)
      /\ revision = e.queued_revision /\ comps = e.queued
      /\ Update(p, Begun(e))

NamesInflight(e, revision, comps) ==
  e.present /\ Valid(comps) /\ revision = e.inflight_revision /\ comps = e.inflight

Acknowledged(e) ==
  LET covered == Covered(e, e.inflight_revision, e.inflight)
  IN  [e EXCEPT !.unacknowledged = @ \ covered, !.dirty = @ \ covered,
                !.queued = @ \ covered,
                !.acknowledged = Later(@, e.inflight_revision),
                !.inflight_revision = 0, !.inflight = {}]

Acknowledge(p, revision, comps) ==
  /\ NamesInflight(revision_states[p], revision, comps)
  /\ Update(p, Acknowledged(revision_states[p]))

FaultFailed(e) == [e EXCEPT !.inflight_revision = 0, !.inflight = {}]

Failed(e) ==
  [e EXCEPT !.inflight_revision = 0, !.inflight = {},
            !.queued_revision = e.current, !.queued = e.unacknowledged]

FailInflight(p, revision, comps) ==
  /\ NamesInflight(revision_states[p], revision, comps)
  /\ Update(p, Failed(revision_states[p]))

-----------------------------------------------------------------------------
\* player_revision_end_session and player_revision_forget
EndSession(p) ==
  /\ revision_states[p].present
  /\ Update(p, [revision_states[p] EXCEPT !.session_ended = TRUE])

Forget(p) ==
  /\ revision_states[p].present
  /\ Update(p, Absent)

PlayerStep(p) ==
  \/ \E d \in Revisions : Hydrate(p, d)
  \/ \E comps \in SUBSET Components : Mark(p, comps)
  \/ MarkOverflow(p)
  \/ Queue(p)
  \/ \E r \in Revisions, comps \in SUBSET Components : BeginInflight(p, r, comps)
  \/ \E r \in Revisions, comps \in SUBSET Components : Acknowledge(p, r, comps)
  \/ \E r \in Revisions, comps \in SUBSET Components : AcknowledgeDurable(p, r, comps)
  \/ \E r \in Revisions, comps \in SUBSET Components : FailInflight(p, r, comps)
  \/ EndSession(p)
  \/ Forget(p)

Next == \E p \in Pids : PlayerStep(p)

Spec == Init /\ [][Next]_revision_states

-----------------------------------------------------------------------------
TypeOK == revision_states \in [Pids -> Entry]

(***************************************************************************)
(* Nothing is stranded: every component that still needs a durable save is *)
(* dirty, queued or in flight, so some later checkpoint or completion will *)
(* deal with it, in whatever order completions, failures and new marks     *)
(* arrive (player_revision_queue clears the dirty mask before anything is  *)
(* written).                                                               *)
(***************************************************************************)
Unstranded(e) == e.unacknowledged = e.dirty \cup e.queued \cup e.inflight

NothingStranded == \A p \in Pids : Unstranded(revision_states[p])

(***************************************************************************)
(* No acknowledgement loses a mark: a component that counts as saved was   *)
(* last marked no later than the acknowledged revision, so a late          *)
(* completion of an old snapshot cannot settle a newer change.             *)
(***************************************************************************)
KeepsMarks(e) ==
  \A c \in Components \ e.unacknowledged : e.component_revisions[c] <= e.acknowledged

NoLostMark == \A p \in Pids : KeepsMarks(revision_states[p])

(***************************************************************************)
(* The acknowledged revision never runs ahead of the current one, and when *)
(* nothing is unacknowledged they agree: the target save/login fence and   *)
(* player_revision_hydrate take this for settled.                          *)
(***************************************************************************)
SettledIsCurrent ==
  \A p \in Pids :
    LET e == revision_states[p]
    IN  /\ e.acknowledged <= e.current
        /\ e.unacknowledged = {} => e.acknowledged = e.current

(***************************************************************************)
(* As long as the entry lives, its revisions only grow: no call, and no    *)
(* rehydration by a new load, makes the table hand out a revision twice.   *)
(***************************************************************************)
Grows(e, f) ==
  e.present /\ f.present => /\ e.current <= f.current
                            /\ e.acknowledged <= f.acknowledged

RevisionsOnlyGrow ==
  [][\A p \in Pids : Grows(revision_states[p], revision_states'[p])]_revision_states

(***************************************************************************)
(* Every revision of an entry is bounded by the current one, and the       *)
(* current one belongs to a marked component or is durable.                *)
(***************************************************************************)
Bounded(e) ==
  /\ e.acknowledged <= e.current
  /\ e.queued_revision <= e.current
  /\ e.inflight_revision <= e.current
  /\ \A c \in Components : e.component_revisions[c] <= e.current
  /\ e.current > e.acknowledged => \E c \in Components : e.component_revisions[c] = e.current

\* A component re-marked after its save was sealed is dirty again or queued again.
Resealed(e) ==
  /\ \A c \in e.queued : e.component_revisions[c] > e.queued_revision => c \in e.dirty
  /\ \A c \in e.inflight :
       e.component_revisions[c] > e.inflight_revision => c \in e.dirty \cup e.queued

EntryInv(e) ==
  /\ e \in Entry
  /\ Unstranded(e)
  /\ KeepsMarks(e)
  /\ Bounded(e)
  /\ Resealed(e)

(***************************************************************************)
(* The inductive invariant: the properties above with the bookkeeping they *)
(* rest on, entry by entry.                                                *)
(***************************************************************************)
IInv ==
  /\ revision_states \in [Pids -> Entry]
  /\ \A p \in Pids : EntryInv(revision_states[p])
=============================================================================
