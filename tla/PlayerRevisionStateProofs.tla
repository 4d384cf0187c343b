---------------------- MODULE PlayerRevisionStateProofs ----------------------
(***************************************************************************)
(* Proofs about PlayerRevisionState, for any number of players and         *)
(* components and any numeric limit.  Each operation is shown to keep      *)
(* EntryInv of the one entry it rewrites; the theorems follow.             *)
(***************************************************************************)
EXTENDS PlayerRevisionState, TLAPS

LEMMA RevisionsAreNat == \A r \in Revisions : r \in Nat /\ r <= MaxRevision
  BY RevisionAssumption DEF Revisions

LEMMA ZeroRevision == 0 \in Revisions
  BY RevisionAssumption DEF Revisions

\* A fresh entry is consistent.
LEMMA HydratedInv ==
  ASSUME NEW d \in Revisions PROVE EntryInv(Hydrated(d))
  BY RevisionsAreNat, ZeroRevision
     DEF EntryInv, Hydrated, Entry, Unstranded, KeepsMarks, Bounded, Resealed

LEMMA AbsentInv == EntryInv(Absent)
<1> DEFINE e == Hydrated(0)
<1>1. EntryInv(e)
  BY HydratedInv, ZeroRevision
<1>2. Absent \in Entry
  BY <1>1 DEF EntryInv, Absent, Entry
<1>3. /\ Absent.current = e.current /\ Absent.acknowledged = e.acknowledged
      /\ Absent.dirty = e.dirty /\ Absent.unacknowledged = e.unacknowledged
      /\ Absent.queued = e.queued /\ Absent.inflight = e.inflight
      /\ Absent.queued_revision = e.queued_revision
      /\ Absent.inflight_revision = e.inflight_revision
      /\ Absent.component_revisions = e.component_revisions
  BY <1>1 DEF EntryInv, Absent, Entry
<1> HIDE DEF e
<1> QED BY <1>1, <1>2, <1>3 DEF EntryInv, Unstranded, KeepsMarks, Bounded, Resealed

\* When nothing is unacknowledged, the current revision is durable.
LEMMA SettledEntry ==
  ASSUME NEW e, EntryInv(e), e.unacknowledged = {}
  PROVE  e.acknowledged = e.current
  BY RevisionsAreNat DEF EntryInv, Entry, KeepsMarks, Bounded

LEMMA RehydratedInv ==
  ASSUME NEW e, EntryInv(e), Settled(e), NEW d \in Revisions, d >= e.acknowledged
  PROVE  EntryInv(Rehydrated(e, d)) /\ Grows(e, Rehydrated(e, d))
<1> DEFINE f == Rehydrated(e, d)
<1>0. e.unacknowledged = {} /\ e.queued = {} /\ e.inflight = {} /\ e.dirty = {}
  BY DEF EntryInv, Settled, Unstranded
<1>1. e.acknowledged = e.current
  BY <1>0, SettledEntry
<1>2. f \in Entry
  BY DEF EntryInv, Entry, Rehydrated
<1>3. /\ f.current = d /\ f.acknowledged = d
      /\ f.component_revisions = [c \in Components |-> d]
      /\ f.unacknowledged = {} /\ f.queued = {} /\ f.inflight = {} /\ f.dirty = {}
      /\ f.queued_revision = e.queued_revision /\ f.inflight_revision = e.inflight_revision
  BY <1>0 DEF EntryInv, Entry, Rehydrated
<1>4. Unstranded(f) /\ KeepsMarks(f) /\ Resealed(f)
  BY <1>3, RevisionsAreNat DEF Unstranded, KeepsMarks, Resealed
<1>5. Bounded(f)
  BY <1>1, <1>3, RevisionsAreNat DEF Bounded, EntryInv, Entry
<1>6. Grows(e, f)
  BY <1>1, <1>3, RevisionsAreNat DEF Grows, EntryInv, Entry
<1> QED BY <1>2, <1>4, <1>5, <1>6 DEF EntryInv

LEMMA MarkedInv ==
  ASSUME NEW e, EntryInv(e), NEW comps, Valid(comps), e.current < MaxRevision
  PROVE  EntryInv(Marked(e, comps)) /\ Grows(e, Marked(e, comps))
<1> DEFINE f == Marked(e, comps)
<1>0. e \in Entry /\ comps \subseteq Components /\ comps # {}
  BY DEF EntryInv, Valid
<1>1. e.current + 1 \in Revisions /\ e.current \in Nat
  BY <1>0, RevisionAssumption DEF Entry, Revisions
<1>2. f \in Entry
  BY <1>0, <1>1 DEF Entry, Marked
<1>3. /\ f.current = e.current + 1 /\ f.acknowledged = e.acknowledged
      /\ f.dirty = e.dirty \cup comps /\ f.unacknowledged = e.unacknowledged \cup comps
      /\ f.queued = e.queued /\ f.inflight = e.inflight
      /\ f.queued_revision = e.queued_revision /\ f.inflight_revision = e.inflight_revision
      /\ \A c \in Components : f.component_revisions[c] =
            IF c \in comps THEN e.current + 1 ELSE e.component_revisions[c]
  BY <1>0 DEF Entry, Marked
<1>4. Unstranded(f)
  BY <1>3 DEF Unstranded, EntryInv
<1>5. KeepsMarks(f)
  BY <1>0, <1>3 DEF KeepsMarks, EntryInv
<1>6. Bounded(f)
  <2>1. \A c \in Components : e.component_revisions[c] \in Nat
    BY <1>0, RevisionsAreNat DEF Entry
  <2> QED BY <1>0, <1>1, <1>3, <2>1, RevisionsAreNat DEF Bounded, EntryInv, Entry
<1>7. Resealed(f)
  BY <1>0, <1>3 DEF Resealed, EntryInv, Entry
<1>8. Grows(e, f)
  BY <1>0, <1>1, <1>3, RevisionsAreNat DEF Grows, Entry
<1> QED BY <1>2, <1>4, <1>5, <1>6, <1>7, <1>8 DEF EntryInv

LEMMA SealedInv ==
  ASSUME NEW e, EntryInv(e)
  PROVE  EntryInv(Sealed(e)) /\ Grows(e, Sealed(e))
<1> DEFINE f == Sealed(e)
<1>0. e \in Entry
  BY DEF EntryInv
<1>1. f \in Entry
  BY <1>0 DEF Entry, Sealed
<1>2. /\ f.current = e.current /\ f.acknowledged = e.acknowledged
      /\ f.dirty = {} /\ f.unacknowledged = e.unacknowledged
      /\ f.queued = e.unacknowledged /\ f.inflight = e.inflight
      /\ f.queued_revision = e.current /\ f.inflight_revision = e.inflight_revision
      /\ f.component_revisions = e.component_revisions
  BY <1>0 DEF Entry, Sealed
<1>3. Unstranded(f) /\ KeepsMarks(f)
  BY <1>2 DEF Unstranded, KeepsMarks, EntryInv
<1>4. Bounded(f)
  BY <1>0, <1>2, RevisionsAreNat DEF Bounded, EntryInv, Entry
<1>5. Resealed(f)
  <2>1. \A c \in f.queued : ~(f.component_revisions[c] > f.queued_revision)
    BY <1>0, <1>2, RevisionsAreNat DEF EntryInv, Bounded, Entry
  <2>2. f.inflight \subseteq f.queued
    BY <1>2 DEF EntryInv, Unstranded
  <2> QED BY <2>1, <2>2 DEF Resealed
<1>6. Grows(e, f)
  BY <1>0, <1>2, RevisionsAreNat DEF Grows, Entry
<1> QED BY <1>1, <1>3, <1>4, <1>5, <1>6 DEF EntryInv

LEMMA DurablyAcknowledgedInv ==
  ASSUME NEW e, EntryInv(e), NEW r \in Revisions, NEW comps \in SUBSET Components,
         e.acknowledged <= r, r <= e.current
  PROVE  /\ EntryInv(DurablyAcknowledged(e, r, comps))
         /\ Grows(e, DurablyAcknowledged(e, r, comps))
<1> DEFINE f == DurablyAcknowledged(e, r, comps)
           covered == Covered(e, r, comps)
<1>0. e \in Entry /\ covered \subseteq Components
  BY DEF EntryInv, Covered
<1>1. Later(e.acknowledged, r) = r
  BY <1>0, RevisionsAreNat DEF Later, Entry
<1>2. /\ f.current = e.current /\ f.acknowledged = r
      /\ f.dirty = e.dirty \ covered /\ f.unacknowledged = e.unacknowledged \ covered
      /\ f.queued = e.queued \ covered
      /\ f.inflight = e.inflight \ (covered \cap e.unacknowledged)
      /\ f.queued_revision = IF f.queued = {} THEN 0 ELSE e.queued_revision
      /\ f.inflight_revision = IF f.inflight = {} THEN 0 ELSE e.inflight_revision
      /\ f.component_revisions = e.component_revisions
  BY <1>0, <1>1 DEF Entry, DurablyAcknowledged
<1>3. f \in Entry
  BY <1>0, <1>1, ZeroRevision DEF Entry, DurablyAcknowledged
<1>4. f.inflight = e.inflight \ covered
  BY <1>2 DEF EntryInv, Unstranded
<1> HIDE DEF f, covered
<1>5. Unstranded(f)
  BY <1>2, <1>4 DEF EntryInv, Unstranded
<1>6. KeepsMarks(f)
  <2> SUFFICES ASSUME NEW c \in Components \ f.unacknowledged
               PROVE  f.component_revisions[c] <= f.acknowledged
    BY DEF KeepsMarks
  <2>1. CASE c \in covered
    BY <1>2, <2>1 DEF covered, Covered
  <2>2. CASE c \notin e.unacknowledged
    BY <1>0, <1>2, <2>2, RevisionsAreNat DEF EntryInv, KeepsMarks, Entry
  <2> QED BY <1>2, <2>1, <2>2
<1>7. Bounded(f)
  BY <1>0, <1>2, RevisionsAreNat DEF Bounded, EntryInv, Entry
<1>8. Resealed(f)
  BY <1>2, <1>4 DEF Resealed, EntryInv
<1>9. Grows(e, f)
  BY <1>0, <1>2, RevisionsAreNat DEF Grows, Entry
<1> QED BY <1>3, <1>5, <1>6, <1>7, <1>8, <1>9 DEF EntryInv, f

LEMMA BegunInv ==
  ASSUME NEW e, EntryInv(e), e.inflight = {}
  PROVE  EntryInv(Begun(e)) /\ Grows(e, Begun(e))
<1> DEFINE f == Begun(e)
<1>0. e \in Entry
  BY DEF EntryInv
<1>1. f \in Entry
  BY <1>0, ZeroRevision DEF Entry, Begun
<1>2. /\ f.current = e.current /\ f.acknowledged = e.acknowledged
      /\ f.dirty = e.dirty /\ f.unacknowledged = e.unacknowledged
      /\ f.queued = {} /\ f.inflight = e.queued
      /\ f.queued_revision = 0 /\ f.inflight_revision = e.queued_revision
      /\ f.component_revisions = e.component_revisions
  BY <1>0 DEF Entry, Begun
<1> HIDE DEF f
<1>3. Unstranded(f) /\ KeepsMarks(f) /\ Resealed(f)
  BY <1>2 DEF Unstranded, KeepsMarks, Resealed, EntryInv
<1>4. Bounded(f) /\ Grows(e, f)
  BY <1>0, <1>2, RevisionsAreNat DEF Bounded, Grows, EntryInv, Entry
<1> QED BY <1>1, <1>3, <1>4 DEF EntryInv, f

LEMMA AcknowledgedInv ==
  ASSUME NEW e, EntryInv(e)
  PROVE  EntryInv(Acknowledged(e)) /\ Grows(e, Acknowledged(e))
<1> DEFINE f == Acknowledged(e)
           covered == Covered(e, e.inflight_revision, e.inflight)
<1>0. e \in Entry /\ covered \subseteq Components
  BY DEF EntryInv, Entry, Covered
<1>1. /\ Later(e.acknowledged, e.inflight_revision) \in Revisions
      /\ Later(e.acknowledged, e.inflight_revision) >= e.acknowledged
      /\ Later(e.acknowledged, e.inflight_revision) >= e.inflight_revision
      /\ Later(e.acknowledged, e.inflight_revision) <= e.current
  BY <1>0, RevisionsAreNat DEF Later, EntryInv, Bounded, Entry
<1>2. /\ f.current = e.current
      /\ f.acknowledged = Later(e.acknowledged, e.inflight_revision)
      /\ f.dirty = e.dirty \ covered /\ f.unacknowledged = e.unacknowledged \ covered
      /\ f.queued = e.queued \ covered /\ f.inflight = {}
      /\ f.queued_revision = e.queued_revision /\ f.inflight_revision = 0
      /\ f.component_revisions = e.component_revisions
  BY <1>0 DEF Entry, Acknowledged
<1>3. f \in Entry
  BY <1>0, <1>1, ZeroRevision DEF Entry, Acknowledged
<1>4. \A c \in e.inflight \ covered : c \in e.dirty \cup e.queued
  <2> SUFFICES ASSUME NEW c \in e.inflight, c \notin covered
               PROVE  c \in e.dirty \cup e.queued
    OBVIOUS
  <2>1. c \in Components
    BY <1>0 DEF Entry
  <2>2. e.component_revisions[c] > e.inflight_revision
    BY <1>0, <2>1, RevisionsAreNat DEF Covered, Entry
  <2> QED BY <2>2 DEF EntryInv, Resealed
<1> HIDE DEF f
<1>5. Unstranded(f)
  BY <1>2, <1>4 DEF EntryInv, Unstranded
<1>6. KeepsMarks(f)
  <2> SUFFICES ASSUME NEW c \in Components \ f.unacknowledged
               PROVE  f.component_revisions[c] <= f.acknowledged
    BY DEF KeepsMarks
  <2>1. CASE c \in covered
    BY <1>0, <1>1, <1>2, <2>1, RevisionsAreNat DEF Covered, Entry
  <2>2. CASE c \notin e.unacknowledged
    BY <1>0, <1>1, <1>2, <2>2, RevisionsAreNat DEF EntryInv, KeepsMarks, Entry
  <2> QED BY <1>2, <2>1, <2>2
<1>7. Bounded(f)
  BY <1>0, <1>1, <1>2, RevisionsAreNat DEF Bounded, EntryInv, Entry
<1>8. Resealed(f)
  BY <1>2 DEF Resealed, EntryInv
<1>9. Grows(e, f)
  BY <1>0, <1>1, <1>2, RevisionsAreNat DEF Grows, Entry
<1> QED BY <1>3, <1>5, <1>6, <1>7, <1>8, <1>9 DEF EntryInv, f

LEMMA FailedInv ==
  ASSUME NEW e, EntryInv(e)
  PROVE  EntryInv(Failed(e)) /\ Grows(e, Failed(e))
<1> DEFINE f == Failed(e)
<1>0. e \in Entry
  BY DEF EntryInv
<1>1. f \in Entry
  BY <1>0, ZeroRevision DEF Entry, Failed
<1>2. /\ f.current = e.current /\ f.acknowledged = e.acknowledged
      /\ f.dirty = e.dirty /\ f.unacknowledged = e.unacknowledged
      /\ f.queued = e.unacknowledged /\ f.inflight = {}
      /\ f.queued_revision = e.current /\ f.inflight_revision = 0
      /\ f.component_revisions = e.component_revisions
  BY <1>0 DEF Entry, Failed
<1> HIDE DEF f
<1>3. Unstranded(f) /\ KeepsMarks(f)
  BY <1>2 DEF Unstranded, KeepsMarks, EntryInv
<1>4. Bounded(f) /\ Grows(e, f)
  BY <1>0, <1>2, RevisionsAreNat DEF Bounded, Grows, EntryInv, Entry
<1>5. Resealed(f)
  BY <1>0, <1>2, RevisionsAreNat DEF Resealed, EntryInv, Bounded, Entry
<1> QED BY <1>1, <1>3, <1>4, <1>5 DEF EntryInv, f

\* Latching a flag of the entry changes nothing EntryInv speaks of.
LEMMA FlaggedInv ==
  ASSUME NEW e, EntryInv(e),
         NEW f, f \in {[e EXCEPT !.overflowed = TRUE], [e EXCEPT !.session_ended = TRUE]}
  PROVE  EntryInv(f) /\ Grows(e, f)
<1>0. e \in Entry
  BY DEF EntryInv
<1>1. f \in Entry
  BY <1>0 DEF Entry
<1>2. /\ f.current = e.current /\ f.acknowledged = e.acknowledged
      /\ f.dirty = e.dirty /\ f.unacknowledged = e.unacknowledged
      /\ f.queued = e.queued /\ f.inflight = e.inflight
      /\ f.queued_revision = e.queued_revision /\ f.inflight_revision = e.inflight_revision
      /\ f.component_revisions = e.component_revisions
  BY <1>0 DEF Entry
<1>3. Unstranded(f) /\ KeepsMarks(f) /\ Bounded(f) /\ Resealed(f)
  BY <1>2 DEF Unstranded, KeepsMarks, Bounded, Resealed, EntryInv
<1>4. Grows(e, f)
  BY <1>0, <1>2, RevisionsAreNat DEF Grows, Entry
<1> QED BY <1>1, <1>3, <1>4 DEF EntryInv

-----------------------------------------------------------------------------
(***************************************************************************)
(* Every step rewrites one entry, to one that satisfies EntryInv and whose *)
(* revisions have not shrunk.                                              *)
(***************************************************************************)
LEMMA StepRewritesOneEntry ==
  ASSUME IInv, Next
  PROVE  \E p \in Pids : \E f :
           /\ EntryInv(f)
           /\ Grows(revision_states[p], f)
           /\ revision_states' = [revision_states EXCEPT ![p] = f]
<1> PICK p \in Pids : PlayerStep(p)
  BY DEF Next
<1> DEFINE e == revision_states[p]
           Good(f) == /\ EntryInv(f)
                      /\ Grows(e, f)
                      /\ revision_states' = [revision_states EXCEPT ![p] = f]
<1>0. EntryInv(e) /\ e \in Entry
  BY DEF IInv, EntryInv
<1> SUFFICES \E f : Good(f)
  OBVIOUS
<1>1. ASSUME NEW d \in Revisions, Hydrate(p, d) PROVE \E f : Good(f)
  <2>1. CASE ~e.present
    <3>1. EntryInv(Hydrated(d)) /\ Grows(e, Hydrated(d))
      BY <2>1, HydratedInv DEF Grows
    <3>2. Good(Hydrated(d))
      BY <1>1, <2>1, <3>1 DEF Hydrate, Update
    <3> QED BY <3>2
  <2>2. CASE e.present /\ Settled(e)
    <3>1. d >= e.acknowledged
      BY <1>1, <2>2 DEF Hydrate, HydrateAccepts
    <3>2. EntryInv(Rehydrated(e, d)) /\ Grows(e, Rehydrated(e, d))
      BY <1>0, <2>2, <3>1, RehydratedInv
    <3>3. Good(Rehydrated(e, d))
      BY <1>1, <2>2, <3>2 DEF Hydrate, Update
    <3> QED BY <3>3
  <2>3. CASE e.present /\ ~Settled(e)
    <3>1. Grows(e, e)
      BY <1>0, RevisionsAreNat DEF Grows, Entry
    <3>2. Good(e)
      BY <1>0, <1>1, <2>3, <3>1 DEF Hydrate, Update
    <3> QED BY <3>2
  <2> QED BY <2>1, <2>2, <2>3
<1>2. ASSUME NEW comps \in SUBSET Components, Mark(p, comps) PROVE \E f : Good(f)
  <2>1. Valid(comps) /\ e.current < MaxRevision
    BY <1>2 DEF Mark, MarkAccepts
  <2>2. EntryInv(Marked(e, comps)) /\ Grows(e, Marked(e, comps))
    BY <1>0, <2>1, MarkedInv
  <2>3. Good(Marked(e, comps))
    BY <1>2, <2>2 DEF Mark, Update
  <2> QED BY <2>3
<1>3. ASSUME MarkOverflow(p) PROVE \E f : Good(f)
  <2>1. Good([e EXCEPT !.overflowed = TRUE])
    BY <1>0, <1>3, FlaggedInv DEF MarkOverflow, Update
  <2> QED BY <2>1
<1>4. ASSUME Queue(p) PROVE \E f : Good(f)
  <2>1. Good(Sealed(e))
    BY <1>0, <1>4, SealedInv DEF Queue, Update
  <2> QED BY <2>1
<1>5. ASSUME NEW r \in Revisions, NEW comps \in SUBSET Components, BeginInflight(p, r, comps)
      PROVE  \E f : Good(f)
  <2>1. Good(Begun(e))
    BY <1>0, <1>5, BegunInv DEF BeginInflight, Update
  <2> QED BY <2>1
<1>6. ASSUME NEW r \in Revisions, NEW comps \in SUBSET Components, Acknowledge(p, r, comps)
      PROVE  \E f : Good(f)
  <2>1. Good(Acknowledged(e))
    BY <1>0, <1>6, AcknowledgedInv DEF Acknowledge, Update
  <2> QED BY <2>1
<1>7. ASSUME NEW r \in Revisions, NEW comps \in SUBSET Components,
             AcknowledgeDurable(p, r, comps)
      PROVE  \E f : Good(f)
  <2>1. e.acknowledged <= r /\ r <= e.current
    BY <1>7 DEF AcknowledgeDurable, AcknowledgeDurableAccepts
  <2>2. /\ EntryInv(DurablyAcknowledged(e, r, comps))
        /\ Grows(e, DurablyAcknowledged(e, r, comps))
    BY <1>0, <2>1, DurablyAcknowledgedInv
  <2>3. Good(DurablyAcknowledged(e, r, comps))
    BY <1>7, <2>2 DEF AcknowledgeDurable, Update
  <2> QED BY <2>3
<1>8. ASSUME NEW r \in Revisions, NEW comps \in SUBSET Components, FailInflight(p, r, comps)
      PROVE  \E f : Good(f)
  <2>1. Good(Failed(e))
    BY <1>0, <1>8, FailedInv DEF FailInflight, Update
  <2> QED BY <2>1
<1>9. ASSUME EndSession(p) PROVE \E f : Good(f)
  <2>1. Good([e EXCEPT !.session_ended = TRUE])
    BY <1>0, <1>9, FlaggedInv DEF EndSession, Update
  <2> QED BY <2>1
<1>10. ASSUME Forget(p) PROVE \E f : Good(f)
  <2>1. Grows(e, Absent)
    BY DEF Grows, Absent, Hydrated
  <2>2. Good(Absent)
    BY <1>10, <2>1, AbsentInv DEF Forget, Update
  <2> QED BY <2>2
<1> HIDE DEF Good
<1> QED
  BY <1>1, <1>2, <1>3, <1>4, <1>5, <1>6, <1>7, <1>8, <1>9, <1>10 DEF PlayerStep

LEMMA RevisionStep == IInv /\ [Next]_revision_states => IInv'
<1> SUFFICES ASSUME IInv, [Next]_revision_states PROVE IInv'
  OBVIOUS
<1>1. CASE Next
  <2>p. PICK p \in Pids : \E f : /\ EntryInv(f)
                                /\ revision_states' = [revision_states EXCEPT ![p] = f]
    BY <1>1, StepRewritesOneEntry
  <2> PICK f : /\ EntryInv(f)
               /\ revision_states' = [revision_states EXCEPT ![p] = f]
    BY <2>p
  <2>1. f \in Entry
    BY DEF EntryInv
  <2> QED BY <2>1 DEF IInv
<1>2. CASE UNCHANGED revision_states
  BY <1>2 DEF IInv
<1> QED BY <1>1, <1>2

(***************************************************************************)
(* IInv is an invariant of the revision table.                             *)
(***************************************************************************)
THEOREM RevisionInvariant == Spec => []IInv
<1>1. Init => IInv
  BY AbsentInv DEF Init, IInv, EntryInv
<1> QED BY <1>1, RevisionStep, PTL DEF Spec

(***************************************************************************)
(* Type correctness, and: nothing unacknowledged is stranded outside the   *)
(* dirty, queued and in-flight masks; no acknowledgement settles a newer   *)
(* mark; a settled entry is current.                                       *)
(***************************************************************************)
THEOREM RevisionSafety ==
  Spec => [](TypeOK /\ NothingStranded /\ NoLostMark /\ SettledIsCurrent)
<1>1. IInv => TypeOK /\ NothingStranded /\ NoLostMark
  BY DEF IInv, EntryInv, TypeOK, NothingStranded, NoLostMark
<1>2. IInv => SettledIsCurrent
  <2> SUFFICES ASSUME IInv, NEW p \in Pids
               PROVE  LET e == revision_states[p]
                      IN  /\ e.acknowledged <= e.current
                          /\ e.unacknowledged = {} => e.acknowledged = e.current
    BY DEF SettledIsCurrent
  <2>1. EntryInv(revision_states[p])
    BY DEF IInv
  <2> QED BY <2>1, SettledEntry DEF EntryInv, Bounded
<1> QED BY <1>1, <1>2, RevisionInvariant, PTL

(***************************************************************************)
(* The revisions of a live entry only grow.                                *)
(***************************************************************************)
THEOREM RevisionMonotone == Spec => RevisionsOnlyGrow
<1>1. IInv /\ [Next]_revision_states
        => [\A p \in Pids : Grows(revision_states[p], revision_states'[p])]_revision_states
  <2> SUFFICES ASSUME IInv, Next, NEW q \in Pids
               PROVE  Grows(revision_states[q], revision_states'[q])
    OBVIOUS
  <2>p. PICK p \in Pids : \E f : /\ Grows(revision_states[p], f)
                                /\ revision_states' = [revision_states EXCEPT ![p] = f]
    BY StepRewritesOneEntry
  <2> PICK f : /\ Grows(revision_states[p], f)
               /\ revision_states' = [revision_states EXCEPT ![p] = f]
    BY <2>p
  <2>1. revision_states \in [Pids -> Entry] /\ revision_states[q] \in Entry
    BY DEF IInv
  <2>2. Grows(revision_states[q], revision_states[q])
    BY <2>1, RevisionsAreNat DEF Grows, Entry
  <2> QED BY <2>1, <2>2
<1> QED BY <1>1, RevisionInvariant, PTL DEF Spec, RevisionsOnlyGrow

\* The entries of the revision table keep their types.
THEOREM RevisionTypes == Spec => []TypeOK
BY RevisionSafety, PTL

\* Every component that is not acknowledged is still dirty, queued or in flight.
THEOREM RevisionsNeverStranded == Spec => []NothingStranded
BY RevisionSafety, PTL

\* A component that counts as saved was last marked no later than the acknowledged
\* revision.
THEOREM MarksNeverLost == Spec => []NoLostMark
BY RevisionSafety, PTL

\* An entry with nothing unacknowledged is at its durable revision, as the target
\* fence and player_revision_hydrate take it.
THEOREM SettledEntriesAreCurrent == Spec => []SettledIsCurrent
BY RevisionSafety, PTL
=============================================================================
