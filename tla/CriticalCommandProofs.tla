----------------------- MODULE CriticalCommandProofs -----------------------
(***************************************************************************)
(* Critical commands, for any number of commands, keys, submissions, lost  *)
(* connections and restarts: every operation takes effect at most once,    *)
(* changes land in the order of their acceptance unless they were given    *)
(* up, the operation table and its fences are in order, and every answer   *)
(* is true.                                                                *)
(***************************************************************************)
EXTENDS CriticalCommand, SequenceLemmas

AnyJob == [owner : Nat, death : {FALSE}, command : Command, generation : Int]
Transaction == [command : Command, number : Nat, rejected : BOOLEAN]
Row == [command : Command, rejected : BOOLEAN]

\* What a step needs to know of the queue, the counters and the tables
Typed ==
  /\ sequence \in Nat /\ generation \in Int
  /\ jobs \in Seq(AnyJob)
  /\ taken => jobs # <<>>
  /\ stage \in {"applying", "reconciling", "applied", "delivered"} => taken
  /\ limbo \subseteq Transaction
  /\ inbox \in [Ids -> {NoRow} \cup Row]
  /\ effects \in [Ids -> Nat]

\* An operation in limbo has no row yet, and at most one transaction is in limbo for it.
LimboUnsettled ==
  /\ \A t \in limbo : inbox[t.command.id] = NoRow
  /\ \A t, u \in limbo : t.command.id = u.command.id => t = u

IInv == Typed /\ LimboUnsettled /\ EffectOnce

LEMMA NoRowIsNotARow == \A r \in Row : r # NoRow
  BY DEF Row, NoRow

LEMMA InitIInv == Init => IInv
  BY DEF Init, IInv, Typed, LimboUnsettled, EffectOnce, NoRow

LEMMA StampedTyped ==
  ASSUME sequence \in Nat, NEW c \in Commands
  PROVE  Stamped(c) \in Command
  BY CommandAssumption DEF Stamped, Command

LEMMA PutTyped ==
  ASSUME jobs \in Seq(AnyJob), taken => jobs # <<>>, NEW job \in AnyJob, Writer!Put(job)
  PROVE  jobs' \in Seq(AnyJob) /\ jobs' # <<>> /\ taken' = taken
<1>1. CASE Writer!Replaces(job)
  <2>1. jobs # <<>>
    <3>1. Writer!Waiting # <<>>
      BY <1>1 DEF Writer!Replaces
    <3>2. CASE taken
      BY <3>2
    <3>3. CASE ~taken
      BY <3>1, <3>3 DEF Writer!Waiting
    <3>4. QED
      BY <3>2, <3>3
  <2>2. Len(jobs) \in Nat /\ Len(jobs) # 0
    BY <2>1, EmptySeq
  <2>3. PICK n \in Nat : n = Len(jobs) - 1
    BY <2>2
  <2>4. SubSeq(jobs, 1, n) \in Seq(AnyJob)
    BY <2>2, <2>3
  <2>5. QED
    BY <1>1, <2>3, <2>4 DEF Writer!Put, Writer!Front
<1>2. CASE ~Writer!Replaces(job)
  BY <1>2 DEF Writer!Put
<1>3. QED
  BY <1>1, <1>2

\* A commit settles an operation that had no row and touches no other.
LEMMA SettleOnce ==
  ASSUME IInv, NEW c \in Command, NEW number, NEW rejected \in BOOLEAN,
         inbox[c.id] = NoRow, Settle(c, number, rejected)
  PROVE  /\ inbox' \in [Ids -> {NoRow} \cup Row]
         /\ effects' \in [Ids -> Nat]
         /\ EffectOnce'
         /\ \A id \in Ids : id # c.id => inbox'[id] = inbox[id]
<1>1. c.id \in Ids
  BY DEF Command
<1>2. [command |-> c, rejected |-> rejected] \in Row
  BY DEF Row
<1>3. /\ inbox' \in [Ids -> {NoRow} \cup Row]
      /\ \A id \in Ids : id # c.id => inbox'[id] = inbox[id]
      /\ inbox'[c.id] = [command |-> c, rejected |-> rejected]
  BY <1>1, <1>2 DEF IInv, Typed, Settle
<1>4. effects[c.id] = 0
  BY <1>1 DEF IInv, EffectOnce
<1>5. /\ effects' \in [Ids -> Nat]
      /\ \A id \in Ids : id # c.id => effects'[id] = effects[id]
      /\ effects'[c.id] = IF rejected THEN 0 ELSE 1
  BY <1>1, <1>4 DEF IInv, Typed, Settle
<1>6. EffectOnce'
  BY <1>1, <1>2, <1>3, <1>5, NoRowIsNotARow DEF IInv, EffectOnce
<1>7. QED
  BY <1>3, <1>5, <1>6

\* A step that leaves the database alone keeps what is said of it.
LEMMA DatabaseStill ==
  ASSUME IInv, UNCHANGED database
  PROVE  /\ LimboUnsettled' /\ EffectOnce'
         /\ limbo' \subseteq Transaction
         /\ inbox' \in [Ids -> {NoRow} \cup Row]
         /\ effects' \in [Ids -> Nat]
  BY DEF IInv, Typed, LimboUnsettled, EffectOnce, database

LEMMA CurrentTyped ==
  ASSUME IInv, taken
  PROVE  /\ Current \in Command /\ Current.id \in Ids
         /\ Head(jobs).owner \in Nat
<1>1. Head(jobs) \in AnyJob
  <2>1. jobs \in Seq(AnyJob) /\ jobs # <<>>
    BY DEF IInv, Typed
  <2>2. QED
    BY <2>1
<1>2. QED
  BY <1>1 DEF Current, AnyJob, Command

LEMMA StepIInv == IInv /\ [Next]_vars => IInv'
<1> SUFFICES ASSUME IInv, [Next]_vars PROVE IInv'
  OBVIOUS
<1>1. ASSUME NEW c \in Commands, Submit(c) PROVE IInv'
  <2>1. UNCHANGED database /\ UNCHANGED stage /\ UNCHANGED generation
    BY <1>1 DEF Submit
  <2>2. sequence' \in Nat
    BY <1>1 DEF Submit, IInv, Typed
  <2> DEFINE job == [owner |-> sequence', death |-> FALSE, command |-> Stamped(c),
                     generation |-> generation]
  <2>3. job \in AnyJob
    BY <2>2, StampedTyped DEF IInv, Typed, AnyJob
  <2>4. Writer!Put(job)
    BY <1>1 DEF Submit
  <2>5. jobs' \in Seq(AnyJob) /\ jobs' # <<>> /\ taken' = taken
    BY <2>3, <2>4, PutTyped DEF IInv, Typed
  <2>6. QED
    BY <2>1, <2>2, <2>5, DatabaseStill DEF IInv, Typed
<1>2. ASSUME NEW c \in Commands, Attach(c) PROVE IInv'
  BY <1>2, DatabaseStill DEF Attach, IInv, Typed, coordinator, writer
<1>3. CASE TakeJob
  BY <1>3, DatabaseStill DEF TakeJob, IInv, Typed, coordinator, Writer!Take
<1>4. ASSUME NEW o \in {"retryable_failure", "failed"}, ApplyFails(o) PROVE IInv'
  BY <1>4, DatabaseStill DEF ApplyFails, Answered, IInv, Typed, coordinator, writer
<1>5. CASE ApplyDuplicate
  BY <1>5, DatabaseStill DEF ApplyDuplicate, Answered, IInv, Typed, coordinator, writer
<1>6. ASSUME NEW rejected \in BOOLEAN, ApplyCommits(rejected) PROVE IInv'
  <2>1. taken
    BY <1>6 DEF ApplyCommits, IInv, Typed
  <2>2. Current \in Command /\ Current.id \in Ids
    BY <2>1, CurrentTyped
  <2>3. inbox[Current.id] = NoRow /\ \A t \in limbo : t.command.id # Current.id
    BY <1>6 DEF ApplyCommits, Duplicate, LockedByLimbo
  <2>4. /\ inbox' \in [Ids -> {NoRow} \cup Row] /\ effects' \in [Ids -> Nat] /\ EffectOnce'
        /\ \A id \in Ids : id # Current.id => inbox'[id] = inbox[id]
    BY <1>6, <2>2, <2>3, SettleOnce DEF ApplyCommits
  <2>5. LimboUnsettled'
    BY <1>6, <2>3, <2>4 DEF ApplyCommits, IInv, Typed, LimboUnsettled, Transaction, Command
  <2>6. QED
    BY <1>6, <2>1, <2>4, <2>5 DEF ApplyCommits, Answered, IInv, Typed, coordinator, writer
<1>7. ASSUME NEW rejected \in BOOLEAN, ApplyAmbiguous(rejected) PROVE IInv'
  <2>1. taken
    BY <1>7 DEF ApplyAmbiguous, IInv, Typed
  <2> DEFINE t == [command |-> Current, number |-> Head(jobs).owner, rejected |-> rejected]
  <2>2. t \in Transaction /\ t.command.id = Current.id
    BY <2>1, CurrentTyped DEF Transaction
  <2>3. inbox[Current.id] = NoRow /\ \A u \in limbo : u.command.id # Current.id
    BY <1>7 DEF ApplyAmbiguous, Duplicate, LockedByLimbo
  <2>4. limbo' = limbo \cup {t} /\ inbox' = inbox /\ effects' = effects
    BY <1>7 DEF ApplyAmbiguous
  <2>5. LimboUnsettled'
    BY <2>2, <2>3, <2>4 DEF IInv, LimboUnsettled
  <2>6. EffectOnce'
    BY <2>4 DEF IInv, EffectOnce
  <2>7. Typed'
    BY <1>7, <2>1, <2>2, <2>4 DEF ApplyAmbiguous, IInv, Typed, coordinator, writer
  <2>8. QED
    BY <2>5, <2>6, <2>7 DEF IInv
<1>8. ASSUME NEW t \in limbo, LimboCommits(t) PROVE IInv'
  <2>1. t \in Transaction /\ t.command \in Command /\ t.command.id \in Ids /\ t.rejected \in BOOLEAN
    BY <1>8 DEF IInv, Typed, Transaction, Command
  <2>2. inbox[t.command.id] = NoRow
    BY <1>8 DEF IInv, LimboUnsettled
  <2>3. /\ inbox' \in [Ids -> {NoRow} \cup Row] /\ effects' \in [Ids -> Nat] /\ EffectOnce'
        /\ \A id \in Ids : id # t.command.id => inbox'[id] = inbox[id]
    BY <1>8, <2>1, <2>2, SettleOnce DEF LimboCommits
  <2>4. limbo' = limbo \ {t}
    BY <1>8 DEF LimboCommits
  <2>5. \A u \in limbo' : u \in limbo /\ u.command.id # t.command.id /\ u.command.id \in Ids
    BY <1>8, <2>4 DEF IInv, LimboUnsettled, Typed, Transaction, Command
  <2>6. LimboUnsettled'
    BY <2>3, <2>5 DEF IInv, LimboUnsettled
  <2>7. QED
    BY <1>8, <2>3, <2>4, <2>6 DEF LimboCommits, IInv, Typed, coordinator, writer
<1>9. ASSUME NEW t \in limbo, LimboRollsBack(t) PROVE IInv'
  <2>1. limbo' = limbo \ {t} /\ inbox' = inbox /\ effects' = effects
    BY <1>9 DEF LimboRollsBack
  <2>2. LimboUnsettled' /\ EffectOnce'
    BY <2>1 DEF IInv, LimboUnsettled, EffectOnce
  <2>3. QED
    BY <1>9, <2>1, <2>2 DEF LimboRollsBack, IInv, Typed, coordinator, writer
<1>10. ASSUME NEW o \in ReconcileFailures \cup {"none"}, Reconcile(o) PROVE IInv'
  BY <1>10, DatabaseStill DEF Reconcile, Answered, IInv, Typed, coordinator, writer
<1>11. CASE Retry
  BY <1>11, DatabaseStill DEF Retry, IInv, Typed, coordinator, writer
<1>12. CASE Deliver
  BY <1>12, DatabaseStill DEF Deliver, IInv, Typed, writer
<1>13. CASE FinishJob
  BY <1>13, DatabaseStill DEF FinishJob, IInv, Typed, coordinator, Writer!Finish
<1>14. CASE ConsumeJobs
  BY <1>14, DatabaseStill DEF ConsumeJobs, IInv, Typed, coordinator, Writer!Consume
<1>15. CASE Pulse
  BY <1>15, DatabaseStill DEF Pulse, IInv, Typed, writer
<1>16. ASSUME NEW id \in Ids, Acknowledge(id) PROVE IInv'
  BY <1>16, DatabaseStill DEF Acknowledge, IInv, Typed, writer
<1>17. ASSUME NEW on \in BOOLEAN, SetAccepting(on) PROVE IInv'
  BY <1>17, DatabaseStill DEF SetAccepting, IInv, Typed, writer
<1>18. CASE Shutdown
  BY <1>18, DatabaseStill DEF Shutdown, IInv, Typed, writer
<1>19. CASE Initialize
  BY <1>19, DatabaseStill DEF Initialize, IInv, Typed, writer
<1>20. CASE Crash
  BY <1>20, DatabaseStill DEF Crash, IInv, Typed
<1>21. CASE UNCHANGED vars
  BY <1>21, DatabaseStill DEF vars, IInv, Typed, coordinator, writer
<1>22. QED
  BY <1>1, <1>2, <1>3, <1>4, <1>5, <1>6, <1>7, <1>8, <1>9, <1>10, <1>11, <1>12, <1>13,
     <1>14, <1>15, <1>16, <1>17, <1>18, <1>19, <1>20, <1>21 DEF Next

(***************************************************************************)
(* Whatever is retried, lost at COMMIT, submitted again or restarted, an   *)
(* operation changes the database exactly as often as its one inbox row    *)
(* says (critical_command_repository_apply).                               *)
(***************************************************************************)
THEOREM EffectsAreExactlyOnce == Spec => []EffectOnce
<1>1. IInv => EffectOnce
  BY DEF IInv
<1>2. QED
  BY <1>1, InitIInv, StepIInv, PTL DEF Spec

-----------------------------------------------------------------------------
(***************************************************************************)
(* The order in which changes land.  A writer that retries in place keeps  *)
(* the queue in the order of acceptance, behind all that has landed or is  *)
(* in limbo.                                                               *)
(***************************************************************************)
Queued ==
  /\ \A i, j \in 1 .. Len(jobs) : i < j => jobs[i].owner < jobs[j].owner
  /\ \A i \in 1 .. Len(jobs) : jobs[i].owner =< sequence

LandedBefore ==
  /\ landed \in [Keys -> Nat]
  /\ \A k \in Keys : landed[k] =< sequence
  /\ \A k \in Keys, i \in 1 .. Len(jobs) : landed[k] =< jobs[i].owner

LimboBefore ==
  /\ \A t \in limbo : t.number =< sequence
  /\ \A t \in limbo, i \in 1 .. Len(jobs) : t.number =< jobs[i].owner

OrderInv == Queued /\ LandedBefore /\ LimboBefore

\* What a step may do to the order: the body of AcceptanceOrder
InOrder ==
  \A k \in Keys :
    landed'[k] < landed[k] => \E t \in limbo \ limbo' : k \in t.command.keys /\ GivenUp(t)

LEMMA InitOrderInv == Init => OrderInv
BY DEF Init, OrderInv, Queued, LandedBefore, LimboBefore

\* The steps that neither queue nor end a job and leave the database alone
Elsewhere ==
  \/ \E c \in Commands : Attach(c)
  \/ TakeJob
  \/ \E o \in {"retryable_failure", "failed"} : ApplyFails(o)
  \/ ApplyDuplicate
  \/ \E o \in ReconcileFailures \cup {"none"} : Reconcile(o)
  \/ Retry \/ Deliver \/ ConsumeJobs \/ Pulse
  \/ \E id \in Ids : Acknowledge(id)
  \/ \E on \in BOOLEAN : SetAccepting(on)
  \/ Shutdown \/ Initialize \/ UNCHANGED vars

LEMMA ElsewhereStill == Elsewhere => UNCHANGED <<jobs, sequence, limbo, landed, inbox>>
<1> SUFFICES ASSUME Elsewhere PROVE UNCHANGED <<jobs, sequence, limbo, landed, inbox>>
  OBVIOUS
<1>1. CASE TakeJob
  BY <1>1 DEF TakeJob, Writer!Take, database
<1>2. CASE ConsumeJobs
  BY <1>2 DEF ConsumeJobs, Writer!Consume, database
<1>3. CASE Pulse
  BY <1>3 DEF Pulse, writer, database
<1>4. CASE UNCHANGED vars
  BY <1>4 DEF vars, writer, database
<1> QED
  BY <1>1, <1>2, <1>3, <1>4
     DEF Elsewhere, Attach, ApplyFails, ApplyDuplicate, Reconcile, Retry, Deliver, Acknowledge,
         SetAccepting, Shutdown, Initialize, writer, database

\* An accepted command is behind all others: it never replaces the last one waiting.
LEMMA SubmitAppends ==
  ASSUME IInv, Queued, NEW c \in Commands, Submit(c)
  PROVE  /\ jobs' = Append(jobs, [owner |-> sequence + 1, death |-> FALSE, command |-> Stamped(c),
                                  generation |-> generation])
         /\ [owner |-> sequence + 1, death |-> FALSE, command |-> Stamped(c),
             generation |-> generation] \in AnyJob
         /\ sequence' = sequence + 1 /\ sequence \in Nat
         /\ UNCHANGED <<taken, consumable, open>>
<1> DEFINE job == [owner |-> sequence + 1, death |-> FALSE, command |-> Stamped(c),
                   generation |-> generation]
<1>1. sequence' = sequence + 1 /\ sequence \in Nat /\ Writer!Put(job)
  BY DEF Submit, IInv, Typed
<1>2. job \in AnyJob /\ job.owner = sequence + 1
  BY <1>1, StampedTyped DEF IInv, Typed, AnyJob
<1> HIDE DEF job
<1>3. ~Writer!Replaces(job)
  <2>1. SUFFICES ASSUME Writer!Replaces(job) PROVE FALSE
    OBVIOUS
  <2>2. jobs \in Seq(AnyJob) /\ jobs # <<>>
    BY <2>1 DEF IInv, Typed, Writer!Replaces, Writer!Waiting
  <2>3. Len(jobs) \in 1 .. Len(jobs)
    BY <2>2
  <2>4. jobs[Len(jobs)].owner =< sequence /\ jobs[Len(jobs)] \in AnyJob
    BY <2>2, <2>3 DEF Queued
  <2>5. jobs[Len(jobs)].owner = sequence + 1
    BY <1>2, <2>1, <2>3 DEF Writer!Replaces, Writer!Last
  <2> QED BY <1>1, <2>4, <2>5 DEF AnyJob
<1>4. jobs' = Append(jobs, job) /\ UNCHANGED <<taken, consumable, open>>
  BY <1>1, <1>3 DEF Writer!Put
<1> QED BY <1>1, <1>2, <1>4 DEF job

LEMMA SubmitKeepsOrder ==
  ASSUME IInv, OrderInv, NEW c \in Commands, Submit(c)
  PROVE  OrderInv'
<1> DEFINE job == [owner |-> sequence + 1, death |-> FALSE, command |-> Stamped(c),
                   generation |-> generation]
<1>1. /\ jobs' = Append(jobs, job) /\ job \in AnyJob /\ job.owner = sequence + 1
      /\ sequence' = sequence + 1 /\ sequence \in Nat
      /\ UNCHANGED <<limbo, landed>> /\ limbo \subseteq Transaction
  BY SubmitAppends DEF OrderInv, Submit, database, IInv, Typed
<1> HIDE DEF job
<1>2. /\ Len(jobs) \in Nat /\ Len(jobs') = Len(jobs) + 1
      /\ \A i \in 1 .. Len(jobs') : \/ i \in 1 .. Len(jobs) /\ jobs'[i] = jobs[i]
                                    \/ i = Len(jobs) + 1 /\ jobs'[i] = job
  BY <1>1, Appended DEF IInv, Typed
<1>3. \A i \in 1 .. Len(jobs) : jobs[i].owner \in Nat
  <2>1. \A i \in 1 .. Len(jobs) : jobs[i] \in AnyJob
    BY DEF IInv, Typed
  <2> QED BY <2>1 DEF AnyJob
<1>4. Queued'
  BY <1>1, <1>2, <1>3, SMTT(30) DEF OrderInv, Queued
<1>5. LandedBefore'
  BY <1>1, <1>2, <1>3 DEF OrderInv, LandedBefore
<1>6. LimboBefore'
  <2>1. \A t \in limbo : t.number \in Nat
    BY <1>1 DEF Transaction
  <2> QED BY <1>1, <1>2, <1>3, <2>1 DEF OrderInv, LimboBefore
<1> QED BY <1>4, <1>5, <1>6 DEF OrderInv

\* Jobs that leave the queue take nothing with them.
LEMMA FewerJobsInOrder ==
  ASSUME OrderInv, UNCHANGED <<sequence, limbo, landed>>,
         \A i \in 1 .. Len(jobs') : i + 1 \in 1 .. Len(jobs) /\ jobs'[i] = jobs[i + 1],
         Len(jobs') \in Nat
  PROVE  OrderInv'
<1>1. Queued'
  <2>1. ASSUME NEW i \in 1 .. Len(jobs'), NEW j \in 1 .. Len(jobs'), i < j
        PROVE  jobs'[i].owner < jobs'[j].owner
    <3>1. i \in Int /\ j \in Int /\ i + 1 < j + 1
      BY <2>1
    <3> QED BY <3>1 DEF OrderInv, Queued
  <2> QED BY <2>1 DEF OrderInv, Queued
<1>2. LandedBefore'
  BY DEF OrderInv, LandedBefore
<1>3. LimboBefore'
  BY DEF OrderInv, LimboBefore
<1> QED BY <1>1, <1>2, <1>3 DEF OrderInv

LEMMA FinishKeepsOrder ==
  ASSUME IInv, OrderInv, FinishJob
  PROVE  OrderInv'
<1>1. /\ jobs' = Tail(jobs) /\ jobs \in Seq(AnyJob) /\ jobs # <<>>
      /\ UNCHANGED <<sequence, limbo, landed>>
  BY DEF FinishJob, Writer!Finish, database, IInv, Typed
<1>2. Len(jobs') \in Nat /\ \A i \in 1 .. Len(jobs') : i + 1 \in 1 .. Len(jobs) /\ jobs'[i] = jobs[i + 1]
  <2>1. jobs' \in Seq(AnyJob)
    BY <1>1, Tailed
  <2> QED BY <1>1, <2>1, Tailed
<1> QED BY <1>1, <1>2, FewerJobsInOrder

LEMMA CrashKeepsOrder ==
  ASSUME IInv, OrderInv, Crash
  PROVE  OrderInv'
<1>1. jobs' = <<>> /\ UNCHANGED <<sequence, limbo, landed>>
  BY DEF Crash, database
<1> QED BY <1>1, FewerJobsInOrder

\* What the writer thread's transaction is about
LEMMA CurrentIsFirst ==
  ASSUME IInv, taken
  PROVE  /\ Head(jobs) = jobs[1] /\ 1 \in 1 .. Len(jobs)
         /\ jobs[1] \in AnyJob /\ Current = jobs[1].command
         /\ \A i \in 1 .. Len(jobs) : jobs[i].owner \in Nat
<1>1. jobs \in Seq(AnyJob) /\ jobs # <<>>
  BY DEF IInv, Typed
<1>2. Head(jobs) = jobs[1] /\ 1 \in 1 .. Len(jobs) /\ \A i \in 1 .. Len(jobs) : jobs[i] \in AnyJob
  BY <1>1
<1> QED BY <1>2 DEF Current, AnyJob

\* Settle writes the keys of its command.
LEMMA SettleLands ==
  ASSUME NEW c \in Command, NEW number \in Nat, NEW rejected \in BOOLEAN,
         landed \in [Keys -> Nat], Settle(c, number, rejected)
  PROVE  /\ landed' \in [Keys -> Nat]
         /\ \A k \in Keys : landed'[k] = landed[k] \/ (k \in c.keys /\ landed'[k] = number)
<1>1. \A k \in Keys : landed'[k] = IF k \in c.keys /\ ~rejected THEN number ELSE landed[k]
  BY DEF Settle
<1>2. landed' \in [Keys -> Nat]
  BY DEF Settle
<1> QED BY <1>1, <1>2

LEMMA CommitKeepsOrder ==
  ASSUME IInv, OrderInv, NEW rejected \in BOOLEAN, ApplyCommits(rejected)
  PROVE  OrderInv' /\ InOrder
<1>1. /\ taken /\ UNCHANGED <<jobs, sequence, limbo>>
      /\ Settle(Current, Head(jobs).owner, rejected)
  BY DEF ApplyCommits, IInv, Typed, writer
<1>2. /\ 1 \in 1 .. Len(jobs) /\ Current \in Command /\ Head(jobs).owner = jobs[1].owner
      /\ \A i \in 1 .. Len(jobs) : jobs[i].owner \in Nat
  BY <1>1, CurrentIsFirst, CurrentTyped
<1>3. /\ landed' \in [Keys -> Nat]
      /\ \A k \in Keys : landed'[k] = landed[k] \/ landed'[k] = jobs[1].owner
  BY <1>1, <1>2, SettleLands DEF OrderInv, LandedBefore
<1>4. \A i \in 1 .. Len(jobs) : jobs[1].owner =< jobs[i].owner
  BY <1>2 DEF OrderInv, Queued
<1>5. LandedBefore'
  BY <1>1, <1>2, <1>3, <1>4 DEF OrderInv, LandedBefore, Queued
<1>6. \A k \in Keys : ~(landed'[k] < landed[k])
  BY <1>2, <1>3 DEF OrderInv, LandedBefore
<1> QED BY <1>1, <1>5, <1>6 DEF OrderInv, Queued, LimboBefore, InOrder

LEMMA AmbiguousKeepsOrder ==
  ASSUME IInv, OrderInv, NEW rejected \in BOOLEAN, ApplyAmbiguous(rejected)
  PROVE  OrderInv'
<1> DEFINE t == [command |-> Current, number |-> Head(jobs).owner, rejected |-> rejected]
<1>1. taken /\ UNCHANGED <<jobs, sequence, landed>> /\ limbo' = limbo \cup {t}
  BY DEF ApplyAmbiguous, IInv, Typed, writer
<1>2. /\ 1 \in 1 .. Len(jobs) /\ t.number = jobs[1].owner
      /\ \A i \in 1 .. Len(jobs) : jobs[i].owner \in Nat
  BY <1>1, CurrentIsFirst
<1> HIDE DEF t
<1>3. \A i \in 1 .. Len(jobs) : jobs[1].owner =< jobs[i].owner
  BY <1>2 DEF OrderInv, Queued
<1>4. LimboBefore'
  BY <1>1, <1>2, <1>3 DEF OrderInv, LimboBefore, Queued
<1> QED BY <1>1, <1>4 DEF OrderInv, Queued, LandedBefore

\* A transaction whose job is still on the writer is that of the first job, and all that has
\* landed is older.
LEMMA LimboKeepsOrder ==
  ASSUME IInv, OrderInv, NEW t \in limbo, LimboCommits(t)
  PROVE  OrderInv' /\ InOrder
<1>1. /\ UNCHANGED <<jobs, sequence>> /\ limbo' = limbo \ {t}
      /\ Settle(t.command, t.number, t.rejected)
      /\ t.command \in Command /\ t.number \in Nat /\ t.rejected \in BOOLEAN
  BY DEF LimboCommits, IInv, Typed, Transaction, writer
<1>2. /\ landed' \in [Keys -> Nat] /\ landed \in [Keys -> Nat]
      /\ \A k \in Keys : landed'[k] = landed[k] \/ (k \in t.command.keys /\ landed'[k] = t.number)
  BY <1>1, SettleLands DEF OrderInv, LandedBefore
<1>3. LandedBefore'
  BY <1>1, <1>2 DEF OrderInv, LandedBefore, LimboBefore
<1>4. LimboBefore'
  BY <1>1 DEF OrderInv, LimboBefore
<1>5. ASSUME NEW k \in Keys, landed'[k] < landed[k] PROVE k \in t.command.keys /\ GivenUp(t)
  <2>1. /\ k \in t.command.keys /\ landed'[k] = t.number
        /\ landed[k] \in Nat /\ t.number < landed[k]
    BY <1>2, <1>5
  <2>2. ASSUME NEW i \in 1 .. Len(jobs) PROVE jobs[i].owner # t.number
    BY <1>1, <2>1, <2>2 DEF OrderInv, LandedBefore
  <2> QED BY <2>1, <2>2 DEF GivenUp
<1>6. InOrder
  BY <1>1, <1>5 DEF InOrder
<1> QED BY <1>1, <1>3, <1>4, <1>6 DEF OrderInv, Queued

LEMMA StepOrder == IInv /\ OrderInv /\ [Next]_vars => OrderInv' /\ InOrder
<1> SUFFICES ASSUME IInv, OrderInv, [Next]_vars PROVE OrderInv' /\ InOrder
  OBVIOUS
<1>0. ASSUME UNCHANGED landed PROVE InOrder
  BY <1>0 DEF OrderInv, LandedBefore, InOrder
<1>1. CASE Elsewhere
  BY <1>0, <1>1, ElsewhereStill DEF OrderInv, Queued, LandedBefore, LimboBefore
<1>2. ASSUME NEW c \in Commands, Submit(c) PROVE OrderInv' /\ InOrder
  BY <1>0, <1>2, SubmitKeepsOrder DEF Submit, database
<1>3. CASE FinishJob
  BY <1>0, <1>3, FinishKeepsOrder DEF FinishJob, database
<1>4. CASE Crash
  BY <1>0, <1>4, CrashKeepsOrder DEF Crash, database
<1>5. ASSUME NEW rejected \in BOOLEAN, ApplyAmbiguous(rejected) PROVE OrderInv' /\ InOrder
  BY <1>0, <1>5, AmbiguousKeepsOrder DEF ApplyAmbiguous
<1>6. ASSUME NEW t \in limbo, LimboRollsBack(t) PROVE OrderInv' /\ InOrder
  <2>1. limbo' \subseteq limbo /\ UNCHANGED <<jobs, sequence, landed>>
    BY <1>6 DEF LimboRollsBack, writer
  <2> QED BY <1>0, <2>1 DEF OrderInv, Queued, LandedBefore, LimboBefore
<1> QED
  BY <1>1, <1>2, <1>3, <1>4, <1>5, <1>6, CommitKeepsOrder, LimboKeepsOrder DEF Next, Elsewhere

LEMMA AlwaysIInv == Spec => []IInv
BY InitIInv, StepIInv, PTL DEF Spec

LEMMA AlwaysOrderInv == Spec => []OrderInv
BY AlwaysIInv, InitOrderInv, StepOrder, PTL DEF Spec

(***************************************************************************)
(* However often the writer retries and whichever COMMIT is lost, a        *)
(* command in its hand takes effect before every later one on the same     *)
(* entity; only a COMMIT on a lost connection whose command was given up   *)
(* lands late (writer_main, critical_command_repository_apply).            *)
(***************************************************************************)
THEOREM ChangesLandInOrder == Spec => AcceptanceOrder
<1>1. IInv /\ OrderInv /\ [Next]_vars => [InOrder]_vars
  BY StepOrder
<1> QED BY <1>1, AlwaysIInv, AlwaysOrderInv, PTL DEF Spec, AcceptanceOrder, InOrder

-----------------------------------------------------------------------------
(***************************************************************************)
(* The operation table.  A job of this coordinator that has not delivered, *)
(* or a completion not yet pulsed, answers one operation that waits for    *)
(* it, and every operation that waits has one of them.                     *)
(***************************************************************************)
Waited == {id \in Active : ~operations[id].pending}

Answering ==
  /\ \A i \in Undelivered :
       /\ jobs[i].command.id \in Waited
       /\ operations[jobs[i].command.id].command = jobs[i].command
  /\ \A i, j \in Undelivered : jobs[i].command.id = jobs[j].command.id => i = j
  /\ \A i \in 1 .. Len(delivery) : delivery[i].id \in Waited
  /\ \A i, j \in 1 .. Len(delivery) : delivery[i].id = delivery[j].id => i = j
  /\ \A i \in Undelivered, j \in 1 .. Len(delivery) : jobs[i].command.id # delivery[j].id

NoneForgotten ==
  \A id \in Waited :
    \/ \E i \in Undelivered : jobs[i].command.id = id
    \/ \E j \in 1 .. Len(delivery) : delivery[j].id = id

\* Jobs of earlier coordinators have earlier generations.
Generations ==
  /\ generation >= 1
  /\ generation =< 2 * restarts + (IF initialized THEN 1 ELSE 0)
  /\ \A i \in 1 .. Len(jobs) :
       jobs[i].generation =< generation /\ (~initialized => jobs[i].generation < generation)

Operation ==
  [command : Command, number : 1 .. MaxSubmits, pending : BOOLEAN, answer : Answers \cup {"none"}]

Completion == [id : Ids, answer : Answers]

Table ==
  /\ delivery \in Seq(Completion)
  /\ operations \in [Ids -> {NoOperation} \cup Operation]
  /\ IsFiniteSet(Active) /\ Cardinality(Active) =< MaxOperations
  /\ \A id \in Active : operations[id].command.id = id /\ operations[id].number =< sequence

Fenced ==
  /\ fences \in [Keys -> Seq(Ids)]
  /\ \A k \in Keys : \A i \in 1 .. Len(fences[k]) :
       fences[k][i] \in Active /\ k \in operations[fences[k][i]].command.keys
  /\ \A id \in Active : \A k \in operations[id].command.keys :
       \E i \in 1 .. Len(fences[k]) : fences[k][i] = id
  /\ \A k \in Keys : \A i, j \in 1 .. Len(fences[k]) :
       i < j => operations[fences[k][i]].number < operations[fences[k][j]].number

TabInv == Answering /\ NoneForgotten /\ Generations /\ Table /\ Fenced

LEMMA InitTabInv == Init => TabInv
<1> SUFFICES ASSUME Init PROVE TabInv
  OBVIOUS
<1>1. Active = {} /\ 1 .. Len(jobs) = {} /\ 1 .. Len(delivery) = {}
  BY DEF Init, Active
<1> Undelivered = {} /\ Waited = {}
  BY <1>1 DEF Undelivered, Waited
<1>2. Answering /\ NoneForgotten
  BY <1>1 DEF Answering, NoneForgotten, Waited
<1>3. Generations
  BY <1>1 DEF Init, Generations
<1>4. Table
  <2>1. IsFiniteSet(Active) /\ Cardinality(Active) = 0
    BY <1>1, FS_EmptySet
  <2> QED BY <1>1, <2>1, BoundAssumption DEF Init, Table
<1>5. Fenced
  <2>1. \A k \in Keys : fences[k] = <<>> /\ 1 .. Len(fences[k]) = {}
    BY DEF Init
  <2> QED BY <1>1, <2>1 DEF Init, Fenced
<1> QED BY <1>2, <1>3, <1>4, <1>5 DEF TabInv

\* Steps that leave the table, the queues and what has been delivered alone
LEMMA TabQuiet ==
  ASSUME TabInv,
         UNCHANGED <<initialized, generation, operations, fences, delivery, sequence, jobs, restarts>>,
         stage = "delivered" <=> stage' = "delivered"
  PROVE  TabInv'
<1>1. Undelivered' = Undelivered
  BY DEF Undelivered
<1>2. Active' = Active /\ Waited' = Waited
  BY DEF Active, Waited
<1>3. Answering'
  BY <1>1, <1>2 DEF TabInv, Answering, Waited
<1>4. NoneForgotten'
  BY <1>1, <1>2 DEF TabInv, NoneForgotten
<1>5. Generations' /\ Table'
  BY <1>2 DEF TabInv, Generations, Table
<1>6. Fenced'
  BY <1>2 DEF TabInv, Fenced
<1> QED BY <1>3, <1>4, <1>5, <1>6 DEF TabInv

\* An operation that is not in the table has no fields to speak of.
LEMMA NoOperationIsNone == \A o \in Operation : o # NoOperation
BY DEF Operation, NoOperation

LEMMA JobsTyped ==
  ASSUME IInv
  PROVE  /\ Len(jobs) \in Nat
         /\ \A i \in 1 .. Len(jobs) :
              /\ jobs[i].command \in Command /\ jobs[i].command.id \in Ids
              /\ jobs[i].command.keys \subseteq Keys
              /\ jobs[i].owner \in Nat /\ jobs[i].generation \in Int
<1>1. Len(jobs) \in Nat /\ \A i \in 1 .. Len(jobs) : jobs[i] \in AnyJob
  BY DEF IInv, Typed
<1> QED BY <1>1 DEF AnyJob, Command

LEMMA SubmitKeepsTable ==
  ASSUME IInv, OrderInv, TabInv, NEW c \in Commands, Submit(c)
  PROVE  TabInv'
<1> DEFINE job == [owner |-> sequence + 1, death |-> FALSE, command |-> Stamped(c),
                   generation |-> generation]
           op == [command |-> Stamped(c), number |-> sequence + 1, pending |-> FALSE,
                  answer |-> "none"]
<1>1. /\ jobs' = Append(jobs, job) /\ job \in AnyJob
      /\ sequence' = sequence + 1 /\ sequence \in Nat /\ sequence < MaxSubmits
      /\ c.id \notin Active /\ Cardinality(Active) < MaxOperations /\ initialized
      /\ operations' = [operations EXCEPT ![c.id] = op]
      /\ fences' = AddFences(c)
      /\ UNCHANGED <<initialized, generation, delivery, stage, restarts>>
  <2>1. jobs' = Append(jobs, job) /\ job \in AnyJob /\ sequence' = sequence + 1 /\ sequence \in Nat
    BY SubmitAppends DEF OrderInv
  <2> QED BY <2>1 DEF Submit, HasRoom
<1>2. /\ c.id \in Ids /\ c.keys \subseteq Keys /\ Stamped(c).id = c.id /\ Stamped(c).keys = c.keys
      /\ Stamped(c) \in Command
  BY <1>1, StampedTyped, CommandAssumption DEF Stamped, Command
<1>3. /\ op \in Operation /\ op.command = Stamped(c) /\ op.number = sequence + 1 /\ ~op.pending
      /\ job.command = Stamped(c) /\ job.generation = generation /\ op # NoOperation
  <2>1. sequence + 1 \in 1 .. MaxSubmits
    BY <1>1, BoundAssumption
  <2>2. op \in Operation
    BY <1>2, <2>1 DEF Operation
  <2> QED BY <2>2, NoOperationIsNone
<1> HIDE DEF job, op
<1>4. /\ Len(jobs) \in Nat /\ Len(jobs') = Len(jobs) + 1
      /\ \A i \in 1 .. Len(jobs) : i \in 1 .. Len(jobs') /\ jobs'[i] = jobs[i]
      /\ Len(jobs) + 1 \in 1 .. Len(jobs') /\ jobs'[Len(jobs) + 1] = job
      /\ \A i \in 1 .. Len(jobs') : \/ i \in 1 .. Len(jobs) /\ jobs'[i] = jobs[i]
                                    \/ i = Len(jobs) + 1 /\ jobs'[i] = job
  <2>1. jobs \in Seq(AnyJob)
    BY DEF IInv, Typed
  <2> QED BY <1>1, <2>1, Appended
<1>5. /\ operations' \in [Ids -> {NoOperation} \cup Operation]
      /\ operations'[c.id] = op
      /\ \A id \in Ids : id # c.id => operations'[id] = operations[id]
  BY <1>1, <1>2, <1>3 DEF TabInv, Table
<1>6. Active' = Active \cup {c.id} /\ \A id \in Active : id # c.id /\ operations'[id] = operations[id]
  BY <1>1, <1>2, <1>3, <1>5 DEF Active
<1>7. Waited' = Waited \cup {c.id}
  BY <1>2, <1>3, <1>5, <1>6 DEF Waited
<1>8. Undelivered' = Undelivered \cup {Len(jobs) + 1} /\ Undelivered \subseteq 1 .. Len(jobs)
  <2>1. stage = "delivered" => Len(jobs) # 0
    <3> SUFFICES ASSUME stage = "delivered" PROVE Len(jobs) # 0
      OBVIOUS
    <3>1. jobs \in Seq(AnyJob) /\ jobs # <<>>
      BY DEF IInv, Typed
    <3> QED BY <3>1, EmptySeq
  <2>2. stage' = stage /\ generation' = generation
    BY <1>1
  <2>3. \A i : i \in Undelivered' <=> i \in Undelivered \/ i = Len(jobs) + 1
    <3>1. \A i \in 1 .. Len(jobs) : i \in Undelivered' <=> i \in Undelivered
      BY <1>4, <2>2 DEF Undelivered
    <3>2. Len(jobs) + 1 \in Undelivered'
      BY <1>3, <1>4, <2>1, <2>2 DEF Undelivered
    <3>3. \A i : /\ i \in Undelivered => i \in 1 .. Len(jobs)
                 /\ i \in Undelivered' => i \in 1 .. Len(jobs) \/ i = Len(jobs) + 1
      BY <1>4 DEF Undelivered
    <3>4. ASSUME NEW i, i \in Undelivered' PROVE i \in Undelivered \/ i = Len(jobs) + 1
      BY <3>1, <3>3, <3>4
    <3>5. ASSUME NEW i, i \in Undelivered PROVE i \in Undelivered'
      BY <3>1, <3>3, <3>5
    <3> QED BY <3>2, <3>4, <3>5
  <2> QED BY <2>3 DEF Undelivered
<1>9. /\ \A i \in Undelivered : jobs[i].command.id # c.id /\ jobs[i].command.id \in Ids
      /\ \A i \in 1 .. Len(delivery) : delivery[i].id # c.id /\ delivery[i].id \in Ids
  <2>1. \A i \in Undelivered : jobs[i].command.id \in Active
    BY DEF TabInv, Answering, Waited
  <2>2. \A i \in 1 .. Len(delivery) : delivery[i].id \in Active
    BY DEF TabInv, Answering, Waited
  <2>3. Active \subseteq Ids
    BY DEF Active
  <2> QED BY <1>1, <2>1, <2>2, <2>3
<1>10. Answering'
  <2>1. \A i \in Undelivered' :
          jobs'[i].command.id \in Waited' /\ operations'[jobs'[i].command.id].command = jobs'[i].command
    BY <1>2, <1>3, <1>4, <1>5, <1>7, <1>8, <1>9 DEF TabInv, Answering
  <2>2. \A i, j \in Undelivered' : jobs'[i].command.id = jobs'[j].command.id => i = j
    BY <1>2, <1>3, <1>4, <1>8, <1>9 DEF TabInv, Answering
  <2>3. \A i \in 1 .. Len(delivery') : delivery'[i].id \in Waited'
    BY <1>1, <1>7, <1>9 DEF TabInv, Answering
  <2>4. \A i, j \in 1 .. Len(delivery') : delivery'[i].id = delivery'[j].id => i = j
    BY <1>1 DEF TabInv, Answering
  <2>5. \A i \in Undelivered', j \in 1 .. Len(delivery') : jobs'[i].command.id # delivery'[j].id
    BY <1>1, <1>2, <1>3, <1>4, <1>8, <1>9 DEF TabInv, Answering
  <2> QED BY <2>1, <2>2, <2>3, <2>4, <2>5 DEF Answering
<1>11. NoneForgotten'
  <2> SUFFICES ASSUME NEW id \in Waited'
               PROVE  \/ \E i \in Undelivered' : jobs'[i].command.id = id
                      \/ \E j \in 1 .. Len(delivery') : delivery'[j].id = id
    BY DEF NoneForgotten
  <2>1. CASE id = c.id
    BY <1>2, <1>3, <1>4, <1>8, <2>1
  <2>2. CASE id # c.id
    <3>1. id \in Waited
      BY <1>7, <2>2
    <3> QED BY <1>1, <1>4, <1>8, <3>1 DEF TabInv, NoneForgotten
  <2> QED BY <2>1, <2>2
<1>12. Generations'
  <2>1. UNCHANGED <<generation, initialized, restarts>> /\ initialized
    BY <1>1
  <2>2. job.generation = generation /\ generation \in Int
    BY <1>3 DEF IInv, Typed
  <2>3. \A i \in 1 .. Len(jobs') : jobs'[i].generation =< generation
    <3> SUFFICES ASSUME NEW i \in 1 .. Len(jobs') PROVE jobs'[i].generation =< generation
      OBVIOUS
    <3>1. CASE i \in 1 .. Len(jobs) /\ jobs'[i] = jobs[i]
      BY <3>1 DEF TabInv, Generations
    <3>2. CASE jobs'[i] = job
      BY <2>2, <3>2
    <3> QED BY <1>4, <3>1, <3>2
  <2> QED BY <2>1, <2>3 DEF TabInv, Generations
<1>13. Table'
  <2>1. IsFiniteSet(Active') /\ Cardinality(Active') = Cardinality(Active) + 1
    BY <1>1, <1>6, FS_AddElement DEF TabInv, Table
  <2>2. Cardinality(Active) \in Nat
    BY FS_CardinalityType DEF TabInv, Table
  <2>3. Cardinality(Active') =< MaxOperations
    BY <1>1, <2>1, <2>2, BoundAssumption
  <2>4. \A id \in Active : operations[id].number \in Int /\ operations[id].number =< sequence
    BY NoOperationIsNone DEF TabInv, Table, Active, Operation
  <2>5. \A id \in Active' : operations'[id].command.id = id /\ operations'[id].number =< sequence'
    BY <1>1, <1>2, <1>3, <1>5, <1>6, <2>4 DEF TabInv, Table
  <2> QED BY <1>1, <1>5, <2>1, <2>3, <2>5 DEF TabInv, Table
<1>14. Fenced'
  <2>0. \A id \in Active : operations[id].number \in Int /\ operations[id].number =< sequence
    BY NoOperationIsNone DEF TabInv, Table, Active, Operation
  <2>1. \A k \in Keys : fences[k] \in Seq(Ids)
    BY DEF TabInv, Fenced
  <2>2. fences' \in [Keys -> Seq(Ids)]
    BY <1>1, <1>2, <2>1 DEF AddFences
  <2>3. \A k \in Keys : k \notin c.keys => fences'[k] = fences[k]
    BY <1>1 DEF AddFences
  <2>4. ASSUME NEW k \in Keys, k \in c.keys
        PROVE  /\ Len(fences[k]) \in Nat
               /\ \A i \in 1 .. Len(fences[k]) : i \in 1 .. Len(fences'[k]) /\ fences'[k][i] = fences[k][i]
               /\ Len(fences[k]) + 1 \in 1 .. Len(fences'[k]) /\ fences'[k][Len(fences[k]) + 1] = c.id
               /\ \A i \in 1 .. Len(fences'[k]) :
                    \/ i \in 1 .. Len(fences[k]) /\ fences'[k][i] = fences[k][i]
                    \/ i = Len(fences[k]) + 1 /\ fences'[k][i] = c.id
    <3>1. fences'[k] = Append(fences[k], c.id)
      BY <1>1, <2>4 DEF AddFences
    <3> QED BY <1>2, <2>1, <3>1, Appended
  <2>5. ASSUME NEW k \in Keys
        PROVE  /\ \A i \in 1 .. Len(fences'[k]) :
                    fences'[k][i] \in Active' /\ k \in operations'[fences'[k][i]].command.keys
               /\ \A i, j \in 1 .. Len(fences'[k]) :
                    i < j => operations'[fences'[k][i]].number < operations'[fences'[k][j]].number
    <3>1. /\ \A i \in 1 .. Len(fences[k]) :
                    fences[k][i] \in Active /\ k \in operations[fences[k][i]].command.keys
          /\ \A i, j \in 1 .. Len(fences[k]) :
                    i < j => operations[fences[k][i]].number < operations[fences[k][j]].number
      BY DEF TabInv, Fenced
    <3>2. CASE k \notin c.keys
      BY <1>6, <2>3, <3>1, <3>2
    <3>3. CASE k \in c.keys
      <4>1. /\ \A i \in 1 .. Len(fences[k]) : /\ fences'[k][i] = fences[k][i]
                                             /\ fences[k][i] \in Active'
                                             /\ operations'[fences[k][i]] = operations[fences[k][i]]
            /\ fences'[k][Len(fences[k]) + 1] = c.id /\ c.id \in Active' /\ operations'[c.id] = op
        BY <1>5, <1>6, <2>4, <3>1, <3>3
      <4>2. \A i \in 1 .. Len(fences'[k]) :
              fences'[k][i] \in Active' /\ k \in operations'[fences'[k][i]].command.keys
        BY <1>2, <1>3, <2>4, <3>1, <3>3, <4>1
      <4>3. ASSUME NEW i \in 1 .. Len(fences'[k]), NEW j \in 1 .. Len(fences'[k]), i < j
            PROVE  operations'[fences'[k][i]].number < operations'[fences'[k][j]].number
        <5>1. i \in 1 .. Len(fences[k])
          BY <2>4, <3>3, <4>3
        <5>2. CASE j \in 1 .. Len(fences[k])
          BY <3>1, <4>1, <4>3, <5>1, <5>2
        <5>3. CASE j = Len(fences[k]) + 1
          BY <1>1, <1>3, <2>0, <3>1, <4>1, <5>1, <5>3, SMTT(30)
        <5> QED BY <2>4, <3>3, <5>2, <5>3
      <4> QED BY <4>2, <4>3
    <3> QED BY <3>2, <3>3
  <2>6. ASSUME NEW id \in Active', NEW k \in operations'[id].command.keys
        PROVE  \E i \in 1 .. Len(fences'[k]) : fences'[k][i] = id
    <3>1. CASE id = c.id
      BY <1>2, <1>3, <1>5, <2>4, <2>6, <3>1
    <3>2. CASE id # c.id
      <4>1. id \in Active /\ k \in operations[id].command.keys
        BY <1>6, <2>6, <3>2
      <4>2. k \in Keys /\ \E i \in 1 .. Len(fences[k]) : fences[k][i] = id
        BY <4>1, NoOperationIsNone DEF TabInv, Fenced, Table, Active, Operation, Command
      <4> QED BY <2>3, <2>4, <4>2
    <3> QED BY <3>1, <3>2
  <2> QED BY <2>2, <2>5, <2>6 DEF Fenced
<1> QED BY <1>10, <1>11, <1>12, <1>13, <1>14 DEF TabInv

\* The completions not yet pulsed and the job that is about to deliver answer different
\* operations, so that there is room for one more.
LEMMA RoomToDeliver ==
  ASSUME TabInv, NEW id \in Active, \A i \in 1 .. Len(delivery) : delivery[i].id # id
  PROVE  Len(delivery) < MaxResults
<1> DEFINE s == [i \in 1 .. Len(delivery) |-> delivery[i].id]
           A == {delivery[i].id : i \in 1 .. Len(delivery)}
<1>1. /\ Len(delivery) \in Nat
      /\ \A i \in 1 .. Len(delivery) : delivery[i] \in Completion
  BY DEF TabInv, Table
<1>2. s \in [1 .. Len(delivery) -> Ids] /\ \A i \in 1 .. Len(delivery) : s[i] = delivery[i].id
  BY <1>1 DEF Completion
<1> HIDE DEF s
<1>3. s \in Seq(Ids) /\ Len(s) = Len(delivery)
  BY <1>1, <1>2
<1>4. Cardinality(A) = Len(delivery)
  <2>1. \A i, j \in 1 .. Len(s) : s[i] = s[j] => i = j
    BY <1>2, <1>3 DEF TabInv, Answering
  <2>2. \A x : x \in A <=> \E i \in 1 .. Len(s) : s[i] = x
    BY <1>2, <1>3
  <2> HIDE DEF A
  <2> QED BY <1>3, <2>1, <2>2, Counted
<1>5. A \subseteq Active \ {id}
  BY DEF TabInv, Answering, Waited
<1> HIDE DEF A
<1>6. IsFiniteSet(Active) /\ Cardinality(Active) =< MaxOperations /\ Cardinality(Active) \in Nat
  BY FS_CardinalityType DEF TabInv, Table
<1>7. IsFiniteSet(Active \ {id}) /\ Cardinality(Active \ {id}) = Cardinality(Active) - 1
  BY <1>6, FS_RemoveElement
<1>8. Cardinality(A) =< Cardinality(Active \ {id})
  BY <1>5, <1>7, FS_Subset
<1> QED BY <1>1, <1>4, <1>6, <1>7, <1>8, BoundAssumption

LEMMA DeliverKeepsTable ==
  ASSUME IInv, TabInv, Deliver
  PROVE  TabInv'
<1>1. /\ UNCHANGED <<initialized, generation, operations, fences, sequence, jobs, restarts>>
      /\ stage = "applied" /\ stage' = "delivered" /\ result \in Answers
      /\ 1 \in 1 .. Len(jobs) /\ Head(jobs) = jobs[1] /\ Current = jobs[1].command
      /\ jobs[1].command.id \in Ids
  <2>1. taken
    BY DEF Deliver, IInv, Typed
  <2>2. 1 \in 1 .. Len(jobs) /\ Head(jobs) = jobs[1] /\ Current = jobs[1].command
    BY <2>1, CurrentIsFirst
  <2> QED BY <2>2, JobsTyped DEF Deliver, writer
<1>2. Active' = Active /\ Waited' = Waited
  BY <1>1 DEF Active, Waited
<1>3. Undelivered' = Undelivered \ {1} /\ (1 \in Undelivered <=> jobs[1].generation = generation)
  BY <1>1 DEF Undelivered
<1>4. Generations' /\ Fenced'
  BY <1>1, <1>2 DEF TabInv, Generations, Fenced
<1>5. CASE 1 \notin Undelivered
  <2>1. delivery' = delivery
    BY <1>1, <1>3, <1>5 DEF Deliver, ForThisCoordinator
  <2>2. Undelivered' = Undelivered
    BY <1>3, <1>5
  <2>3. Answering' /\ NoneForgotten' /\ Table'
    BY <1>1, <1>2, <2>1, <2>2 DEF TabInv, Answering, NoneForgotten, Table
  <2> QED BY <1>4, <2>3 DEF TabInv
<1>6. CASE 1 \in Undelivered
  <2> DEFINE d == [id |-> jobs[1].command.id, answer |-> result]
  <2>1. /\ jobs[1].command.id \in Waited /\ jobs[1].command.id \in Active
        /\ \A i \in 1 .. Len(delivery) : delivery[i].id # jobs[1].command.id
        /\ \A i \in Undelivered : i # 1 => jobs[i].command.id # jobs[1].command.id
    BY <1>6 DEF TabInv, Answering, Waited
  <2>2. initialized
    BY <1>1, <1>3, <1>6, JobsTyped DEF TabInv, Generations
  <2>3. delivery' = Append(delivery, d)
    BY <1>1, <1>3, <1>6, <2>1, <2>2, RoomToDeliver DEF Deliver, ForThisCoordinator
  <2>4. d \in Completion /\ d.id = jobs[1].command.id
    BY <1>1 DEF Completion
  <2> HIDE DEF d
  <2>5. /\ delivery' \in Seq(Completion) /\ Len(delivery) \in Nat
        /\ Len(delivery') = Len(delivery) + 1
        /\ \A i \in 1 .. Len(delivery) : i \in 1 .. Len(delivery') /\ delivery'[i] = delivery[i]
        /\ Len(delivery) + 1 \in 1 .. Len(delivery') /\ delivery'[Len(delivery) + 1] = d
        /\ \A i \in 1 .. Len(delivery') : \/ i \in 1 .. Len(delivery) /\ delivery'[i] = delivery[i]
                                          \/ i = Len(delivery) + 1 /\ delivery'[i] = d
    <3>1. delivery \in Seq(Completion)
      BY DEF TabInv, Table
    <3> QED BY <2>3, <2>4, <3>1, Appended
  <2>6. Answering'
    <3>1. \A i \in Undelivered' :
            jobs'[i].command.id \in Waited' /\ operations'[jobs'[i].command.id].command = jobs'[i].command
      BY <1>1, <1>2, <1>3 DEF TabInv, Answering
    <3>2. \A i, j \in Undelivered' : jobs'[i].command.id = jobs'[j].command.id => i = j
      BY <1>1, <1>3 DEF TabInv, Answering
    <3>3. \A i \in 1 .. Len(delivery') : delivery'[i].id \in Waited'
      BY <1>2, <2>1, <2>4, <2>5 DEF TabInv, Answering
    <3>4. \A i, j \in 1 .. Len(delivery') : delivery'[i].id = delivery'[j].id => i = j
      BY <2>1, <2>4, <2>5 DEF TabInv, Answering
    <3>5. \A i \in Undelivered', j \in 1 .. Len(delivery') : jobs'[i].command.id # delivery'[j].id
      BY <1>1, <1>3, <2>1, <2>4, <2>5 DEF TabInv, Answering
    <3> QED BY <3>1, <3>2, <3>3, <3>4, <3>5 DEF Answering
  <2>7. NoneForgotten'
    <3> SUFFICES ASSUME NEW id \in Waited
                 PROVE  \/ \E i \in Undelivered' : jobs[i].command.id = id
                        \/ \E j \in 1 .. Len(delivery') : delivery'[j].id = id
      BY <1>1, <1>2 DEF NoneForgotten
    <3>1. CASE \E i \in Undelivered : jobs[i].command.id = id
      BY <1>3, <2>4, <2>5, <3>1
    <3>2. CASE \E j \in 1 .. Len(delivery) : delivery[j].id = id
      BY <2>5, <3>2
    <3> QED BY <3>1, <3>2 DEF TabInv, NoneForgotten
  <2>8. Table'
    BY <1>1, <1>2, <2>5 DEF TabInv, Table
  <2> QED BY <1>4, <2>6, <2>7, <2>8 DEF TabInv
<1> QED BY <1>5, <1>6

LEMMA FinishKeepsTable ==
  ASSUME IInv, TabInv, FinishJob
  PROVE  TabInv'
<1>1. /\ UNCHANGED <<initialized, generation, operations, fences, delivery, sequence, restarts>>
      /\ stage = "delivered" /\ stage' = "idle"
      /\ jobs' = Tail(jobs) /\ jobs \in Seq(AnyJob) /\ jobs # <<>>
  BY DEF FinishJob, Writer!Finish, coordinator, IInv, Typed
<1>9. UNCHANGED <<operations, delivery>>
  BY <1>1
<1>2. Active' = Active /\ Waited' = Waited
  BY <1>1 DEF Active, Waited
<1>3. /\ Len(jobs) \in Nat /\ Len(jobs') = Len(jobs) - 1
      /\ \A i \in 1 .. Len(jobs') : i + 1 \in 1 .. Len(jobs) /\ jobs'[i] = jobs[i + 1]
      /\ \A i \in 1 .. Len(jobs) : i = 1 \/ (i - 1 \in 1 .. Len(jobs') /\ jobs'[i - 1] = jobs[i])
  BY <1>1, Tailed
<1>4. /\ \A i \in Undelivered' : i \in Int /\ i + 1 \in Undelivered /\ jobs'[i] = jobs[i + 1]
      /\ \A i \in Undelivered : i - 1 \in Undelivered' /\ jobs'[i - 1] = jobs[i]
  <2>1. 1 \notin Undelivered
    BY <1>1 DEF Undelivered
  <2>2. ASSUME NEW i \in Undelivered' PROVE i \in Int /\ i + 1 \in Undelivered /\ jobs'[i] = jobs[i + 1]
    <3>1. i \in 1 .. Len(jobs') /\ jobs'[i].generation = generation
      BY <1>1, <2>2 DEF Undelivered
    <3>2. i + 1 # 1 /\ i \in Int
      BY <1>3, <3>1
    <3> QED BY <1>3, <3>1, <3>2 DEF Undelivered
  <2>3. ASSUME NEW i \in Undelivered PROVE i - 1 \in Undelivered' /\ jobs'[i - 1] = jobs[i]
    <3>1. i \in 1 .. Len(jobs) /\ jobs[i].generation = generation /\ i # 1
      BY <2>1, <2>3 DEF Undelivered
    <3>2. i - 1 \in 1 .. Len(jobs') /\ jobs'[i - 1] = jobs[i]
      BY <1>3, <3>1
    <3> QED BY <1>1, <3>1, <3>2 DEF Undelivered
  <2> QED BY <2>2, <2>3
<1>5. Answering'
  <2>1. \A i \in Undelivered' :
          jobs'[i].command.id \in Waited' /\ operations'[jobs'[i].command.id].command = jobs'[i].command
    BY <1>2, <1>4, <1>9 DEF TabInv, Answering
  <2>2. \A i, j \in Undelivered' : jobs'[i].command.id = jobs'[j].command.id => i = j
    <3>1. \A i, j \in Undelivered' : jobs'[i].command.id = jobs'[j].command.id => i + 1 = j + 1
      BY <1>4 DEF TabInv, Answering
    <3> QED BY <1>4, <3>1
  <2>3. \A i \in Undelivered', j \in 1 .. Len(delivery') : jobs'[i].command.id # delivery'[j].id
    BY <1>4, <1>9 DEF TabInv, Answering
  <2> QED BY <1>2, <1>9, <2>1, <2>2, <2>3 DEF TabInv, Answering
<1>6. NoneForgotten'
  BY <1>2, <1>4, <1>9 DEF TabInv, NoneForgotten
<1>7. Generations'
  BY <1>1, <1>3 DEF TabInv, Generations
<1>8. Table' /\ Fenced'
  BY <1>1, <1>2 DEF TabInv, Table, Fenced
<1> QED BY <1>5, <1>6, <1>7, <1>8 DEF TabInv

\* An empty table, and no job that could answer it
LEMMA ClearedTable ==
  ASSUME ClearCoordinator, Undelivered' = {}
  PROVE  Answering' /\ NoneForgotten' /\ Table' /\ Fenced'
<1>1. /\ Active' = {} /\ Waited' = {} /\ delivery' = <<>> /\ 1 .. Len(delivery') = {}
      /\ operations' \in [Ids -> {NoOperation} \cup Operation]
  BY DEF ClearCoordinator, Active, Waited
<1>2. IsFiniteSet(Active') /\ Cardinality(Active') =< MaxOperations
  BY <1>1, FS_EmptySet, BoundAssumption
<1>3. Answering' /\ NoneForgotten' /\ Table'
  BY <1>1, <1>2 DEF Answering, NoneForgotten, Table
<1>4. \A k \in Keys : fences'[k] = <<>> /\ 1 .. Len(fences'[k]) = {}
  BY DEF ClearCoordinator
<1>5. fences' \in [Keys -> Seq(Ids)]
  BY DEF ClearCoordinator
<1> QED BY <1>1, <1>3, <1>4, <1>5 DEF Fenced

LEMMA RestartKeepsTable ==
  ASSUME IInv, TabInv, Shutdown \/ Initialize \/ Crash,
         restarts \in Nat
  PROVE  TabInv'
<1>1. CASE Shutdown \/ Initialize
  <2>1. /\ jobs' = jobs /\ generation' = generation + 1 /\ generation \in Int
        /\ \A i \in 1 .. Len(jobs) : jobs[i].generation \in Int
    BY <1>1, JobsTyped DEF Shutdown, Initialize, writer, IInv, Typed
  <2>2. \A i \in 1 .. Len(jobs) : jobs[i].generation < generation'
    BY <2>1 DEF TabInv, Generations
  <2>3. Undelivered' = {}
    BY <2>1, <2>2 DEF Undelivered
  <2>4. Generations'
    <3>1. CASE Shutdown
      BY <2>1, <2>2, <3>1, SMTT(30) DEF TabInv, Generations, Shutdown
    <3>2. CASE Initialize
      BY <2>1, <2>2, <3>2 DEF TabInv, Generations, Initialize
    <3> QED BY <1>1, <3>1, <3>2
  <2> QED BY <1>1, <2>3, <2>4, ClearedTable DEF TabInv, Shutdown, Initialize
<1>2. CASE Crash
  <2>1. /\ jobs' = <<>> /\ 1 .. Len(jobs') = {} /\ generation' = 1 /\ restarts' = restarts + 1
        /\ initialized' = TRUE /\ ClearCoordinator
    BY <1>2 DEF Crash
  <2>2. Undelivered' = {}
    BY <2>1 DEF Undelivered
  <2>3. Generations'
    BY <2>1 DEF Generations
  <2> QED BY <2>1, <2>2, <2>3, ClearedTable DEF TabInv
<1> QED BY <1>1, <1>2

\* The fences of operations that left the table go with them, the others stay in order.
LEMMA FewerFences ==
  ASSUME TabInv, NEW gone, fences' = RemoveFences(gone), Active' = Active \ gone,
         \A id \in Active' : /\ operations'[id].command = operations[id].command
                             /\ operations'[id].number = operations[id].number
  PROVE  Fenced'
<1> DEFINE K(k) == {i \in DOMAIN fences[k] : fences[k][i] \notin gone}
<1>1. \A k \in Keys : fences[k] \in Seq(Ids)
  BY DEF TabInv, Fenced
<1>2. \A k \in Keys : K(k) \subseteq 1 .. Len(fences[k])
                      /\ \A i \in 1 .. Len(fences[k]) : i \in K(k) <=> fences[k][i] \notin gone
  BY <1>1
<1>3. fences' = [k \in Keys |-> Kept(fences[k], K(k))]
  BY DEF RemoveFences
<1> HIDE DEF K
<1>4. ASSUME NEW k \in Keys
      PROVE  /\ fences'[k] \in Seq(Ids)
             /\ Comes(fences[k], K(k), fences'[k])
             /\ Stays(fences[k], K(k), fences'[k])
             /\ Ordered(fences[k], K(k), fences'[k])
  BY <1>1, <1>2, <1>3, KeptOnes
<1>5. fences' \in [Keys -> Seq(Ids)]
  <2>1. \A k \in Keys : fences'[k] \in Seq(Ids)
    BY <1>4
  <2> QED BY <1>3, <2>1
<1>6. ASSUME NEW k \in Keys, NEW i \in 1 .. Len(fences'[k])
      PROVE  fences'[k][i] \in Active' /\ k \in operations'[fences'[k][i]].command.keys
  <2>1. PICK a \in K(k) : fences'[k][i] = fences[k][a]
    BY <1>4 DEF Comes
  <2>2. a \in 1 .. Len(fences[k]) /\ fences[k][a] \notin gone
    BY <1>2
  <2> QED BY <2>1, <2>2 DEF TabInv, Fenced
<1>7. ASSUME NEW id \in Active', NEW k \in operations'[id].command.keys
      PROVE  \E i \in 1 .. Len(fences'[k]) : fences'[k][i] = id
  <2>1. id \in Active /\ id \notin gone /\ k \in operations[id].command.keys
    BY <1>7
  <2>2. k \in Keys
    BY <2>1, NoOperationIsNone DEF TabInv, Table, Active, Operation, Command
  <2>3. PICK a \in 1 .. Len(fences[k]) : fences[k][a] = id
    BY <2>1 DEF TabInv, Fenced
  <2>4. a \in K(k)
    BY <1>2, <2>1, <2>2, <2>3
  <2> QED BY <1>4, <2>2, <2>3, <2>4 DEF Stays
<1>8. ASSUME NEW k \in Keys, NEW i \in 1 .. Len(fences'[k]), NEW j \in 1 .. Len(fences'[k]), i < j
      PROVE  operations'[fences'[k][i]].number < operations'[fences'[k][j]].number
  <2>1. PICK a, b \in K(k) : a < b /\ fences'[k][i] = fences[k][a] /\ fences'[k][j] = fences[k][b]
    BY <1>4, <1>8 DEF Ordered
  <2>2. a \in 1 .. Len(fences[k]) /\ b \in 1 .. Len(fences[k])
    BY <1>2
  <2>3. operations[fences[k][a]].number < operations[fences[k][b]].number
    BY <2>1, <2>2 DEF TabInv, Fenced
  <2> QED BY <1>6, <2>1, <2>3
<1> QED BY <1>5, <1>6, <1>7, <1>8 DEF Fenced

LEMMA AcknowledgeKeepsTable ==
  ASSUME IInv, TabInv, NEW id \in Ids, Acknowledge(id)
  PROVE  TabInv'
<1>1. /\ UNCHANGED <<initialized, generation, delivery, sequence, jobs, stage, restarts>>
      /\ id \in Active /\ operations[id].pending
      /\ operations' = [operations EXCEPT ![id] = NoOperation]
      /\ fences' = RemoveFences({id})
  BY DEF Acknowledge, writer
<1>2. /\ operations' \in [Ids -> {NoOperation} \cup Operation]
      /\ operations'[id] = NoOperation
      /\ \A x \in Ids : x # id => operations'[x] = operations[x]
  BY <1>1 DEF TabInv, Table
<1>3. Active' = Active \ {id} /\ Undelivered' = Undelivered
  BY <1>1, <1>2 DEF Active, Undelivered
<1>4. Waited' = Waited /\ id \notin Waited /\ Waited \subseteq Ids
  BY <1>1, <1>2, <1>3 DEF Waited, Active
<1>5. Fenced'
  BY <1>1, <1>2, <1>3, FewerFences DEF Active
<1>6. Answering' /\ NoneForgotten'
  BY <1>1, <1>2, <1>3, <1>4 DEF TabInv, Answering, NoneForgotten
<1>7. Table'
  <2>1. IsFiniteSet(Active') /\ Cardinality(Active') =< Cardinality(Active)
        /\ Cardinality(Active') \in Nat /\ Cardinality(Active) \in Nat
    BY <1>3, FS_Subset, FS_CardinalityType DEF TabInv, Table
  <2>2. Cardinality(Active') =< MaxOperations
    BY <2>1, BoundAssumption DEF TabInv, Table
  <2> QED BY <1>1, <1>2, <1>3, <2>1, <2>2 DEF TabInv, Table, Active
<1>8. Generations'
  BY <1>1 DEF TabInv, Generations
<1> QED BY <1>5, <1>6, <1>7, <1>8 DEF TabInv

\* No completion is stale: a pulse takes the answers of the first n.
Ended(n) == {i \in 1 .. n : ~KeepsFence(delivery[i].id)}

LEMMA PulseAnswers ==
  ASSUME TabInv, NEW n \in 1 .. Len(delivery), PulseTakes(n)
  PROVE  /\ n \in Nat /\ \A i \in 1 .. n : i \in 1 .. Len(delivery) /\ delivery[i].id \in Waited
         /\ operations' = [id \in Ids |-> AfterPulse(id, 1 .. n)]
         /\ fences' = RemoveFences({delivery[i].id : i \in Ended(n)})
         /\ completed' = Remembered(Kept([i \in 1 .. n |-> Entry(i)], Ended(n)))
         /\ reported' = reported \cup {Entry(i) : i \in 1 .. n}
         /\ delivery' = SubSeq(delivery, n + 1, Len(delivery))
<1>1. Len(delivery) \in Nat
  BY DEF TabInv, Table
<1>2. n \in Nat /\ \A i \in 1 .. n : /\ i \in 1 .. Len(delivery)
                                     /\ \A j \in 1 .. i - 1 : j \in 1 .. Len(delivery) /\ j # i
  BY <1>1
<1>3. \A i \in 1 .. n : delivery[i].id \in Waited
  BY <1>2 DEF TabInv, Answering
<1>4. ASSUME NEW i \in 1 .. n PROVE Fresh(i)
  <2>1. \A j \in 1 .. i - 1 : delivery[j].id # delivery[i].id
    BY <1>2 DEF TabInv, Answering
  <2>2. delivery[i].id \in Active /\ ~operations[delivery[i].id].pending
    BY <1>3 DEF Waited
  <2> QED BY <2>1, <2>2 DEF Fresh
<1>5. {i \in 1 .. n : Fresh(i)} = 1 .. n
  BY <1>4
<1>6. Ended(n) = {i \in {i \in 1 .. n : Fresh(i)} : ~KeepsFence(delivery[i].id)}
  BY <1>5 DEF Ended
<1> QED BY <1>2, <1>3, <1>5, <1>6, Zenon DEF PulseTakes

LEMMA PulsedOperations ==
  ASSUME TabInv, NEW n \in 1 .. Len(delivery), PulseTakes(n)
  PROVE  /\ \A id \in Ids : (\A i \in 1 .. n : delivery[i].id # id) => operations'[id] = operations[id]
         /\ \A i \in 1 .. n : KeepsFence(delivery[i].id) =>
              operations'[delivery[i].id] = [operations[delivery[i].id] EXCEPT
                                               !.pending = TRUE, !.answer = delivery[i].answer]
         /\ \A i \in 1 .. n : ~KeepsFence(delivery[i].id) =>
              operations'[delivery[i].id] = NoOperation
<1>1. /\ \A i \in 1 .. n : i \in 1 .. Len(delivery) /\ delivery[i].id \in Waited
      /\ operations' = [id \in Ids |-> AfterPulse(id, 1 .. n)]
  BY PulseAnswers
<1>2. \A i \in 1 .. n : delivery[i].id \in Ids
  BY <1>1 DEF Waited, Active
<1>3. ASSUME NEW id \in Ids, \A i \in 1 .. n : delivery[i].id # id
      PROVE  operations'[id] = operations[id]
  BY <1>1, <1>3 DEF AfterPulse
<1>4. ASSUME NEW i \in 1 .. n
      PROVE  (CHOOSE j \in 1 .. n : delivery[j].id = delivery[i].id) = i
  <2>1. \A j \in 1 .. n : delivery[j].id = delivery[i].id => j = i
    BY <1>1 DEF TabInv, Answering
  <2> QED BY <2>1
<1>5. ASSUME NEW i \in 1 .. n
      PROVE  operations'[delivery[i].id] = AfterPulse(delivery[i].id, 1 .. n)
  BY <1>1, <1>2
<1>6. ASSUME NEW i \in 1 .. n, KeepsFence(delivery[i].id)
      PROVE  operations'[delivery[i].id] = [operations[delivery[i].id] EXCEPT
                                              !.pending = TRUE, !.answer = delivery[i].answer]
  <2>1. AfterPulse(delivery[i].id, 1 .. n) =
          [operations[delivery[i].id] EXCEPT
             !.pending = TRUE,
             !.answer = delivery[CHOOSE j \in 1 .. n : delivery[j].id = delivery[i].id].answer]
    BY <1>6, Zenon DEF AfterPulse
  <2> QED BY <1>4, <1>5, <2>1, Zenon
<1>7. ASSUME NEW i \in 1 .. n, ~KeepsFence(delivery[i].id)
      PROVE  operations'[delivery[i].id] = NoOperation
  <2>1. AfterPulse(delivery[i].id, 1 .. n) = NoOperation
    BY <1>7 DEF AfterPulse
  <2> QED BY <1>5, <2>1
<1> QED BY <1>3, <1>6, <1>7

LEMMA PulseKeepsTable ==
  ASSUME IInv, TabInv, NEW n \in 1 .. Len(delivery), PulseTakes(n),
         UNCHANGED <<initialized, generation, sequence, jobs, stage, restarts>>
  PROVE  TabInv'
<1> DEFINE done == {delivery[i].id : i \in 1 .. n}
           gone == {delivery[i].id : i \in Ended(n)}
<1>1. /\ n \in Nat /\ \A i \in 1 .. n : i \in 1 .. Len(delivery) /\ delivery[i].id \in Waited
      /\ fences' = RemoveFences(gone)
  BY PulseAnswers
<1>2. /\ delivery' \in Seq(Completion) /\ Len(delivery) \in Nat /\ Len(delivery') = Len(delivery) - n
      /\ \A i \in 1 .. Len(delivery') : i + n \in 1 .. Len(delivery) /\ delivery'[i] = delivery[i + n]
      /\ \A i \in n + 1 .. Len(delivery) : i - n \in 1 .. Len(delivery') /\ delivery'[i - n] = delivery[i]
  <2>1. delivery \in Seq(Completion) /\ Len(delivery) \in Nat
    BY DEF TabInv, Table
  <2>2. n \in 0 .. Len(delivery)
    BY <2>1
  <2>3. delivery' = SubSeq(delivery, n + 1, Len(delivery))
    BY PulseAnswers
  <2> QED BY <2>1, <2>2, <2>3, Dropped
<1>3. /\ \A id \in Ids : id \notin done => operations'[id] = operations[id]
      /\ \A id \in done : id \in Waited /\ id \in Active /\ id \in Ids
      /\ \A id \in done : id \in gone <=> ~KeepsFence(id)
      /\ gone \subseteq done
  <2>1. \A id \in Ids : (\A i \in 1 .. n : delivery[i].id # id) => operations'[id] = operations[id]
    BY PulsedOperations
  <2> QED BY <1>1, <2>1 DEF Ended, Waited, Active
<1>4. \A id \in gone : operations'[id] = NoOperation
  <2>1. \A i \in 1 .. n : ~KeepsFence(delivery[i].id) => operations'[delivery[i].id] = NoOperation
    BY PulsedOperations
  <2> QED BY <2>1 DEF Ended
<1>5. ASSUME NEW id \in done, id \notin gone
      PROVE  /\ operations'[id] \in Operation /\ operations'[id].pending
             /\ operations'[id].command = operations[id].command
             /\ operations'[id].number = operations[id].number
  <2>1. PICK i \in 1 .. n : id = delivery[i].id
    OBVIOUS
  <2>2. operations'[id] = [operations[id] EXCEPT !.pending = TRUE, !.answer = delivery[i].answer]
    BY <1>3, <1>5, <2>1, PulsedOperations
  <2>3. operations[id] \in Operation
    BY <1>3 DEF TabInv, Table, Active
  <2>4. delivery[i].answer \in Answers
    <3>1. delivery[i] \in Completion
      BY <1>1 DEF TabInv, Table
    <3> QED BY <3>1 DEF Completion
  <2> QED BY <2>2, <2>3, <2>4 DEF Operation
<1> HIDE DEF done, gone
<1>6. operations' \in [Ids -> {NoOperation} \cup Operation]
  <2>1. operations' = [id \in Ids |-> AfterPulse(id, 1 .. n)]
    BY PulseAnswers
  <2>2. \A id \in Ids : operations'[id] \in {NoOperation} \cup Operation
    <3>1. \A id \in Ids : operations[id] \in {NoOperation} \cup Operation
      BY DEF TabInv, Table
    <3> QED BY <1>3, <1>4, <1>5, <3>1
  <2> QED BY <2>1, <2>2
<1>7. Active' = Active \ gone
  <2>1. \A id \in Ids : id \in Active' <=> operations'[id] # NoOperation
    BY DEF Active
  <2>2. \A id \in Ids : id \in Active <=> operations[id] # NoOperation
    BY DEF Active
  <2>3. Active \subseteq Ids /\ Active' \subseteq Ids
    BY DEF Active
  <2>4. \A id \in Ids : id \in Active' <=> id \in Active /\ id \notin gone
    BY <1>3, <1>4, <1>5, <2>1, <2>2, NoOperationIsNone
  <2> QED BY <2>3, <2>4
<1>8. Waited' = Waited \ done
  <2>1. Active \subseteq Ids
    BY DEF Active
  <2> QED BY <1>3, <1>5, <1>7, <2>1 DEF Waited
<1>9. Undelivered' = Undelivered
  BY DEF Undelivered
<1>10. \A id : id \in done <=> \E i \in 1 .. n : delivery[i].id = id
  BY DEF done
<1>11. \A i \in 1 .. Len(delivery) : i \in 1 .. n \/ i \in n + 1 .. Len(delivery)
  BY <1>1, <1>2
<1>12. \A i \in 1 .. Len(delivery') : delivery'[i].id \notin done
  <2> SUFFICES ASSUME NEW i \in 1 .. Len(delivery'), NEW j \in 1 .. n
               PROVE  delivery'[i].id # delivery[j].id
    BY <1>10
  <2>1. i + n # j
    BY <1>1, <1>2
  <2> QED BY <1>1, <1>2, <2>1 DEF TabInv, Answering
<1>13. Answering'
  <2>1. \A i \in Undelivered : jobs[i].command.id \notin done
    BY <1>1, <1>10 DEF TabInv, Answering
  <2>2. \A i \in Undelivered : /\ jobs[i].command.id \in Waited'
                               /\ operations'[jobs[i].command.id].command = jobs[i].command
    <3>1. Waited \subseteq Ids
      BY DEF Waited, Active
    <3> QED BY <1>3, <1>8, <2>1, <3>1 DEF TabInv, Answering
  <2>3. \A i \in 1 .. Len(delivery') : delivery'[i].id \in Waited'
    BY <1>2, <1>8, <1>12 DEF TabInv, Answering
  <2>4. \A i, j \in 1 .. Len(delivery') : delivery'[i].id = delivery'[j].id => i = j
    <3>1. \A i, j \in 1 .. Len(delivery') : delivery'[i].id = delivery'[j].id => i + n = j + n
      BY <1>2, SMTT(30) DEF TabInv, Answering
    <3> QED BY <1>1, <1>2, <3>1
  <2>5. \A i \in Undelivered, j \in 1 .. Len(delivery') : jobs[i].command.id # delivery'[j].id
    BY <1>2 DEF TabInv, Answering
  <2> QED BY <1>9, <2>2, <2>3, <2>4, <2>5 DEF TabInv, Answering
<1>14. NoneForgotten'
  <2> SUFFICES ASSUME NEW id \in Waited, id \notin done
               PROVE  \/ \E i \in Undelivered : jobs[i].command.id = id
                      \/ \E j \in 1 .. Len(delivery') : delivery'[j].id = id
    BY <1>8, <1>9 DEF NoneForgotten
  <2>1. CASE \E j \in 1 .. Len(delivery) : delivery[j].id = id
    <3>1. PICK j \in 1 .. Len(delivery) : delivery[j].id = id
      BY <2>1
    <3>2. j \in n + 1 .. Len(delivery)
      BY <1>10, <1>11, <3>1
    <3> QED BY <1>2, <3>1, <3>2
  <2> QED BY <2>1 DEF TabInv, NoneForgotten
<1>15. Generations'
  BY DEF TabInv, Generations
<1>16. \A id \in Active' : /\ operations'[id].command = operations[id].command
                           /\ operations'[id].number = operations[id].number
  <2>1. Active' \subseteq Ids
    BY DEF Active
  <2> QED BY <1>3, <1>5, <1>7, <2>1
<1>17. Table'
  <2>1. IsFiniteSet(Active') /\ Cardinality(Active') =< Cardinality(Active)
        /\ Cardinality(Active') \in Nat /\ Cardinality(Active) \in Nat
    BY <1>7, FS_Subset, FS_CardinalityType DEF TabInv, Table
  <2>2. Cardinality(Active') =< MaxOperations
    BY <2>1, BoundAssumption DEF TabInv, Table
  <2> QED BY <1>2, <1>6, <1>7, <1>16, <2>1, <2>2 DEF TabInv, Table
<1>18. Fenced'
  BY <1>1, <1>7, <1>16, FewerFences
<1> QED BY <1>13, <1>14, <1>15, <1>17, <1>18 DEF TabInv

LEMMA StepTabInv ==
  IInv /\ OrderInv /\ TabInv /\ restarts \in Nat /\ [Next]_vars => TabInv'
<1> SUFFICES ASSUME IInv, OrderInv, TabInv, restarts \in Nat, [Next]_vars PROVE TabInv'
  OBVIOUS
<1>1. ASSUME UNCHANGED <<coordinator, sequence, jobs, restarts>>,
             (stage # "delivered" /\ stage' # "delivered") \/ stage' = stage
      PROVE  TabInv'
  BY <1>1, TabQuiet DEF coordinator
<1>2. ASSUME NEW c \in Commands, Submit(c) \/ Attach(c) PROVE TabInv'
  <2>1. CASE Submit(c)
    BY <2>1, SubmitKeepsTable
  <2>2. CASE Attach(c)
    BY <1>1, <2>2 DEF Attach, writer
  <2> QED BY <1>2, <2>1, <2>2
<1>3. CASE TakeJob
  BY <1>1, <1>3 DEF TakeJob, Writer!Take
<1>4. ASSUME NEW o \in {"retryable_failure", "failed"}, ApplyFails(o) PROVE TabInv'
  BY <1>1, <1>4 DEF ApplyFails, Answered, writer
<1>5. CASE ApplyDuplicate
  BY <1>1, <1>5 DEF ApplyDuplicate, Answered, writer
<1>6. ASSUME NEW rejected \in BOOLEAN, ApplyCommits(rejected) \/ ApplyAmbiguous(rejected)
      PROVE  TabInv'
  BY <1>1, <1>6 DEF ApplyCommits, ApplyAmbiguous, Answered, writer
<1>7. ASSUME NEW t \in limbo, LimboCommits(t) \/ LimboRollsBack(t) PROVE TabInv'
  BY <1>1, <1>7 DEF LimboCommits, LimboRollsBack, writer
<1>8. ASSUME NEW o \in ReconcileFailures \cup {"none"}, Reconcile(o) PROVE TabInv'
  BY <1>1, <1>8 DEF Reconcile, Answered, writer
<1>9. CASE Retry
  BY <1>1, <1>9 DEF Retry, writer
<1>10. CASE ConsumeJobs
  BY <1>1, <1>10 DEF ConsumeJobs, Writer!Consume
<1>11. CASE Pulse
  BY <1>11, PulseKeepsTable DEF Pulse, writer
<1>12. ASSUME NEW on \in BOOLEAN, SetAccepting(on) PROVE TabInv'
  <2>1. UNCHANGED <<initialized, generation, operations, fences, delivery, sequence, jobs, restarts,
                    stage>>
    BY <1>12 DEF SetAccepting, writer
  <2> QED BY <2>1, TabQuiet
<1>13. CASE UNCHANGED vars
  BY <1>1, <1>13 DEF vars, writer
<1> QED
  BY <1>2, <1>3, <1>4, <1>5, <1>6, <1>7, <1>8, <1>9, <1>10, <1>11, <1>12, <1>13,
     DeliverKeepsTable, FinishKeepsTable, AcknowledgeKeepsTable, RestartKeepsTable DEF Next

-----------------------------------------------------------------------------
(***************************************************************************)
(* The types of what the other invariants leave open.                      *)
(***************************************************************************)
Stages == {"idle", "applying", "reconciling", "applied", "delivered"}

Flags ==
  /\ initialized \in BOOLEAN /\ accepting \in BOOLEAN /\ open \in BOOLEAN /\ taken \in BOOLEAN
  /\ stage \in Stages /\ result \in Answers \cup Lost
  /\ sequence \in 0 .. MaxSubmits /\ losses \in 0 .. MaxLosses /\ restarts \in 0 .. MaxRestarts

LEMMA InitFlags == Init => Flags
<1> SUFFICES ASSUME Init PROVE Flags
  OBVIOUS
<1>1. initialized \in BOOLEAN /\ accepting \in BOOLEAN /\ open \in BOOLEAN /\ taken \in BOOLEAN
  BY DEF Init
<1>2. /\ stage \in Stages /\ result \in Answers \cup Lost
      /\ sequence \in 0 .. MaxSubmits /\ losses \in 0 .. MaxLosses /\ restarts \in 0 .. MaxRestarts
  BY BoundAssumption DEF Init, Stages, Answers, Succeeded
<1> QED BY <1>1, <1>2 DEF Flags

LEMMA StepFlags == Flags /\ [Next]_vars => Flags'
<1> SUFFICES ASSUME Flags, [Next]_vars PROVE Flags'
  OBVIOUS
<1> USE BoundAssumption DEF Stages, Answers, Succeeded, Lost
<1>1. ASSUME UNCHANGED <<initialized, accepting, open, sequence, losses, restarts>>,
             taken' \in BOOLEAN, stage' \in Stages, result' \in Answers \cup Lost
      PROVE  Flags'
  BY <1>1 DEF Flags
<1>2. ASSUME NEW c \in Commands, Submit(c) PROVE Flags'
  BY <1>2 DEF Submit, Flags, Writer!Put
<1>3. ASSUME NEW c \in Commands, Attach(c) PROVE Flags'
  BY <1>1, <1>3 DEF Attach, Flags, coordinator, writer
<1>4. CASE TakeJob
  BY <1>1, <1>4 DEF TakeJob, Flags, coordinator, Writer!Take
<1>5. ASSUME NEW o \in {"retryable_failure", "failed"}, ApplyFails(o) PROVE Flags'
  BY <1>1, <1>5 DEF ApplyFails, Answered, Flags, coordinator, writer
<1>6. CASE ApplyDuplicate
  BY <1>1, <1>6 DEF ApplyDuplicate, Answered, Stored, Flags, coordinator, writer
<1>7. ASSUME NEW rejected \in BOOLEAN, ApplyCommits(rejected) PROVE Flags'
  BY <1>1, <1>7 DEF ApplyCommits, Answered, Flags, coordinator, writer
<1>8. ASSUME NEW rejected \in BOOLEAN, ApplyAmbiguous(rejected) PROVE Flags'
  BY <1>8 DEF ApplyAmbiguous, Flags, coordinator, writer
<1>9. ASSUME NEW t \in limbo, LimboCommits(t) \/ LimboRollsBack(t) PROVE Flags'
  BY <1>1, <1>9 DEF LimboCommits, LimboRollsBack, Flags, coordinator, writer
<1>10. ASSUME NEW o \in ReconcileFailures \cup {"none"}, Reconcile(o) PROVE Flags'
  BY <1>1, <1>10
     DEF Reconcile, Answered, ReconcileFailures, Stored, NotFound, Flags, coordinator, writer
<1>11. CASE Retry \/ Deliver
  BY <1>1, <1>11 DEF Retry, Deliver, Flags, coordinator, writer
<1>12. CASE FinishJob
  BY <1>1, <1>12 DEF FinishJob, coordinator, Writer!Finish
<1>13. CASE ConsumeJobs
  BY <1>1, <1>13 DEF ConsumeJobs, Flags, coordinator, Writer!Consume
<1>14. CASE Pulse
  BY <1>1, <1>14 DEF Pulse, Flags, writer
<1>15. ASSUME NEW id \in Ids, Acknowledge(id) PROVE Flags'
  BY <1>1, <1>15 DEF Acknowledge, Flags, writer
<1>16. ASSUME NEW on \in BOOLEAN, SetAccepting(on) PROVE Flags'
  BY <1>16 DEF SetAccepting, Flags, writer
<1>17. CASE Shutdown
  <2>1. restarts < MaxRestarts /\ restarts' = restarts + 1
        /\ UNCHANGED <<open, taken, stage, result, sequence, losses>>
    BY <1>17 DEF Shutdown, writer
  <2>2. initialized' = FALSE /\ accepting' = FALSE
    BY <1>17 DEF Shutdown
  <2>3. restarts' \in 0 .. MaxRestarts
    BY <2>1 DEF Flags
  <2>4. /\ open' \in BOOLEAN /\ taken' \in BOOLEAN /\ stage' \in Stages /\ result' \in Answers \cup Lost
        /\ sequence' \in 0 .. MaxSubmits /\ losses' \in 0 .. MaxLosses
    BY <2>1 DEF Flags
  <2>5. initialized' \in BOOLEAN /\ accepting' \in BOOLEAN
    BY <2>2
  <2> QED BY <2>3, <2>4, <2>5 DEF Flags
<1>18. CASE Initialize
  BY <1>18 DEF Initialize, Flags, writer
<1>19. CASE Crash
  <2>1. initialized' \in BOOLEAN /\ accepting' \in BOOLEAN /\ open' \in BOOLEAN /\ taken' \in BOOLEAN
    BY <1>19 DEF Crash
  <2>2. /\ stage' \in Stages /\ result' \in Answers \cup Lost
        /\ sequence' \in 0 .. MaxSubmits /\ losses' \in 0 .. MaxLosses
        /\ restarts' \in 0 .. MaxRestarts
    BY <1>19 DEF Crash, Flags
  <2> QED BY <2>1, <2>2 DEF Flags
<1>20. CASE UNCHANGED vars
  BY <1>1, <1>20 DEF vars, Flags, coordinator, writer
<1> QED
  BY <1>2, <1>3, <1>4, <1>5, <1>6, <1>7, <1>8, <1>9, <1>10, <1>11, <1>12, <1>13, <1>14, <1>15,
     <1>16, <1>17, <1>18, <1>19, <1>20 DEF Next

\* Jobs, wherever they are, are numbered by submissions and carry a generation in range.
Slot == [capture : Job, outcome : {"applied"}]
LostTransaction == [command : Command, number : 1 .. MaxSubmits, rejected : BOOLEAN]

Jobs ==
  /\ jobs \in Seq(Job) /\ consumable \in Seq(Slot)
  /\ limbo \subseteq LostTransaction

LEMMA InitJobs == Init => Jobs
BY DEF Init, Jobs

LEMMA StepJobs ==
  IInv /\ OrderInv /\ TabInv /\ Flags /\ Jobs /\ [Next]_vars => Jobs'
<1> SUFFICES ASSUME IInv, OrderInv, TabInv, Flags, Jobs, [Next]_vars PROVE Jobs'
  OBVIOUS
<1>1. ASSUME UNCHANGED <<jobs, consumable, limbo>> PROVE Jobs'
  BY <1>1 DEF Jobs
<1>2. ASSUME NEW c \in Commands, Submit(c) PROVE Jobs'
  <2> DEFINE job == [owner |-> sequence + 1, death |-> FALSE, command |-> Stamped(c),
                     generation |-> generation]
  <2>1. jobs' = Append(jobs, job) /\ consumable' = consumable /\ limbo' = limbo
    BY <1>2, SubmitAppends DEF OrderInv, Submit, database
  <2>2. Stamped(c) \in Command
    BY StampedTyped DEF IInv, Typed
  <2>3. sequence + 1 \in 1 .. MaxSubmits
    BY <1>2, BoundAssumption DEF Submit, Flags
  <2>4. generation \in 1 .. 2 * MaxRestarts + 1
    <3>1. generation \in Int /\ restarts \in 0 .. MaxRestarts /\ MaxRestarts \in Nat
      BY BoundAssumption DEF IInv, Typed, Flags
    <3> QED BY <3>1 DEF TabInv, Generations
  <2>5. job \in Job
    BY <2>2, <2>3, <2>4 DEF Job
  <2> HIDE DEF job
  <2>6. jobs' \in Seq(Job)
    BY <2>1, <2>5 DEF Jobs
  <2> QED BY <2>1, <2>6 DEF Jobs
<1>3. ASSUME NEW rejected \in BOOLEAN, ApplyAmbiguous(rejected) PROVE Jobs'
  <2> DEFINE t == [command |-> Current, number |-> Head(jobs).owner, rejected |-> rejected]
  <2>1. UNCHANGED <<jobs, consumable>> /\ limbo' = limbo \cup {t}
    BY <1>3 DEF ApplyAmbiguous, writer
  <2>2. jobs # <<>> /\ jobs \in Seq(Job)
    BY <1>3 DEF ApplyAmbiguous, IInv, Typed, Jobs
  <2>3. Head(jobs) \in Job
    BY <2>2
  <2>4. t \in LostTransaction
    BY <2>3 DEF LostTransaction, Job, Current
  <2> HIDE DEF t
  <2> QED BY <2>1, <2>4 DEF Jobs
<1>4. CASE FinishJob
  <2> DEFINE d == [capture |-> Head(jobs), outcome |-> "applied"]
  <2>1. /\ jobs' = Tail(jobs) /\ consumable' = Append(consumable, d) /\ limbo' = limbo
    BY <1>4 DEF FinishJob, Writer!Finish, database
  <2>2. jobs # <<>> /\ jobs \in Seq(Job)
    BY <1>4 DEF FinishJob, Writer!Finish, IInv, Typed, Jobs
  <2>3. Head(jobs) \in Job /\ jobs' \in Seq(Job)
    BY <2>1, <2>2
  <2>4. d \in Slot
    BY <2>3 DEF Slot
  <2> HIDE DEF d
  <2>5. consumable' \in Seq(Slot)
    BY <2>1, <2>4 DEF Jobs
  <2> QED BY <2>1, <2>3, <2>5 DEF Jobs
<1>5. CASE ConsumeJobs
  <2>1. UNCHANGED <<jobs, limbo>>
    BY <1>5 DEF ConsumeJobs, Writer!Consume, database
  <2>2. /\ Len(consumable) \in 1 .. Len(consumable)
        /\ consumable' = SubSeq(consumable, Len(consumable) + 1, Len(consumable))
    BY <1>5 DEF ConsumeJobs, Writer!Consume
  <2>3. consumable \in Seq(Slot)
    BY DEF Jobs
  <2>4. Len(consumable) \in 0 .. Len(consumable)
    BY <2>3
  <2>5. consumable' \in Seq(Slot)
    BY <2>2, <2>3, <2>4, Dropped
  <2> QED BY <2>1, <2>5 DEF Jobs
<1>6. CASE Crash
  <2>1. jobs' = <<>> /\ consumable' = <<>> /\ limbo' = limbo
    BY <1>6 DEF Crash, database
  <2> QED BY <2>1 DEF Jobs
<1>7. ASSUME NEW rejected \in BOOLEAN, ApplyCommits(rejected) PROVE Jobs'
  BY <1>1, <1>7 DEF ApplyCommits, writer
<1>8. ASSUME NEW t \in limbo, LimboCommits(t) \/ LimboRollsBack(t) PROVE Jobs'
  BY <1>8 DEF LimboCommits, LimboRollsBack, Jobs, writer
<1>9. CASE TakeJob
  BY <1>1, <1>9 DEF TakeJob, Writer!Take, database
<1>10. CASE Elsewhere /\ ~TakeJob /\ ~ConsumeJobs
  <2>1. UNCHANGED consumable
    BY <1>10 DEF Elsewhere, Attach, ApplyFails, ApplyDuplicate, Reconcile, Retry, Deliver, Pulse,
                 Acknowledge, SetAccepting, Shutdown, Initialize, vars, writer
  <2> QED BY <1>1, <1>10, <2>1, ElsewhereStill
<1> QED
  BY <1>2, <1>3, <1>4, <1>5, <1>6, <1>7, <1>8, <1>9, <1>10 DEF Next, Elsewhere

-----------------------------------------------------------------------------
(***************************************************************************)
(* The answers.  A committed row never changes, so that what is said of it *)
(* stays true on its way through the completions, the table and the cache  *)
(* of finished operations.                                                 *)
(***************************************************************************)
TrueAnswers ==
  {a \in Answer : a.answer # "failed" =>
     /\ inbox[a.command.id] # NoRow
     /\ inbox[a.command.id].command = a.command
     /\ inbox[a.command.id].rejected <=> a.answer = "rejected"}

\* What a caller may be told: its command may lack the time of acceptance.
FairAnswers ==
  {a \in Answer : a.answer # "failed" =>
     /\ inbox[a.command.id] # NoRow
     /\ SameCommand(inbox[a.command.id].command, a.command)
     /\ inbox[a.command.id].rejected <=> a.answer = "rejected"}

Verdict == [command |-> Current, answer |-> result]
Owed(id) == [command |-> operations[id].command, answer |-> operations[id].answer]

Told ==
  /\ stage = "applied" /\ result \in Answers => Verdict \in TrueAnswers
  /\ \A i \in 1 .. Len(delivery) : Entry(i) \in TrueAnswers
  /\ \A id \in Active : operations[id].pending => Owed(id) \in TrueAnswers
  /\ completed \in Seq(TrueAnswers) /\ Len(completed) =< MaxCompleted
  /\ reported \subseteq FairAnswers

LEMMA InitTold == Init => Told
<1> SUFFICES ASSUME Init PROVE Told
  OBVIOUS
<1>1. Active = {} /\ 1 .. Len(delivery) = {} /\ stage # "applied" /\ reported = {}
  BY DEF Init, Active
<1>2. completed = <<>> /\ Len(completed) =< MaxCompleted
  BY BoundAssumption DEF Init
<1>3. completed \in Seq(TrueAnswers)
  BY <1>2
<1> QED BY <1>1, <1>2, <1>3 DEF Told

LEMMA RowsStay ==
  ASSUME IInv, [Next]_vars
  PROVE  \A id \in Ids : inbox[id] # NoRow => inbox'[id] = inbox[id]
<1>1. CASE UNCHANGED inbox
  BY <1>1
<1>2. ASSUME NEW rejected \in BOOLEAN, ApplyCommits(rejected)
      PROVE  \A id \in Ids : inbox[id] # NoRow => inbox'[id] = inbox[id]
  <2>1. taken /\ inbox[Current.id] = NoRow
    BY <1>2 DEF ApplyCommits, Duplicate, IInv, Typed
  <2>2. \A id \in Ids : id # Current.id => inbox'[id] = inbox[id]
    BY <1>2, <2>1, CurrentTyped, SettleOnce DEF ApplyCommits
  <2> QED BY <2>1, <2>2
<1>3. ASSUME NEW t \in limbo, LimboCommits(t)
      PROVE  \A id \in Ids : inbox[id] # NoRow => inbox'[id] = inbox[id]
  <2>1. t.command \in Command /\ t.rejected \in BOOLEAN /\ inbox[t.command.id] = NoRow
    BY <1>3 DEF IInv, Typed, LimboUnsettled, Transaction
  <2>2. \A id \in Ids : id # t.command.id => inbox'[id] = inbox[id]
    BY <1>3, <2>1, SettleOnce DEF LimboCommits
  <2> QED BY <2>1, <2>2
<1>4. CASE Elsewhere
  BY <1>1, <1>4, ElsewhereStill
<1>5. ASSUME NEW c \in Commands, Submit(c) PROVE UNCHANGED inbox
  BY <1>5 DEF Submit, database
<1>6. CASE FinishJob \/ Crash
  BY <1>1, <1>6 DEF FinishJob, Crash, database
<1>7. ASSUME NEW rejected \in BOOLEAN, ApplyAmbiguous(rejected) PROVE UNCHANGED inbox
  BY <1>7 DEF ApplyAmbiguous
<1>8. ASSUME NEW t \in limbo, LimboRollsBack(t) PROVE UNCHANGED inbox
  BY <1>8 DEF LimboRollsBack
<1> QED BY <1>1, <1>2, <1>3, <1>4, <1>5, <1>6, <1>7, <1>8 DEF Next, Elsewhere

\* What was true to say stays so.
LEMMA AnswersStay ==
  ASSUME IInv, [Next]_vars
  PROVE  TrueAnswers \subseteq TrueAnswers' /\ FairAnswers \subseteq FairAnswers'
<1>1. \A a \in Answer : a.command.id \in Ids
  BY DEF Answer, Command
<1>2. \A a \in Answer : inbox[a.command.id] # NoRow => inbox'[a.command.id] = inbox[a.command.id]
  BY <1>1, RowsStay
<1>3. TrueAnswers \subseteq TrueAnswers'
  BY <1>2 DEF TrueAnswers
<1>4. FairAnswers \subseteq FairAnswers'
  BY <1>2 DEF FairAnswers, SameCommand
<1> QED BY <1>3, <1>4

LEMMA TrueIsFair == TrueAnswers \subseteq FairAnswers
<1> SUFFICES ASSUME NEW a \in TrueAnswers PROVE a \in FairAnswers
  OBVIOUS
<1>1. a \in Answer /\ a.command \in Command
  BY DEF TrueAnswers, Answer
<1>2. SameCommand(a.command, a.command)
  BY <1>1 DEF SameCommand, Command
<1> QED BY <1>1, <1>2 DEF TrueAnswers, FairAnswers

LEMMA LongerTruth ==
  ASSUME NEW A, NEW B, A \subseteq B, NEW s \in Seq(A)
  PROVE  s \in Seq(B)
OBVIOUS

\* A step that leaves the coordinator and its callers alone
LEMMA ToldQuiet ==
  ASSUME IInv, Told, [Next]_vars, UNCHANGED <<operations, delivery, completed, reported>>,
         stage' = "applied" /\ result' \in Answers => Verdict' \in TrueAnswers'
  PROVE  Told'
<1>1. TrueAnswers \subseteq TrueAnswers' /\ FairAnswers \subseteq FairAnswers'
  BY AnswersStay
<1>2. completed' \in Seq(TrueAnswers') /\ Len(completed') =< MaxCompleted
  BY <1>1, LongerTruth DEF Told
<1>3. \A i \in 1 .. Len(delivery') : Entry(i)' \in TrueAnswers'
  BY <1>1 DEF Told, Entry
<1>4. \A id \in Active' : operations'[id].pending => Owed(id)' \in TrueAnswers'
  BY <1>1 DEF Told, Active, Owed
<1> QED BY <1>1, <1>2, <1>3, <1>4 DEF Told

\* What the stored row says of the operation is true.
LEMMA StoredIsTrue ==
  ASSUME IInv, NEW c \in Command, Duplicate(c)
  PROVE  [command |-> c, answer |-> Stored(inbox[c.id], c)] \in TrueAnswers
<1>1. inbox[c.id] # NoRow /\ inbox[c.id] \in Row /\ c.id \in Ids
  BY DEF Duplicate, IInv, Typed, Command
<1>2. Stored(inbox[c.id], c) \in Answers
  BY DEF Stored, Answers, Succeeded
<1>3. inbox[c.id].rejected \in BOOLEAN
  BY <1>1 DEF Row
<1>4. CASE inbox[c.id].command # c
  <2>1. Stored(inbox[c.id], c) = "failed"
    BY <1>4 DEF Stored
  <2> QED BY <1>2, <2>1 DEF TrueAnswers, Answer
<1>5. CASE inbox[c.id].command = c
  <2>1. (Stored(inbox[c.id], c) = "rejected") <=> inbox[c.id].rejected
    BY <1>5 DEF Stored
  <2> QED BY <1>1, <1>2, <1>5, <2>1 DEF TrueAnswers, Answer
<1> QED BY <1>4, <1>5

LEMMA VerdictIsTrue ==
  ASSUME IInv, [Next]_vars,
         \/ \E o \in {"retryable_failure", "failed"} : ApplyFails(o)
         \/ ApplyDuplicate
         \/ \E rejected \in BOOLEAN : ApplyCommits(rejected)
         \/ \E o \in ReconcileFailures \cup {"none"} : Reconcile(o)
  PROVE  /\ result' \in Answers => Verdict' \in TrueAnswers'
         /\ UNCHANGED <<operations, delivery, completed, reported>>
<1>1. /\ taken /\ jobs' = jobs /\ UNCHANGED <<operations, delivery, completed, reported>>
  BY DEF ApplyFails, ApplyDuplicate, ApplyCommits, Reconcile, IInv, Typed, coordinator, writer
<1>2. Current \in Command /\ Current.id \in Ids /\ Current' = Current
  BY <1>1, CurrentTyped DEF Current
<1>3. Verdict' = [command |-> Current, answer |-> result']
  BY <1>2 DEF Verdict
<1>4. TrueAnswers \subseteq TrueAnswers'
  BY AnswersStay
<1>5. ASSUME result' = "failed" PROVE Verdict' \in TrueAnswers'
  BY <1>2, <1>3, <1>5 DEF TrueAnswers, Answer, Answers
<1>6. ASSUME Duplicate(Current), result' = Stored(inbox[Current.id], Current)
      PROVE  Verdict' \in TrueAnswers'
  BY <1>2, <1>3, <1>4, <1>6, StoredIsTrue
<1>7. ASSUME NEW o \in {"retryable_failure", "failed"}, ApplyFails(o)
      PROVE  result' \in Answers => Verdict' \in TrueAnswers'
  BY <1>5, <1>7 DEF ApplyFails, Answered, Answers, Succeeded
<1>8. CASE ApplyDuplicate
  BY <1>1, <1>6, <1>8 DEF ApplyDuplicate, Answered
<1>9. ASSUME NEW rejected \in BOOLEAN, ApplyCommits(rejected)
      PROVE  Verdict' \in TrueAnswers'
  <2>1. inbox'[Current.id] = [command |-> Current, rejected |-> rejected]
    BY <1>2, <1>9 DEF ApplyCommits, Settle, IInv, Typed
  <2>2. inbox'[Current.id] # NoRow
    BY <1>2, <2>1, NoRowIsNotARow DEF Row
  <2>3. result' = IF rejected THEN "rejected" ELSE "applied"
    BY <1>9 DEF ApplyCommits, Answered
  <2> QED BY <1>2, <1>3, <2>1, <2>2, <2>3 DEF TrueAnswers, Answer, Answers, Succeeded
<1>10. ASSUME NEW o \in ReconcileFailures \cup {"none"}, Reconcile(o)
      PROVE  result' \in Answers => Verdict' \in TrueAnswers'
  BY <1>5, <1>6, <1>10 DEF Reconcile, Answered, ReconcileFailures, NotFound, Answers, Succeeded
<1> QED BY <1>1, <1>7, <1>8, <1>9, <1>10

LEMMA SubmitTold ==
  ASSUME IInv, OrderInv, TabInv, Told, NEW c \in Commands, Submit(c)
  PROVE  Told'
<1>1. /\ c.id \in Ids /\ c.id \notin Active
      /\ UNCHANGED <<delivery, completed, stage, result, reported, inbox>>
  BY CommandAssumption DEF Submit, database, Command
<1>2. /\ \A id \in Ids : id # c.id => operations'[id] = operations[id]
      /\ ~operations'[c.id].pending
  BY <1>1 DEF Submit, TabInv, Table
<1>3. TrueAnswers' = TrueAnswers /\ FairAnswers' = FairAnswers
  BY <1>1 DEF TrueAnswers, FairAnswers, SameCommand
<1>4. stage = "applied" => Verdict' = Verdict
  <2> SUFFICES ASSUME stage = "applied" PROVE Verdict' = Verdict
    OBVIOUS
  <2>1. taken /\ jobs \in Seq(AnyJob) /\ jobs # <<>>
    BY DEF IInv, Typed
  <2>2. PICK job \in AnyJob : jobs' = Append(jobs, job)
    BY SubmitAppends DEF OrderInv
  <2>3. Head(jobs') = Head(jobs)
    BY <2>1, <2>2
  <2> QED BY <1>1, <2>3 DEF Verdict, Current
<1>5. \A i \in 1 .. Len(delivery) : delivery[i].id # c.id /\ delivery[i].id \in Ids
  BY <1>1 DEF TabInv, Answering, Waited, Active
<1>6. \A i \in 1 .. Len(delivery') : Entry(i)' \in TrueAnswers'
  BY <1>1, <1>2, <1>3, <1>5 DEF Told, Entry
<1>7. \A id \in Active' : operations'[id].pending => Owed(id)' \in TrueAnswers'
  BY <1>2, <1>3 DEF Told, Owed, Active
<1> QED BY <1>1, <1>3, <1>4, <1>6, <1>7 DEF Told

\* The caller of a submission that attaches sent the command that was stored.
LEMMA AttachTold ==
  ASSUME IInv, TabInv, Told, NEW c \in Commands, Attach(c)
  PROVE  Told'
<1>1. UNCHANGED <<operations, delivery, completed, stage, result, jobs, inbox>>
  BY DEF Attach, coordinator, writer, database
<1>2. TrueAnswers' = TrueAnswers /\ FairAnswers' = FairAnswers
  BY <1>1 DEF TrueAnswers, FairAnswers, SameCommand
<1>3. ASSUME NEW a \in TrueAnswers, SameCommand(a.command, c), a.command.id = c.id
      PROVE  [command |-> c, answer |-> a.answer] \in FairAnswers
  BY <1>3, CommandAssumption DEF TrueAnswers, FairAnswers, Answer
<1>4. \A i \in 1 .. Len(completed) : completed[i] \in TrueAnswers
  BY DEF Told
<1>5. PICK a \in TrueAnswers : /\ SameCommand(a.command, c) /\ a.command.id = c.id
                               /\ reported' = reported \cup {[command |-> c, answer |-> a.answer]}
  <2>1. CASE \E i \in CachedIndexes(c.id) :
               /\ SameCommand(completed[i].command, c)
               /\ reported' = reported \cup {[command |-> c, answer |-> completed[i].answer]}
    BY <1>4, <2>1 DEF CachedIndexes
  <2>2. CASE /\ c.id \in Active /\ operations[c.id].pending
             /\ SameCommand(operations[c.id].command, c)
             /\ reported' = reported \cup {[command |-> c, answer |-> operations[c.id].answer]}
    <3>1. Owed(c.id) \in TrueAnswers /\ operations[c.id].command.id = c.id
      BY <2>2 DEF Told, TabInv, Table
    <3>2. Owed(c.id).command = operations[c.id].command /\ Owed(c.id).answer = operations[c.id].answer
      BY DEF Owed
    <3> QED BY <2>2, <3>1, <3>2
  <2> QED BY <2>1, <2>2 DEF Attach
<1>6. reported' \subseteq FairAnswers'
  BY <1>2, <1>3, <1>5 DEF Told
<1>7. \A i \in 1 .. Len(delivery') : Entry(i)' \in TrueAnswers'
  BY <1>1, <1>2 DEF Told, Entry
<1>8. \A id \in Active' : operations'[id].pending => Owed(id)' \in TrueAnswers'
  BY <1>1, <1>2 DEF Told, Active, Owed
<1>9. stage' = "applied" /\ result' \in Answers => Verdict' \in TrueAnswers'
  BY <1>1, <1>2 DEF Told, Verdict, Current
<1> QED BY <1>1, <1>2, <1>6, <1>7, <1>8, <1>9 DEF Told

LEMMA DeliverTold ==
  ASSUME IInv, TabInv, Told, Deliver
  PROVE  Told'
<1>1. /\ UNCHANGED <<operations, completed, jobs, result, inbox, reported>>
      /\ stage = "applied" /\ stage' # "applied" /\ result \in Answers /\ taken
  BY DEF Deliver, IInv, Typed, writer, database
<1>2. TrueAnswers' = TrueAnswers /\ FairAnswers' = FairAnswers
  BY <1>1 DEF TrueAnswers, FairAnswers, SameCommand
<1>3. Verdict \in TrueAnswers
  BY <1>1 DEF Told
<1>4. \A id \in Active' : operations'[id].pending => Owed(id)' \in TrueAnswers'
  BY <1>1, <1>2 DEF Told, Active, Owed
<1>5. ASSUME NEW i \in 1 .. Len(delivery), delivery'[i] = delivery[i] PROVE Entry(i)' \in TrueAnswers'
  BY <1>1, <1>2, <1>5 DEF Told, Entry
<1>6. \A i \in 1 .. Len(delivery') : Entry(i)' \in TrueAnswers'
  <2>1. CASE delivery' = delivery
    BY <1>5, <2>1
  <2>2. CASE ForThisCoordinator /\ delivery' = Append(delivery, [id |-> Current.id, answer |-> result])
    <3> DEFINE d == [id |-> Current.id, answer |-> result]
    <3>1. d \in Completion /\ d.id = Current.id /\ d.answer = result
      BY <1>1, CurrentTyped DEF Completion
    <3> HIDE DEF d
    <3>2. \A i \in 1 .. Len(delivery') : \/ i \in 1 .. Len(delivery) /\ delivery'[i] = delivery[i]
                                         \/ i = Len(delivery) + 1 /\ delivery'[i] = d
      <4>1. delivery \in Seq(Completion) /\ delivery' = Append(delivery, d)
        BY <2>2 DEF d, TabInv, Table
      <4> QED BY <3>1, <4>1, Appended
    <3>3. operations[Current.id].command = Current
      <4>1. Current = jobs[1].command /\ 1 \in Undelivered
        BY <1>1, <2>2, CurrentIsFirst DEF ForThisCoordinator, Undelivered
      <4> QED BY <4>1 DEF TabInv, Answering
    <3>4. ASSUME NEW i \in 1 .. Len(delivery'), delivery'[i] = d PROVE Entry(i)' \in TrueAnswers'
      BY <1>1, <1>2, <1>3, <3>1, <3>3, <3>4 DEF Entry, Verdict
    <3> QED BY <1>5, <3>2, <3>4
  <2> QED BY <2>1, <2>2 DEF Deliver
<1> QED BY <1>1, <1>2, <1>4, <1>6 DEF Told

LEMMA RememberedOnes ==
  ASSUME NEW A, completed \in Seq(A), NEW e \in Seq(A), NEW t, t = Remembered(e)
  PROVE  t \in Seq(A) /\ Len(t) =< MaxCompleted
<1>1. PICK u : u = completed \o e
  OBVIOUS
<1>2. u \in Seq(A)
  BY <1>1, Concatenated
<1>3. t = LastOf(u, MaxCompleted)
  BY <1>1, Zenon DEF Remembered
<1> QED BY <1>2, <1>3, LastOnes, BoundAssumption

LEMMA PulseTold ==
  ASSUME IInv, TabInv, Told, NEW n \in 1 .. Len(delivery), PulseTakes(n),
         UNCHANGED <<stage, result, jobs, inbox>>
  PROVE  Told'
<1>1. /\ n \in Nat /\ \A i \in 1 .. n : i \in 1 .. Len(delivery) /\ delivery[i].id \in Waited
      /\ reported' = reported \cup {Entry(i) : i \in 1 .. n}
  BY PulseAnswers
<1>2. TrueAnswers' = TrueAnswers /\ FairAnswers' = FairAnswers
  BY DEF TrueAnswers, FairAnswers, SameCommand
<1>3. \A i \in 1 .. n : Entry(i) \in TrueAnswers
  BY <1>1 DEF Told
<1>4. completed' \in Seq(TrueAnswers) /\ Len(completed') =< MaxCompleted
  <2>1. PICK s : s = [i \in 1 .. n |-> Entry(i)]
    OBVIOUS
  <2>2. s \in Seq(TrueAnswers) /\ Len(s) = n
    BY <1>1, <1>3, <2>1
  <2>3. Ended(n) \subseteq 1 .. Len(s)
    BY <2>2 DEF Ended
  <2>4. PICK e : e = Kept(s, Ended(n))
    OBVIOUS
  <2>5. e \in Seq(TrueAnswers)
    BY <2>2, <2>3, <2>4, KeptOnes
  <2>6. completed' = Remembered(e)
    BY <2>1, <2>4, PulseAnswers, Zenon
  <2>7. completed \in Seq(TrueAnswers)
    BY DEF Told
  <2> QED BY <2>5, <2>6, <2>7, RememberedOnes
<1>5. ASSUME NEW i \in 1 .. Len(delivery') PROVE Entry(i)' \in TrueAnswers'
  <2>1. delivery \in Seq(Completion) /\ Len(delivery) \in Nat /\ n \in 0 .. Len(delivery)
    BY <1>1 DEF TabInv, Table
  <2>2. delivery' = SubSeq(delivery, n + 1, Len(delivery))
    BY PulseAnswers
  <2>3. /\ i \in Nat /\ i >= 1
        /\ i + n \in 1 .. Len(delivery) /\ delivery'[i] = delivery[i + n]
    <3>1. Len(delivery') \in Nat
      BY <2>1, <2>2, Dropped
    <3> QED BY <2>1, <2>2, <3>1, Dropped
  <2>4. \A j \in 1 .. n : delivery[j].id # delivery[i + n].id
    <3>1. \A j \in 1 .. n : j \in 1 .. Len(delivery) /\ j # i + n
      BY <1>1, <2>3
    <3> QED BY <2>3, <3>1 DEF TabInv, Answering
  <2>5. delivery[i + n].id \in Ids
    BY <2>3 DEF TabInv, Answering, Waited, Active
  <2>6. operations'[delivery[i + n].id] = operations[delivery[i + n].id]
    BY <2>4, <2>5, PulsedOperations
  <2>7. Entry(i)' = Entry(i + n)
    BY <2>3, <2>6, Zenon DEF Entry
  <2> QED BY <1>2, <2>3, <2>7 DEF Told
<1>6. ASSUME NEW id \in Active', operations'[id].pending PROVE Owed(id)' \in TrueAnswers'
  <2>0. id \in Ids /\ operations'[id] # NoOperation
    BY DEF Active
  <2>1. CASE \A i \in 1 .. n : delivery[i].id # id
    <3>1. operations'[id] = operations[id]
      BY <2>0, <2>1, PulsedOperations
    <3> QED BY <1>2, <1>6, <2>0, <3>1 DEF Told, Active, Owed
  <2>2. CASE \E i \in 1 .. n : delivery[i].id = id
    <3>1. PICK i \in 1 .. n : delivery[i].id = id
      BY <2>2
    <3>2. operations'[id] = [operations[id] EXCEPT !.pending = TRUE, !.answer = delivery[i].answer]
      BY <2>0, <3>1, PulsedOperations
    <3>3. operations[id] \in Operation
      BY <1>1, <3>1 DEF TabInv, Table, Waited, Active
    <3>4. Owed(id)' = Entry(i)
      BY <3>1, <3>2, <3>3 DEF Owed, Entry, Operation
    <3> QED BY <1>2, <1>3, <3>4
  <2> QED BY <2>1, <2>2
<1>7. reported' \subseteq FairAnswers'
  BY <1>1, <1>2, <1>3, TrueIsFair DEF Told
<1>8. stage' = "applied" /\ result' \in Answers => Verdict' \in TrueAnswers'
  BY <1>2 DEF Told, Verdict, Current
<1> QED BY <1>2, <1>4, <1>5, <1>6, <1>7, <1>8 DEF Told

LEMMA AcknowledgeTold ==
  ASSUME IInv, TabInv, Told, NEW id \in Ids, Acknowledge(id)
  PROVE  Told'
<1>1. /\ UNCHANGED <<delivery, stage, result, jobs, inbox, reported>>
      /\ id \in Active /\ operations[id].pending /\ completed' = Remembered(<<Owed(id)>>)
      /\ operations' = [operations EXCEPT ![id] = NoOperation]
  BY DEF Acknowledge, writer, database, Owed
<1>2. TrueAnswers' = TrueAnswers /\ FairAnswers' = FairAnswers
  BY <1>1 DEF TrueAnswers, FairAnswers, SameCommand
<1>3. completed' \in Seq(TrueAnswers) /\ Len(completed') =< MaxCompleted
  <2>1. Owed(id) \in TrueAnswers /\ completed \in Seq(TrueAnswers)
    BY <1>1 DEF Told
  <2>2. PICK e : e = <<Owed(id)>>
    OBVIOUS
  <2>3. e \in Seq(TrueAnswers)
    BY <2>1, <2>2
  <2>4. completed' = Remembered(e)
    BY <1>1, <2>2
  <2> QED BY <2>1, <2>3, <2>4, RememberedOnes
<1>4. operations'[id] = NoOperation /\ \A x \in Ids : x # id => operations'[x] = operations[x]
  BY <1>1 DEF TabInv, Table
<1>5. \A i \in 1 .. Len(delivery) : delivery[i].id # id /\ delivery[i].id \in Ids
  BY <1>1 DEF TabInv, Answering, Waited, Active
<1>6. \A i \in 1 .. Len(delivery') : Entry(i)' \in TrueAnswers'
  BY <1>1, <1>2, <1>4, <1>5 DEF Told, Entry
<1>7. \A x \in Active' : operations'[x].pending => Owed(x)' \in TrueAnswers'
  BY <1>2, <1>4 DEF Told, Owed, Active
<1>8. stage' = "applied" /\ result' \in Answers => Verdict' \in TrueAnswers'
  BY <1>1, <1>2 DEF Told, Verdict, Current
<1> QED BY <1>1, <1>2, <1>3, <1>6, <1>7, <1>8 DEF Told

LEMMA RestartTold ==
  ASSUME IInv, Told, Shutdown \/ Initialize \/ Crash
  PROVE  Told'
<1>1. /\ ClearCoordinator /\ UNCHANGED <<inbox, reported>>
      /\ stage' = "applied" => UNCHANGED <<stage, result, jobs>>
  BY DEF Shutdown, Initialize, Crash, writer, database
<1>2. TrueAnswers' = TrueAnswers /\ FairAnswers' = FairAnswers
  BY <1>1 DEF TrueAnswers, FairAnswers, SameCommand
<1>3. Active' = {} /\ 1 .. Len(delivery') = {} /\ completed' = <<>>
  BY <1>1 DEF ClearCoordinator, Active
<1>4. completed' \in Seq(TrueAnswers') /\ Len(completed') =< MaxCompleted
  BY <1>3, BoundAssumption
<1>5. stage' = "applied" /\ result' \in Answers => Verdict' \in TrueAnswers'
  BY <1>1, <1>2 DEF Told, Verdict, Current
<1> QED BY <1>1, <1>2, <1>3, <1>4, <1>5 DEF Told

LEMMA StepTold ==
  IInv /\ OrderInv /\ TabInv /\ Told /\ [Next]_vars => Told'
<1> SUFFICES ASSUME IInv, OrderInv, TabInv, Told, [Next]_vars PROVE Told'
  OBVIOUS
<1>1. ASSUME UNCHANGED <<operations, delivery, completed, reported>>,
             stage' = "applied" => UNCHANGED <<stage, result, jobs>>
      PROVE  Told'
  <2>1. stage' = "applied" /\ result' \in Answers => Verdict' \in TrueAnswers'
    BY <1>1, AnswersStay DEF Told, Verdict, Current
  <2> QED BY <1>1, <2>1, ToldQuiet
<1>2. ASSUME \/ \E o \in {"retryable_failure", "failed"} : ApplyFails(o)
             \/ ApplyDuplicate
             \/ \E rejected \in BOOLEAN : ApplyCommits(rejected)
             \/ \E o \in ReconcileFailures \cup {"none"} : Reconcile(o)
      PROVE  Told'
  BY <1>2, VerdictIsTrue, ToldQuiet
<1>3. CASE TakeJob \/ FinishJob \/ Retry \/ ConsumeJobs
  BY <1>1, <1>3 DEF TakeJob, FinishJob, Retry, ConsumeJobs, Writer!Consume, coordinator
<1>4. ASSUME NEW rejected \in BOOLEAN, ApplyAmbiguous(rejected) PROVE Told'
  BY <1>1, <1>4 DEF ApplyAmbiguous, coordinator
<1>5. ASSUME NEW t \in limbo, LimboCommits(t) \/ LimboRollsBack(t) PROVE Told'
  BY <1>1, <1>5 DEF LimboCommits, LimboRollsBack, coordinator, writer
<1>6. CASE Pulse
  BY <1>6, PulseTold DEF Pulse, writer, database
<1>7. ASSUME NEW on \in BOOLEAN, SetAccepting(on) PROVE Told'
  BY <1>1, <1>7 DEF SetAccepting, writer
<1>8. CASE UNCHANGED vars
  BY <1>1, <1>8 DEF vars, coordinator, writer
<1> QED
  BY <1>2, <1>3, <1>4, <1>5, <1>6, <1>7, <1>8, SubmitTold, AttachTold, DeliverTold,
     AcknowledgeTold, RestartTold DEF Next

LEMMA AlwaysFlags == Spec => []Flags
BY InitFlags, StepFlags, PTL DEF Spec

LEMMA AlwaysTabInv == Spec => []TabInv
<1>1. Flags => restarts \in Nat
  BY BoundAssumption DEF Flags
<1> QED BY <1>1, AlwaysIInv, AlwaysOrderInv, AlwaysFlags, InitTabInv, StepTabInv, PTL DEF Spec

LEMMA AlwaysTold == Spec => []Told
BY AlwaysIInv, AlwaysOrderInv, AlwaysTabInv, InitTold, StepTold, PTL DEF Spec

LEMMA AlwaysJobs == Spec => []Jobs
BY AlwaysIInv, AlwaysOrderInv, AlwaysTabInv, AlwaysFlags, InitJobs, StepJobs, PTL DEF Spec

(***************************************************************************)
(* Whoever is told that a command succeeded or was rejected is told so of  *)
(* the very command the inbox row holds, and the row says the same: the    *)
(* pulse that publishes an answer, the cache of finished operations and    *)
(* critical_command_repository_reconcile never pass on another's.          *)
(***************************************************************************)
THEOREM AnswersAreTrue == Spec => []AnswerIsTrue
<1>1. Told => AnswerIsTrue
  BY DEF Told, AnswerIsTrue, FairAnswers
<1> QED BY <1>1, AlwaysTold, PTL

-----------------------------------------------------------------------------
(***************************************************************************)
(* The table, as the run checks it.                                        *)
(***************************************************************************)
LEMMA AtMostOne ==
  ASSUME NEW S, \A x, y \in S : x = y
  PROVE  Cardinality(S) = IF S = {} THEN 0 ELSE 1
<1>1. CASE S = {}
  BY <1>1, FS_EmptySet
<1>2. CASE S # {}
  <2>1. PICK x \in S : S = {x}
    BY <1>2
  <2>2. Cardinality(S) = 1
    BY <2>1, FS_Singleton
  <2> QED BY <1>2, <2>2
<1> QED BY <1>1, <1>2

LEMMA EachIsPending == TabInv => OneAnswerPending
<1> SUFFICES ASSUME TabInv, NEW id \in Ids
             PROVE  Cardinality({i \in Undelivered : jobs[i].command.id = id})
                      + Cardinality({i \in 1 .. Len(delivery) : delivery[i].id = id})
                      + (IF id \in Active /\ operations[id].pending THEN 1 ELSE 0)
                      = IF id \in Active THEN 1 ELSE 0
  BY DEF OneAnswerPending
<1> DEFINE waiting == {i \in Undelivered : jobs[i].command.id = id}
           answers == {i \in 1 .. Len(delivery) : delivery[i].id = id}
<1>1. /\ \A i, j \in waiting : i = j
      /\ \A i, j \in answers : i = j
      /\ waiting # {} => answers = {}
      /\ waiting # {} \/ answers # {} => id \in Waited
      /\ id \in Waited => waiting # {} \/ answers # {}
  BY DEF TabInv, Answering, NoneForgotten
<1>2. id \in Waited <=> id \in Active /\ ~operations[id].pending
  BY DEF Waited
<1> HIDE DEF waiting, answers
<1>3. /\ Cardinality(waiting) = IF waiting = {} THEN 0 ELSE 1
      /\ Cardinality(answers) = IF answers = {} THEN 0 ELSE 1
  BY <1>1, AtMostOne
<1>4. CASE id \in Waited
  <2>1. Cardinality(waiting) + Cardinality(answers) = 1
    BY <1>1, <1>3, <1>4
  <2> QED BY <1>2, <1>4, <2>1 DEF waiting, answers
<1>5. CASE id \notin Waited
  <2>1. Cardinality(waiting) + Cardinality(answers) = 0
    BY <1>1, <1>3, <1>5
  <2> QED BY <1>2, <1>5, <2>1 DEF waiting, answers
<1> QED BY <1>4, <1>5

LEMMA FencesAreNamed == TabInv => FencesName
<1> SUFFICES ASSUME TabInv, NEW k \in Keys
             PROVE  /\ Range(fences[k]) = {id \in Active : k \in operations[id].command.keys}
                    /\ \A i, j \in 1 .. Len(fences[k]) :
                         i < j => operations[fences[k][i]].number < operations[fences[k][j]].number
  BY DEF FencesName
<1>1. fences[k] \in Seq(Ids)
  BY DEF TabInv, Fenced
<1>2. Range(fences[k]) = {fences[k][i] : i \in 1 .. Len(fences[k])}
  BY <1>1 DEF Range
<1>3. \A id : id \in Range(fences[k]) <=> id \in Active /\ k \in operations[id].command.keys
  BY <1>2 DEF TabInv, Fenced
<1> QED BY <1>3 DEF TabInv, Fenced

LEMMA TableTyped ==
  ASSUME IInv, OrderInv, TabInv, Flags, Jobs, Told
  PROVE  TypeOK
<1>1. /\ initialized \in BOOLEAN /\ accepting \in BOOLEAN /\ open \in BOOLEAN /\ taken \in BOOLEAN
  BY Zenon DEF Flags
<1>2. /\ generation \in 1 .. 2 * MaxRestarts + 1 /\ landed \in [Keys -> 0 .. MaxSubmits]
  <2>1. /\ sequence \in 0 .. MaxSubmits /\ restarts \in 0 .. MaxRestarts
        /\ generation \in Int
    BY DEF Flags, IInv, Typed
  <2>2. generation \in 1 .. 2 * MaxRestarts + 1
    BY <2>1, BoundAssumption DEF TabInv, Generations
  <2>3. landed \in [Keys -> Nat] /\ \A k \in Keys : landed[k] \in 0 .. MaxSubmits
    BY <2>1, BoundAssumption DEF OrderInv, LandedBefore
  <2> QED BY <2>2, <2>3
<1>3. /\ sequence \in 0 .. MaxSubmits /\ losses \in 0 .. MaxLosses /\ restarts \in 0 .. MaxRestarts
      /\ stage \in Stages /\ result \in Answers \cup Lost
  BY DEF Flags
<1>4. /\ operations \in [Ids -> {NoOperation} \cup Operation] /\ fences \in [Keys -> Seq(Ids)]
      /\ delivery \in Seq(Completion)
  BY DEF TabInv, Table, Fenced
<1>5. completed \in Seq(Answer) /\ Len(completed) <= MaxCompleted /\ reported \subseteq Answer
  BY LongerTruth DEF Told, TrueAnswers, FairAnswers
<1>6. /\ jobs \in Seq(Job) /\ consumable \in Seq(Slot) /\ limbo \subseteq LostTransaction
      /\ inbox \in [Ids -> {NoRow} \cup Row] /\ effects \in [Ids -> Nat]
  BY DEF Jobs, IInv, Typed
<1> QED BY <1>1, <1>2, <1>3, <1>4, <1>5, <1>6, Zenon
        DEF TypeOK, Stages, Operation, Completion, Slot, LostTransaction, Row

(***************************************************************************)
(* The operation table stays in order whatever is retried, restarted or    *)
(* delivered late: every operation in it has exactly one thing that will   *)
(* end it, its fences name it in the order of acceptance, and a completion *)
(* always finds room (execute, pulse, remove_fences, remember_completed).  *)
(***************************************************************************)
THEOREM TableIsInOrder == Spec => []TableInv
<1>1. IInv /\ OrderInv /\ TabInv /\ Flags /\ Jobs /\ Told => TableInv
  BY EachIsPending, FencesAreNamed, TableTyped DEF TableInv
<1> QED
  BY <1>1, AlwaysIInv, AlwaysOrderInv, AlwaysTabInv, AlwaysFlags, AlwaysJobs, AlwaysTold, PTL
=============================================================================
