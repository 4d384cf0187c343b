----------------------- MODULE PlayerSaveWorkerProofs -----------------------
(***************************************************************************)
(* Proofs about PlayerSaveWorker, for any owners, captures and limits.     *)
(***************************************************************************)
EXTENDS PlayerSaveWorker, SequenceLemmas

(***************************************************************************)
(* What remains of a sequence after its first n elements were removed.     *)
(***************************************************************************)
LEMMA RestFacts ==
  ASSUME NEW S, NEW s \in Seq(S), NEW n \in Nat, n < Len(s)
  PROVE  LET rest == SubSeq(s, n + 1, Len(s))
         IN  /\ rest \in Seq(S)
             /\ Len(rest) = Len(s) - n
             /\ \A i \in 1 .. Len(s) - n : rest[i] = s[i + n]
<1>1. \A i \in n + 1 .. Len(s) : s[i] \in S
  BY ElementOfSeq
<1> QED
  BY <1>1, SubSeqProperties

(***************************************************************************)
(* What type correctness says of the jobs and of the numbers.              *)
(***************************************************************************)
LEMMA TypeFacts ==
  ASSUME TypeOK
  PROVE  /\ clock \in Nat /\ clock <= MaxClock /\ written \in Nat
         /\ Len(queue) \in Nat /\ Len(inflight) \in Nat /\ Len(inflight) <= 1 /\ Len(results) \in Nat
         /\ \A i \in 1 .. Len(queue) : queue[i] \in Job /\ queue[i].at \in Nat
         /\ \A i \in 1 .. Len(inflight) : inflight[i] \in Job /\ inflight[i].at \in Nat
         /\ \A i \in 1 .. Len(results) : results[i] \in Completion /\ results[i].at \in Nat
         /\ InflightBytes \in Nat
         /\ inflight # <<>> => Len(inflight) = 1 /\ Head(inflight) = inflight[1]
<1> USE LimitAssumption
<1>1. clock \in Nat /\ clock <= MaxClock /\ written \in Nat
  BY DEF TypeOK, Clock
<1>2. Len(queue) \in Nat /\ Len(inflight) \in Nat /\ Len(inflight) <= 1 /\ Len(results) \in Nat
  <2>1. /\ queue \in Seq(Job) /\ inflight \in Seq(Job) /\ results \in Seq(Completion)
        /\ Len(inflight) <= 1
    BY DEF TypeOK
  <2>2. Len(queue) \in Nat /\ Len(inflight) \in Nat /\ Len(results) \in Nat
    BY <2>1
  <2> QED
    BY <2>1, <2>2
<1>3. /\ \A i \in 1 .. Len(queue) : queue[i] \in Job
      /\ \A i \in 1 .. Len(inflight) : inflight[i] \in Job
      /\ \A i \in 1 .. Len(results) : results[i] \in Completion
  BY ElementOfSeq DEF TypeOK
<1>4. /\ \A job \in Job : job.at \in Nat /\ job.capture.bytes \in Nat
      /\ \A job \in Completion : job.at \in Nat
  BY CaptureAssumption DEF Job, Completion, Clock
<1>5. inflight # <<>> => Len(inflight) = 1 /\ Head(inflight) = inflight[1]
  <2> SUFFICES ASSUME inflight # <<>> PROVE Len(inflight) = 1 /\ Head(inflight) = inflight[1]
    OBVIOUS
  <2>1. inflight \in Seq(Job)
    BY DEF TypeOK
  <2>2. Len(inflight) # 0
    BY <2>1, EmptySeq
  <2>3. Head(inflight) = inflight[1]
    BY <2>1
  <2>4. \A k \in Nat : k <= 1 /\ k # 0 => k = 1
    OBVIOUS
  <2> QED
    BY <1>2, <2>2, <2>3, <2>4, Zenon
<1>6. InflightBytes \in Nat
  BY <1>3, <1>4, <1>5 DEF InflightBytes
<1> QED
  BY <1>1, <1>2, <1>3, <1>4, <1>5, <1>6

(***************************************************************************)
(* Every job held was admitted at a time the clock has reached.            *)
(***************************************************************************)
LEMMA AdmissionFacts ==
  ASSUME TypeOK, ClockAhead
  PROVE  /\ \A i \in 1 .. Len(queue) : queue[i].at \in 1 .. clock
         /\ \A i \in 1 .. Len(inflight) : inflight[i].at \in 1 .. clock
         /\ \A i \in 1 .. Len(results) : results[i].at \in 1 .. clock
         /\ written \in 0 .. clock
         /\ clock \in Nat
<1>1. clock \in Nat /\ written \in Nat
  BY TypeFacts
<1>2. \A i \in 1 .. Len(queue) : queue[i].at \in Nat
  BY TypeFacts
<1>3. \A i \in 1 .. Len(inflight) : inflight[i].at \in Nat
  BY TypeFacts
<1>4. \A i \in 1 .. Len(results) : results[i].at \in Nat
  BY TypeFacts
<1>5. \A i \in 1 .. Len(queue) : queue[i].at \in 1 .. clock
  BY <1>1, <1>2 DEF ClockAhead, Admitted
<1>6. \A i \in 1 .. Len(inflight) : inflight[i].at \in 1 .. clock
  BY <1>1, <1>3 DEF ClockAhead, Admitted
<1>7. \A i \in 1 .. Len(results) : results[i].at \in 1 .. clock
  BY <1>1, <1>4 DEF ClockAhead, Admitted
<1> QED
  BY <1>1, <1>5, <1>6, <1>7 DEF ClockAhead

(***************************************************************************)
(* The initial state satisfies the invariant.                              *)
(***************************************************************************)
LEMMA InitInvariant == Init => IInv
<1> SUFFICES ASSUME Init PROVE IInv
  OBVIOUS
<1> USE LimitAssumption DEF Init
<1>1. TypeOK
  <2>1. 0 \in Clock
    BY DEF Clock
  <2>2. stage \in Stages /\ outcome \in Outcomes
    BY DEF Stages, Outcomes, Succeeded
  <2>3. queue \in Seq(Job) /\ inflight \in Seq(Job) /\ results \in Seq(Completion) /\ Len(inflight) = 0
    OBVIOUS
  <2>4. running \in BOOLEAN /\ stop_requested \in BOOLEAN
    BY Zenon
  <2>5. /\ clock \in Clock /\ written \in Clock /\ queued_bytes \in Int
        /\ queued_by_owner \in [Owners -> Clock] /\ Len(inflight) <= 1
    BY <2>1, <2>3
  <2> QED
    BY <2>2, <2>3, <2>4, <2>5, Zenon DEF TypeOK
<1>2. WithinLimits
  BY DEF WithinLimits, SlotsReserved, BytesWithinBudget, InflightBytes
<1>3. StageHoldsJob /\ ClockAhead
  BY DEF StageHoldsJob, ClockAhead, Admitted
<1>4. CaptureOrder
  BY DEF CaptureOrder, Increasing, Before
<1>5. IndexNamesNewest
  BY DEF IndexNamesNewest, NewestOf
<1> QED
  BY <1>1, <1>2, <1>3, <1>4, <1>5 DEF IInv

(***************************************************************************)
(* enqueue behind the queue: the new job is the newest of all, and its     *)
(* slot and bytes were checked against everything still held.              *)
(***************************************************************************)
LEMMA EnqueueInvariant ==
  ASSUME IInv, NEW c \in Captures, Enqueue(c)
  PROVE  IInv'
<1> DEFINE job == [capture |-> c, at |-> clock + 1]
<1> USE LimitAssumption
<1>0. TypeOK /\ WithinLimits /\ StageHoldsJob /\ ClockAhead /\ CaptureOrder /\ IndexNamesNewest
  BY DEF IInv
<1>1. /\ clock' = clock + 1 /\ clock' \in Clock /\ clock \in Nat
      /\ job \in Job /\ c.owner \in Owners /\ c.bytes \in Nat
  BY <1>0, CaptureAssumption DEF Enqueue, TypeOK, Clock, Job
<1>2. /\ queue' = Append(queue, job) /\ queue \in Seq(Job) /\ queue' \in Seq(Job)
      /\ Len(queue') = Len(queue) + 1 /\ Len(queue) \in Nat
      /\ \A i \in 1 .. Len(queue) : queue'[i] = queue[i]
      /\ queue'[Len(queue) + 1] = job
  BY <1>0, <1>1 DEF Enqueue, TypeOK
<1>3. /\ queued_by_owner' = [queued_by_owner EXCEPT ![c.owner] = clock + 1]
      /\ queued_by_owner \in [Owners -> Clock]
      /\ UNCHANGED <<inflight, stage, outcome, results, running, stop_requested, written>>
  BY <1>0, <1>1 DEF Enqueue, TypeOK
<1>4. TypeOK'
  BY <1>0, <1>1, <1>2, <1>3 DEF TypeOK, Enqueue, BytesAfter
<1>5. WithinLimits'
  <2>1. SlotsReserved'
    BY <1>0, <1>2, <1>3 DEF Enqueue, HasSlot, SlotsReserved, TypeOK
  <2>2. InflightBytes' = InflightBytes
    BY <1>3 DEF InflightBytes
  <2>3. InflightBytes \in Nat
    BY <1>0, TypeFacts
  <2>4. queued_bytes \in Int /\ MaxBytes \in Nat
    BY <1>0 DEF TypeOK
  <2> QED
    BY <1>1, <2>1, <2>2, <2>3, <2>4 DEF Enqueue, Fits, BytesAfter, WithinLimits, BytesWithinBudget
<1>6. StageHoldsJob'
  BY <1>0, <1>3 DEF StageHoldsJob
<1>7. ClockAhead'
  <2>1. Admitted(queue)'
    BY <1>0, <1>1, <1>2, TypeFacts DEF ClockAhead, Admitted
  <2>2. Admitted(inflight)' /\ Admitted(results)'
    BY <1>0, <1>1, <1>3, TypeFacts DEF ClockAhead, Admitted
  <2>3. written' <= clock'
    BY <1>0, <1>1, <1>3, TypeFacts DEF ClockAhead
  <2> QED
    BY <2>1, <2>2, <2>3 DEF ClockAhead
<1>8. CaptureOrder'
  <2>1. /\ \A i \in 1 .. Len(queue) : queue[i].at < job.at /\ queue[i].at \in Nat
        /\ \A i \in 1 .. Len(inflight) : inflight[i].at < job.at
        /\ \A i \in 1 .. Len(results) : results[i].at < job.at
        /\ written < job.at
    BY <1>0, <1>1, TypeFacts DEF ClockAhead, Admitted
  <2>2. Increasing(queue)'
    <3> SUFFICES ASSUME NEW i \in 1 .. Len(queue'), NEW j \in 1 .. Len(queue'), i < j
                 PROVE  queue'[i].at < queue'[j].at
      BY DEF Increasing
    <3>1. i \in 1 .. Len(queue) /\ queue'[i] = queue[i]
      BY <1>2
    <3>2. CASE j \in 1 .. Len(queue)
      BY <1>0, <1>2, <3>1, <3>2 DEF CaptureOrder, Increasing
    <3>3. CASE j = Len(queue) + 1
      BY <1>2, <2>1, <3>1, <3>3
    <3> QED
      BY <1>2, <3>2, <3>3
  <2>3. Before(results, queue)' /\ Before(inflight, queue)'
    BY <1>0, <1>2, <1>3, <2>1 DEF CaptureOrder, Before
  <2>4. Increasing(results)' /\ Before(results, inflight)'
    BY <1>0, <1>3 DEF CaptureOrder, Before, Increasing
  <2>5. /\ \A i \in 1 .. Len(inflight') : written' <= inflight'[i].at
        /\ \A i \in 1 .. Len(queue') : written' < queue'[i].at
    BY <1>0, <1>2, <1>3, <2>1 DEF CaptureOrder
  <2> QED
    BY <2>2, <2>3, <2>4, <2>5 DEF CaptureOrder
<1>9. IndexNamesNewest'
  <2> SUFFICES ASSUME NEW o \in Owners PROVE NewestOf(o, queued_by_owner[o])'
    BY DEF IndexNamesNewest
  <2>1. NewestOf(o, queued_by_owner[o])
    BY <1>0 DEF IndexNamesNewest
  <2>2. CASE o = c.owner
    <3>1. queued_by_owner'[o] = clock + 1 /\ clock + 1 # 0
      BY <1>1, <1>3, <2>2
    <3>2. /\ Len(queue) + 1 \in 1 .. Len(queue')
          /\ queue'[Len(queue) + 1].capture.owner = o
          /\ queue'[Len(queue) + 1].at = clock + 1
          /\ \A j \in 1 .. Len(queue') : j <= Len(queue) + 1
      BY <1>2, <2>2
    <3> QED
      BY <3>1, <3>2 DEF NewestOf
  <2>3. CASE o # c.owner
    <3>1. queued_by_owner'[o] = queued_by_owner[o]
      BY <1>1, <1>3, <2>3
    <3> QED
      BY <1>1, <1>2, <2>1, <2>3, <3>1 DEF NewestOf
  <2> QED
    BY <2>2, <2>3
<1> QED
  BY <1>4, <1>5, <1>6, <1>7, <1>8, <1>9 DEF IInv

(***************************************************************************)
(* enqueue over the tail: the replaced job was the newest of its owner,    *)
(* and the newest of all, and so is the job that takes its place.          *)
(***************************************************************************)
LEMMA ReplaceInvariant ==
  ASSUME IInv, NEW c \in Captures, Replace(c)
  PROVE  IInv'
<1> DEFINE job == [capture |-> c, at |-> clock + 1]
           n == Len(queue)
<1> USE LimitAssumption
<1>0. TypeOK /\ WithinLimits /\ StageHoldsJob /\ ClockAhead /\ CaptureOrder /\ IndexNamesNewest
  BY DEF IInv
<1>1. /\ clock' = clock + 1 /\ clock' \in Clock /\ clock \in Nat
      /\ job \in Job /\ c.owner \in Owners /\ c.bytes \in Nat
  BY <1>0, CaptureAssumption DEF Replace, TypeOK, Clock, Job
<1>2. /\ queue # <<>> /\ queue \in Seq(Job)
      /\ queued_by_owner[c.owner] = Last(queue).at
      /\ queue' = Append(Front(queue), job)
  BY <1>0 DEF Replace, ReplacesTail, TypeOK
<1>3. /\ n \in Nat \ {0} /\ Front(queue) \in Seq(Job) /\ Len(Front(queue)) = n - 1
      /\ \A i \in 1 .. n - 1 : Front(queue)[i] = queue[i]
      /\ Last(queue) = queue[n] /\ Last(queue) \in Job
  BY <1>2, FrontFacts
<1>4. /\ queue' \in Seq(Job) /\ Len(queue') = n
      /\ \A i \in 1 .. n - 1 : queue'[i] = queue[i]
      /\ queue'[n] = job
  BY <1>1, <1>2, <1>3
<1>5. /\ queued_by_owner' = [queued_by_owner EXCEPT ![c.owner] = clock + 1]
      /\ queued_by_owner \in [Owners -> Clock]
      /\ UNCHANGED <<inflight, stage, outcome, results, running, stop_requested, written>>
  BY <1>0, <1>1 DEF Replace, TypeOK
<1>6. Last(queue).capture.bytes \in Nat /\ InflightBytes \in Nat /\ queued_bytes \in Int
  BY <1>0, <1>3, CaptureAssumption, TypeFacts DEF Job, TypeOK
<1>7. TypeOK'
  <2>1. queued_bytes' \in Int
    BY <1>1, <1>6 DEF Replace, BytesAfter
  <2> QED
    BY <1>0, <1>1, <1>4, <1>5, <2>1 DEF TypeOK
<1>8. WithinLimits'
  <2>1. SlotsReserved'
    BY <1>0, <1>4, <1>5 DEF SlotsReserved, WithinLimits
  <2>2. InflightBytes' = InflightBytes
    BY <1>5 DEF InflightBytes
  <2> QED
    BY <1>1, <1>6, <2>1, <2>2, SMTT(30) DEF Replace, Fits, BytesAfter, WithinLimits, BytesWithinBudget
<1>9. StageHoldsJob'
  BY <1>0, <1>5 DEF StageHoldsJob
<1>10. ClockAhead'
  <2>1. Admitted(queue)'
    <3> SUFFICES ASSUME NEW i \in 1 .. n PROVE 0 < queue'[i].at /\ queue'[i].at <= clock'
      BY <1>4 DEF Admitted
    <3>1. queue[i].at \in 1 .. clock
      BY <1>0, AdmissionFacts
    <3>2. CASE i \in 1 .. n - 1
      BY <1>1, <1>4, <3>1, <3>2
    <3>3. CASE i = n
      BY <1>1, <1>4, <3>3
    <3> QED
      BY <1>3, <3>2, <3>3
  <2>2. Admitted(inflight)' /\ Admitted(results)'
    BY <1>0, <1>1, <1>5, TypeFacts DEF ClockAhead, Admitted
  <2>3. written' <= clock'
    BY <1>0, <1>1, <1>5, TypeFacts DEF ClockAhead
  <2> QED
    BY <2>1, <2>2, <2>3 DEF ClockAhead
<1>11. CaptureOrder'
  <2>1. /\ \A i \in 1 .. n : queue[i].at < job.at
        /\ \A i \in 1 .. Len(inflight) : inflight[i].at < job.at
        /\ \A i \in 1 .. Len(results) : results[i].at < job.at
        /\ written < job.at
    BY <1>0, AdmissionFacts
  <2>2. Increasing(queue)'
    <3> SUFFICES ASSUME NEW i \in 1 .. Len(queue'), NEW j \in 1 .. Len(queue'), i < j
                 PROVE  queue'[i].at < queue'[j].at
      BY DEF Increasing
    <3>1. i \in 1 .. n - 1 /\ queue'[i] = queue[i] /\ i \in 1 .. n
      BY <1>3, <1>4
    <3>2. CASE j \in 1 .. n - 1
      BY <1>0, <1>3, <1>4, <3>1, <3>2 DEF CaptureOrder, Increasing
    <3>3. CASE j = n
      BY <1>4, <2>1, <3>1, <3>3
    <3> QED
      BY <1>3, <1>4, <3>2, <3>3
  <2>3. \A j \in 1 .. n : j = n \/ j \in 1 .. n - 1
    BY <1>3
  <2>6. Before(results, queue)'
    BY <1>0, <1>4, <1>5, <2>1, <2>3 DEF CaptureOrder, Before
  <2>7. Before(inflight, queue)'
    BY <1>0, <1>4, <1>5, <2>1, <2>3 DEF CaptureOrder, Before
  <2>4. Increasing(results)' /\ Before(results, inflight)'
    BY <1>0, <1>5 DEF CaptureOrder, Before, Increasing
  <2>5. /\ \A i \in 1 .. Len(inflight') : written' <= inflight'[i].at
        /\ \A i \in 1 .. Len(queue') : written' < queue'[i].at
    BY <1>0, <1>3, <1>4, <1>5, <2>1 DEF CaptureOrder
  <2> QED
    BY <2>2, <2>4, <2>5, <2>6, <2>7 DEF CaptureOrder
<1>12. IndexNamesNewest'
  <2>1. queue[n].capture.owner = c.owner
    <3>1. NewestOf(c.owner, queued_by_owner[c.owner])
      BY <1>0, <1>1 DEF IndexNamesNewest
    <3>2. queued_by_owner[c.owner] # 0
      BY <1>0, <1>2, <1>3 DEF ClockAhead, Admitted
    <3>3. PICK i \in 1 .. n : queue[i].capture.owner = c.owner /\ queue[i].at = queue[n].at
      BY <1>2, <1>3, <3>1, <3>2 DEF NewestOf
    <3>4. i = n
      BY <1>0, <1>3, <3>3, TypeFacts DEF CaptureOrder, Increasing
    <3> QED
      BY <3>3, <3>4
  <2> SUFFICES ASSUME NEW o \in Owners PROVE NewestOf(o, queued_by_owner[o])'
    BY DEF IndexNamesNewest
  <2>2. CASE o = c.owner
    <3>1. queued_by_owner'[o] = clock + 1 /\ clock + 1 # 0
      BY <1>1, <1>5, <2>2
    <3>2. /\ n \in 1 .. Len(queue')
          /\ queue'[n].capture.owner = o
          /\ queue'[n].at = clock + 1
          /\ \A j \in 1 .. Len(queue') : j <= n
      BY <1>3, <1>4, <2>2
    <3> QED
      BY <3>1, <3>2 DEF NewestOf
  <2>3. CASE o # c.owner
    <3>1. queued_by_owner'[o] = queued_by_owner[o] /\ NewestOf(o, queued_by_owner[o])
      BY <1>0, <1>1, <1>5, <2>3 DEF IndexNamesNewest
    <3>2. queue'[n].capture.owner # o /\ queue[n].capture.owner # o
      BY <1>4, <2>1, <2>3
    <3>3. \A j \in 1 .. n : j = n \/ (j \in 1 .. n - 1 /\ queue'[j] = queue[j])
      BY <1>3, <1>4
    <3> QED
      BY <1>4, <3>1, <3>2, <3>3 DEF NewestOf
  <2> QED
    BY <2>2, <2>3
<1> QED
  BY <1>7, <1>8, <1>9, <1>10, <1>11, <1>12 DEF IInv

(***************************************************************************)
(* The writer takes the head: the oldest job moves from the queue to the   *)
(* writer, with its slot and its bytes.                                    *)
(***************************************************************************)
LEMMA TakeJobInvariant ==
  ASSUME IInv, TakeJob
  PROVE  IInv'
<1> DEFINE job == queue[1]
           n == Len(queue)
<1> USE LimitAssumption
<1>0. TypeOK /\ WithinLimits /\ StageHoldsJob /\ ClockAhead /\ CaptureOrder /\ IndexNamesNewest
  BY DEF IInv
<1>1. /\ queue # <<>> /\ queue \in Seq(Job) /\ stage = "waiting" /\ inflight = <<>>
      /\ UNCHANGED <<clock, outcome, results, running, stop_requested, written>>
  BY <1>0 DEF TakeJob, MayTake, TypeOK, StageHoldsJob
<1>2. /\ n \in Nat \ {0} /\ Head(queue) = job /\ job \in Job
      /\ queue' \in Seq(Job) /\ Len(queue') = n - 1
      /\ \A i \in 1 .. n - 1 : queue'[i] = queue[i + 1] /\ i + 1 \in 1 .. n
  <2>1. n \in Nat \ {0}
    BY <1>1, EmptySeq
  <2> QED
    BY <1>1, <2>1, ElementOfSeq DEF TakeJob
<1>3. inflight' = <<job>> /\ Len(inflight') = 1 /\ inflight'[1] = job /\ inflight' \in Seq(Job)
  BY <1>1, <1>2 DEF TakeJob
<1>4. /\ job.capture.bytes \in Nat /\ job.capture.owner \in Owners /\ queued_bytes \in Int
      /\ queued_bytes' = queued_bytes - job.capture.bytes
  BY <1>0, <1>2, CaptureAssumption DEF TakeJob, Job, TypeOK
<1>5. /\ queued_by_owner \in [Owners -> Clock] /\ queued_by_owner' = IndexWithout(job)
      /\ queued_by_owner' \in [Owners -> Clock] /\ stage' = "writing"
  <2>1. 0 \in Clock
    BY DEF Clock
  <2>2. queued_by_owner' = IndexWithout(job) /\ queued_by_owner \in [Owners -> Clock]
    BY <1>0, <1>2 DEF TakeJob, TypeOK
  <2>3. IndexWithout(job) \in [Owners -> Clock]
    BY <1>4, <2>1, <2>2 DEF IndexWithout
  <2> QED
    BY <2>2, <2>3 DEF TakeJob
<1>6. TypeOK'
  <2>1. queued_bytes' \in Int
    BY <1>4
  <2>2. stage' \in Stages /\ Len(inflight') <= 1
    BY <1>3, <1>5 DEF Stages
  <2> QED
    BY <1>0, <1>1, <1>2, <1>3, <1>5, <2>1, <2>2 DEF TypeOK
<1>7. WithinLimits'
  <2>1. SlotsReserved'
    <3>1. Len(inflight) = 0 /\ Len(results) \in Nat
      BY <1>0, <1>1, TypeFacts
    <3>2. n + Len(results) <= MaxJobs
      BY <1>0, <1>2, <3>1 DEF WithinLimits, SlotsReserved
    <3> QED
      BY <1>1, <1>2, <1>3, <3>1, <3>2 DEF SlotsReserved
  <2>2. InflightBytes' = job.capture.bytes /\ InflightBytes = 0
    BY <1>1, <1>3 DEF InflightBytes
  <2> QED
    BY <1>0, <1>4, <2>1, <2>2 DEF WithinLimits, BytesWithinBudget
<1>8. StageHoldsJob'
  BY <1>3, <1>5 DEF StageHoldsJob
<1>9. ClockAhead'
  <2>1. Admitted(queue)'
    BY <1>0, <1>1, <1>2 DEF ClockAhead, Admitted
  <2>2. Admitted(inflight)'
    BY <1>0, <1>1, <1>2, <1>3 DEF ClockAhead, Admitted
  <2> QED
    BY <1>0, <1>1, <2>1, <2>2 DEF ClockAhead, Admitted
<1>10. CaptureOrder'
  <2>1. Increasing(queue)'
    <3> SUFFICES ASSUME NEW i \in 1 .. n - 1, NEW j \in 1 .. n - 1, i < j
                 PROVE  queue'[i].at < queue'[j].at
      BY <1>2 DEF Increasing
    <3>1. i + 1 \in 1 .. n /\ j + 1 \in 1 .. n /\ i + 1 < j + 1
      BY <1>2
    <3> QED
      BY <1>0, <1>2, <3>1 DEF CaptureOrder, Increasing
  <2>2. Before(inflight, queue)'
    <3> SUFFICES ASSUME NEW j \in 1 .. n - 1 PROVE job.at < queue'[j].at
      BY <1>2, <1>3 DEF Before
    <3>1. 1 \in 1 .. n /\ j + 1 \in 1 .. n /\ 1 < j + 1
      BY <1>2
    <3> QED
      BY <1>0, <1>2, <3>1 DEF CaptureOrder, Increasing
  <2>3. Before(results, queue)' /\ Before(results, inflight)' /\ Increasing(results)'
    <3>1. Before(results, queue) /\ Increasing(results)
      BY <1>0 DEF CaptureOrder
    <3>2. ASSUME NEW i \in 1 .. Len(results), NEW j \in 1 .. n - 1
          PROVE  results[i].at < queue'[j].at
      <4>1. j + 1 \in 1 .. n
        BY <1>2
      <4> QED BY <1>2, <3>1, <4>1 DEF Before
    <3>3. ASSUME NEW i \in 1 .. Len(results) PROVE results[i].at < job.at
      <4>1. 1 \in 1 .. n
        BY <1>2
      <4> QED BY <3>1, <4>1 DEF Before
    <3>4. Before(results, queue)'
      BY <1>1, <1>2, <3>2 DEF Before
    <3>5. Before(results, inflight)'
      BY <1>1, <1>3, <3>3 DEF Before
    <3>6. Increasing(results)'
      BY <1>1, <3>1 DEF Increasing
    <3> QED BY <3>4, <3>5, <3>6
  <2>4. \A i \in 1 .. Len(inflight') : written' <= inflight'[i].at
    BY <1>0, <1>1, <1>2, <1>3, AdmissionFacts DEF CaptureOrder
  <2>5. \A i \in 1 .. Len(queue') : written' < queue'[i].at
    BY <1>0, <1>1, <1>2 DEF CaptureOrder
  <2> QED
    BY <2>1, <2>2, <2>3, <2>4, <2>5 DEF CaptureOrder
<1>11. IndexNamesNewest'
  <2> SUFFICES ASSUME NEW o \in Owners PROVE NewestOf(o, queued_by_owner[o])'
    BY DEF IndexNamesNewest
  <2>1. NewestOf(o, queued_by_owner[o])
    BY <1>0 DEF IndexNamesNewest
  <2>2. CASE o = job.capture.owner /\ queued_by_owner[o] = job.at
    <3>1. queued_by_owner'[o] = 0
      BY <1>5, <2>2 DEF IndexWithout
    <3>2. queued_by_owner[o] # 0
      BY <1>0, <1>2, <2>2 DEF ClockAhead, Admitted
    <3>3. PICK i \in 1 .. n : /\ queue[i].at = job.at
                              /\ \A j \in 1 .. n : queue[j].capture.owner = o => j <= i
      BY <2>1, <2>2, <3>2 DEF NewestOf
    <3>4. i = 1
      <4>1. i \in Nat /\ 1 \in 1 .. n /\ (i = 1 \/ 1 < i)
        BY <1>2
      <4>2. job.at \in Nat
        BY <1>0, <4>1, TypeFacts
      <4> QED
        BY <1>0, <3>3, <4>1, <4>2 DEF CaptureOrder, Increasing
    <3>5. \A j \in 1 .. n - 1 : queue'[j].capture.owner # o
      BY <1>2, <3>3, <3>4
    <3> QED
      BY <1>2, <3>1, <3>5 DEF NewestOf
  <2>3. CASE ~(o = job.capture.owner /\ queued_by_owner[o] = job.at)
    <3>1. queued_by_owner'[o] = queued_by_owner[o]
      BY <1>4, <1>5, <2>3 DEF IndexWithout
    <3>2. CASE queued_by_owner[o] = 0
      BY <1>2, <2>1, <3>1, <3>2 DEF NewestOf
    <3>3. CASE queued_by_owner[o] # 0
      <4>1. PICK i \in 1 .. n : /\ queue[i].capture.owner = o /\ queue[i].at = queued_by_owner[o]
                                /\ \A j \in 1 .. n : queue[j].capture.owner = o => j <= i
        BY <2>1, <3>3 DEF NewestOf
      <4>2. i # 1
        BY <2>3, <4>1
      <4>3. i - 1 \in 1 .. n - 1 /\ queue'[i - 1] = queue[i]
        <5>1. i - 1 \in 1 .. n - 1
          BY <1>2, <4>2
        <5>2. queue'[i - 1] = queue[(i - 1) + 1] /\ (i - 1) + 1 = i
          BY <1>2, <5>1
        <5> QED
          BY <5>1, <5>2
      <4>4. \A j \in 1 .. n - 1 : queue'[j].capture.owner = o => j <= i - 1
        BY <1>2, <4>1, SMTT(30)
      <4> QED
        BY <1>2, <3>1, <3>3, <4>1, <4>3, <4>4 DEF NewestOf
    <3> QED
      BY <3>2, <3>3
  <2> QED
    BY <2>2, <2>3
<1> QED
  BY <1>6, <1>7, <1>8, <1>9, <1>10, <1>11 DEF IInv

(***************************************************************************)
(* A step that moves no job keeps the invariant when it keeps the types    *)
(* and the stage it enters agrees with the job in flight.                  *)
(***************************************************************************)
LEMMA ControlInvariant ==
  ASSUME IInv, TypeOK', StageHoldsJob',
         UNCHANGED <<clock, queue, queued_by_owner, queued_bytes, inflight, results, written>>
  PROVE  IInv'
<1>0. WithinLimits /\ ClockAhead /\ CaptureOrder /\ IndexNamesNewest
  BY DEF IInv
<1>1. WithinLimits'
  BY <1>0 DEF WithinLimits, SlotsReserved, BytesWithinBudget, InflightBytes
<1>2. ClockAhead'
  BY <1>0 DEF ClockAhead, Admitted
<1>3. CaptureOrder'
  BY <1>0 DEF CaptureOrder, Increasing, Before
<1>4. IndexNamesNewest'
  BY <1>0 DEF IndexNamesNewest, NewestOf
<1> QED
  BY <1>1, <1>2, <1>3, <1>4 DEF IInv

(***************************************************************************)
(* The write of the job in flight: its effect comes after every write      *)
(* before it and before every job still queued.                            *)
(***************************************************************************)
LEMMA WriteJobInvariant ==
  ASSUME IInv, NEW o \in Outcomes, NEW effective \in BOOLEAN, WriteJob(o, effective)
  PROVE  IInv'
<1>0. TypeOK /\ WithinLimits /\ StageHoldsJob /\ ClockAhead /\ CaptureOrder /\ IndexNamesNewest
  BY DEF IInv
<1>1. /\ stage = "writing" /\ outcome' = o
      /\ stage' \in {"acking", "completing", "retrying"}
      /\ UNCHANGED <<clock, queue, queued_by_owner, queued_bytes, inflight, results,
                     running, stop_requested>>
  BY DEF WriteJob
<1>2. Len(inflight) = 1 /\ Head(inflight) = inflight[1] /\ inflight[1] \in Job
  <2>1. Len(inflight) = 1
    BY <1>0, <1>1 DEF StageHoldsJob
  <2>2. inflight # <<>>
    BY <2>1
  <2> QED
    BY <1>0, <2>1, <2>2, TypeFacts
<1>3. written' = written \/ written' = inflight[1].at
  BY <1>2 DEF WriteJob
<1>4. TypeOK'
  <2>1. written' \in Clock
    BY <1>0, <1>2, <1>3 DEF TypeOK, Job
  <2>2. stage' \in Stages
    BY <1>1 DEF Stages
  <2> QED
    BY <1>0, <1>1, <2>1, <2>2 DEF TypeOK
<1>5. WithinLimits'
  BY <1>0, <1>1 DEF WithinLimits, SlotsReserved, BytesWithinBudget, InflightBytes
<1>6. StageHoldsJob'
  BY <1>1, <1>2 DEF StageHoldsJob
<1>7. inflight[1].at \in 1 .. clock /\ clock \in Nat
  BY <1>0, <1>2, AdmissionFacts
<1>8. ClockAhead'
  <2>1. written' <= clock'
    BY <1>0, <1>1, <1>3, <1>7 DEF ClockAhead
  <2> QED
    BY <1>0, <1>1, <2>1 DEF ClockAhead, Admitted
<1>9. CaptureOrder'
  <2>1. written' <= inflight[1].at
    BY <1>0, <1>2, <1>3, <1>7 DEF CaptureOrder
  <2>2. \A i \in 1 .. Len(queue) : inflight[1].at < queue[i].at
    BY <1>0, <1>2 DEF CaptureOrder, Before
  <2>3. \A i \in 1 .. Len(queue') : written' < queue'[i].at
    BY <1>0, <1>1, <1>3, <2>2 DEF CaptureOrder
  <2>4. \A i \in 1 .. Len(inflight') : written' <= inflight'[i].at
    BY <1>1, <1>2, <2>1
  <2> QED
    BY <1>0, <1>1, <2>3, <2>4 DEF CaptureOrder, Increasing, Before
<1>10. IndexNamesNewest'
  BY <1>0, <1>1 DEF IndexNamesNewest, NewestOf
<1> QED
  BY <1>4, <1>5, <1>6, <1>8, <1>9, <1>10 DEF IInv

(***************************************************************************)
(* Completion: the job in flight gives its slot to its completion, which   *)
(* is the newest of the completions and older than everything queued.      *)
(***************************************************************************)
LEMMA CompleteInvariant ==
  ASSUME IInv, Complete
  PROVE  IInv'
<1> DEFINE job == inflight[1]
           completion == [capture |-> job.capture, at |-> job.at, outcome |-> outcome]
           n == Len(results)
<1>0. TypeOK /\ WithinLimits /\ StageHoldsJob /\ ClockAhead /\ CaptureOrder /\ IndexNamesNewest
  BY DEF IInv
<1>1. /\ stage = "completing" /\ stage' \in {"leaving", "waiting"} /\ outcome' = "applied"
      /\ stage' = IF stop_requested THEN "leaving" ELSE "waiting"
      /\ UNCHANGED <<clock, queue, queued_by_owner, queued_bytes, running, stop_requested, written>>
  BY DEF Complete
<1>2. Len(inflight) = 1 /\ Head(inflight) = job /\ job \in Job
  <2>1. Len(inflight) = 1
    BY <1>0, <1>1 DEF StageHoldsJob
  <2>2. inflight # <<>>
    BY <2>1
  <2> QED
    BY <1>0, <2>1, <2>2, TypeFacts
<1>3. stage' \in Stages /\ outcome' \in Outcomes
  BY <1>1 DEF Stages, Outcomes, Succeeded
<1>4. CASE Abandoned
  <2>1. results' = results /\ inflight' = inflight /\ stage' = "leaving"
    BY <1>1, <1>4 DEF Complete, Abandoned
  <2>2. TypeOK'
    BY <1>0, <1>1, <1>3, <2>1 DEF TypeOK
  <2>3. StageHoldsJob'
    BY <2>1 DEF StageHoldsJob
  <2> QED
    BY <1>1, <2>1, <2>2, <2>3, ControlInvariant
<1>5. CASE ~Abandoned
  <2>1. results' = Append(results, completion) /\ inflight' = <<>>
    BY <1>2, <1>5 DEF Complete
  <2>2. completion \in Completion
    BY <1>0, <1>2 DEF TypeOK, Job, Completion
  <2>3. /\ results \in Seq(Completion) /\ results' \in Seq(Completion)
        /\ n \in Nat /\ Len(results') = n + 1
        /\ \A i \in 1 .. n : results'[i] = results[i]
        /\ results'[n + 1] = completion
        /\ \A i \in 1 .. n + 1 : i = n + 1 \/ i \in 1 .. n
    BY <1>0, <2>1, <2>2 DEF TypeOK
  <2>4. inflight' \in Seq(Job) /\ Len(inflight') = 0
    BY <2>1
  <2>5. TypeOK'
    BY <1>0, <1>1, <1>3, <2>3, <2>4 DEF TypeOK
  <2>6. WithinLimits'
    <3>1. SlotsReserved'
      BY <1>0, <1>1, <1>2, <2>3, <2>4, TypeFacts DEF WithinLimits, SlotsReserved
    <3>2. InflightBytes \in Nat /\ InflightBytes' = 0 /\ queued_bytes \in Int
      BY <1>0, <2>1, TypeFacts DEF InflightBytes, TypeOK
    <3>3. BytesWithinBudget'
      BY <1>0, <1>1, <3>2, LimitAssumption DEF WithinLimits, BytesWithinBudget
    <3> QED
      BY <3>1, <3>3 DEF WithinLimits
  <2>7. StageHoldsJob'
    BY <1>1, <2>1 DEF StageHoldsJob
  <2>8. job.at \in 1 .. clock
    BY <1>0, <1>2, AdmissionFacts
  <2>9. ClockAhead'
    <3>1. Admitted(results)'
      BY <1>0, <1>1, <2>3, <2>8 DEF ClockAhead, Admitted
    <3> QED
      BY <1>0, <1>1, <2>4, <3>1 DEF ClockAhead, Admitted
  <2>10. CaptureOrder'
    <3>1. /\ \A i \in 1 .. n : results[i].at < completion.at
          /\ \A i \in 1 .. Len(queue) : completion.at < queue[i].at
      BY <1>0, <1>2 DEF CaptureOrder, Before
    <3>2. Increasing(results)'
      <4> SUFFICES ASSUME NEW i \in 1 .. n + 1, NEW j \in 1 .. n + 1, i < j
                   PROVE  results'[i].at < results'[j].at
        BY <2>3 DEF Increasing
      <4>1. i \in 1 .. n
        BY <2>3
      <4>2. CASE j \in 1 .. n
        BY <1>0, <2>3, <4>1, <4>2 DEF CaptureOrder, Increasing
      <4>3. CASE j = n + 1
        BY <2>3, <3>1, <4>1, <4>3
      <4> QED
        BY <2>3, <4>2, <4>3
    <3>3. Before(results, queue)'
      BY <1>0, <1>1, <2>3, <3>1 DEF CaptureOrder, Before
    <3> QED
      BY <1>0, <1>1, <2>4, <3>2, <3>3 DEF CaptureOrder, Increasing, Before
  <2>11. IndexNamesNewest'
    BY <1>0, <1>1 DEF IndexNamesNewest, NewestOf
  <2> QED
    BY <2>5, <2>6, <2>7, <2>9, <2>10, <2>11 DEF IInv
<1> QED
  BY <1>4, <1>5

(***************************************************************************)
(* The game consumes the oldest completions.                               *)
(***************************************************************************)
LEMMA PulseInvariant ==
  ASSUME IInv, NEW n \in Nat, Pulse(n)
  PROVE  IInv'
<1> DEFINE d == Len(results) - Len(results')
<1>0. TypeOK /\ WithinLimits /\ StageHoldsJob /\ ClockAhead /\ CaptureOrder /\ IndexNamesNewest
  BY DEF IInv
<1>1. UNCHANGED <<clock, queue, queued_by_owner, queued_bytes, inflight, stage, outcome,
                  running, stop_requested, written>>
  BY DEF Pulse
<1>2. results \in Seq(Completion) /\ Len(results) \in Nat
  BY <1>0 DEF TypeOK
<1>3. /\ results' \in Seq(Completion) /\ Len(results') \in Nat /\ Len(results') <= Len(results)
      /\ \A i \in 1 .. Len(results') : results'[i] = results[i + d] /\ i + d \in 1 .. Len(results)
  <2>1. CASE n < Len(results)
    <3>1. results' = SubSeq(results, n + 1, Len(results))
      BY <2>1 DEF Pulse
    <3>2. /\ results' \in Seq(Completion) /\ Len(results') = Len(results) - n
          /\ \A i \in 1 .. Len(results) - n : results'[i] = results[i + n]
      BY <1>2, <2>1, <3>1, RestFacts
    <3> QED
      BY <1>2, <2>1, <3>2
  <2>2. CASE ~(n < Len(results))
    <3>1. results' = <<>> /\ Len(results') = 0 /\ results' \in Seq(Completion)
      BY <2>2 DEF Pulse
    <3> QED
      BY <1>2, <3>1
  <2> QED
    BY <2>1, <2>2
<1>4. TypeOK'
  BY <1>0, <1>1, <1>3 DEF TypeOK
<1>5. WithinLimits'
  <2>1. SlotsReserved'
    BY <1>0, <1>1, <1>2, <1>3, LimitAssumption, TypeFacts DEF WithinLimits, SlotsReserved
  <2> QED
    BY <1>0, <1>1, <2>1 DEF WithinLimits, BytesWithinBudget, InflightBytes
<1>6. StageHoldsJob'
  BY <1>0, <1>1 DEF StageHoldsJob
<1>7. ClockAhead'
  <2>1. Admitted(results)'
    BY <1>0, <1>1, <1>3 DEF ClockAhead, Admitted
  <2> QED
    BY <1>0, <1>1, <2>1 DEF ClockAhead, Admitted
<1>8. CaptureOrder'
  <2>1. Increasing(results)'
    <3> SUFFICES ASSUME NEW i \in 1 .. Len(results'), NEW j \in 1 .. Len(results'), i < j
                 PROVE  results'[i].at < results'[j].at
      BY DEF Increasing
    <3>1. i + d \in 1 .. Len(results) /\ j + d \in 1 .. Len(results) /\ i + d < j + d
      BY <1>2, <1>3
    <3> QED
      BY <1>0, <1>3, <3>1 DEF CaptureOrder, Increasing
  <2>2. Before(results, inflight)' /\ Before(results, queue)'
    BY <1>0, <1>1, <1>3 DEF CaptureOrder, Before
  <2> QED
    BY <1>0, <1>1, <2>1, <2>2 DEF CaptureOrder, Increasing, Before
<1>9. IndexNamesNewest'
  BY <1>0, <1>1 DEF IndexNamesNewest, NewestOf
<1> QED
  BY <1>4, <1>5, <1>6, <1>7, <1>8, <1>9 DEF IInv

(***************************************************************************)
(* Every step of the worker keeps the invariant.                           *)
(***************************************************************************)
LEMMA NextInvariant == IInv /\ [Next]_vars => IInv'
<1> SUFFICES ASSUME IInv, [Next]_vars PROVE IInv'
  OBVIOUS
<1>0. TypeOK /\ StageHoldsJob
  BY DEF IInv
<1>1. CASE WorkerInit
  <2>1. TypeOK' /\ StageHoldsJob'
    BY <1>0, <1>1 DEF WorkerInit, TypeOK, Stages, StageHoldsJob
  <2> QED
    BY <1>1, <2>1, ControlInvariant DEF WorkerInit
<1>2. CASE \E c \in Captures : Submit(c)
  BY <1>2, EnqueueInvariant, ReplaceInvariant DEF Submit
<1>3. CASE TakeJob
  BY <1>3, TakeJobInvariant
<1>4. CASE \E o \in Outcomes, effective \in BOOLEAN : WriteJob(o, effective)
  BY <1>4, WriteJobInvariant
<1>5. CASE \E acked \in BOOLEAN : AckJournal(acked)
  <2>1. TypeOK' /\ StageHoldsJob'
    BY <1>0, <1>5 DEF AckJournal, TypeOK, Stages, Outcomes, ConnectionLost, StageHoldsJob
  <2> QED
    BY <1>5, <2>1, ControlInvariant DEF AckJournal
<1>6. CASE Retry
  <2>1. TypeOK' /\ StageHoldsJob'
    BY <1>0, <1>6 DEF Retry, AfterRetry, TypeOK, Stages, StageHoldsJob
  <2> QED
    BY <1>6, <2>1, ControlInvariant DEF Retry
<1>7. CASE Complete
  BY <1>7, CompleteInvariant
<1>8. CASE WriterExit
  <2>1. TypeOK' /\ StageHoldsJob'
    BY <1>0, <1>8 DEF WriterExit, TypeOK, Stages, StageHoldsJob
  <2> QED
    BY <1>8, <2>1, ControlInvariant DEF WriterExit
<1>9. CASE \E n \in 1 .. MaxJobs : Pulse(n)
  BY <1>9, PulseInvariant, LimitAssumption
<1>10. CASE RequestStop
  <2>1. TypeOK' /\ StageHoldsJob'
    BY <1>0, <1>10 DEF RequestStop, TypeOK, Stages, StageHoldsJob
  <2> QED
    BY <1>10, <2>1, ControlInvariant DEF RequestStop
<1>11. CASE FinishStop
  <2>1. TypeOK' /\ StageHoldsJob'
    BY <1>0, <1>11 DEF FinishStop, TypeOK, Stages, StageHoldsJob
  <2> QED
    BY <1>11, <2>1, ControlInvariant DEF FinishStop
<1>12. CASE UNCHANGED vars
  <2>1. TypeOK' /\ StageHoldsJob'
    BY <1>0, <1>12 DEF vars, TypeOK, StageHoldsJob
  <2> QED
    BY <1>12, <2>1, ControlInvariant DEF vars
<1> QED
  BY <1>1, <1>2, <1>3, <1>4, <1>5, <1>6, <1>7, <1>8, <1>9, <1>10, <1>11, <1>12 DEF Next

(***************************************************************************)
(* The invariant holds in every reachable state.                           *)
(***************************************************************************)
THEOREM WorkerInvariant == Spec => []IInv
<1>1. Init => IInv
  BY InitInvariant
<1>2. IInv /\ [Next]_vars => IInv'
  BY NextInvariant
<1> QED
  BY <1>1, <1>2, PTL DEF Spec

(***************************************************************************)
(* Whatever the limits: the worker keeps its admission promise (the        *)
(* completion ring has room and the bytes stay within the budget), its     *)
(* capture order, and an owner index that names the newest queued job.     *)
(***************************************************************************)
THEOREM WorkerSafety ==
  Spec => [](TypeOK /\ WithinLimits /\ CaptureOrder /\ IndexNamesNewest)
<1>1. IInv => TypeOK /\ WithinLimits /\ CaptureOrder /\ IndexNamesNewest
  BY DEF IInv
<1> QED
  BY <1>1, WorkerInvariant, PTL

(***************************************************************************)
(* Writes take effect in capture order.                                    *)
(***************************************************************************)
THEOREM WorkerWritesInOrder == Spec => WritesInOrder
<1>1. ASSUME IInv, [Next]_vars PROVE [written <= written']_vars
  <2> SUFFICES ASSUME vars' # vars PROVE written <= written'
    OBVIOUS
  <2>1. TypeOK /\ StageHoldsJob /\ CaptureOrder
    BY <1>1 DEF IInv
  <2>2. written \in Nat
    BY <2>1, TypeFacts
  <2>3. CASE \E o \in Outcomes, effective \in BOOLEAN : WriteJob(o, effective)
    <3>1. stage = "writing" /\ (written' = written \/ written' = Head(inflight).at)
      BY <2>3 DEF WriteJob
    <3>2. Len(inflight) = 1
      BY <2>1, <3>1 DEF StageHoldsJob
    <3>3. inflight # <<>>
      BY <3>2
    <3>4. Head(inflight) = inflight[1]
      BY <2>1, <3>3, TypeFacts
    <3>5. written <= inflight[1].at
      BY <2>1, <3>2 DEF CaptureOrder
    <3> QED
      BY <2>2, <3>1, <3>4, <3>5
  <2>4. CASE ~\E o \in Outcomes, effective \in BOOLEAN : WriteJob(o, effective)
    <3>1. Next
      BY <1>1
    <3>2. written' = written
      BY <2>4, <3>1 DEF Next, WorkerInit, Submit, Replace, Enqueue, TakeJob, AckJournal, Retry,
                        Complete, WriterExit, Pulse, RequestStop, FinishStop
    <3> QED
      BY <2>2, <3>2
  <2> QED
    BY <2>3, <2>4
<1> QED
  BY <1>1, WorkerInvariant, PTL DEF Spec, WritesInOrder

(***************************************************************************)
(* The parts of WorkerSafety, one by one: types; the room reserved by      *)
(* admission; the capture order; the owner index.                          *)
(***************************************************************************)
THEOREM WorkerTypes == Spec => []TypeOK
BY WorkerSafety, PTL

\* The completion ring has room when the writer delivers, and the payload stays within
\* its budget.
THEOREM WorkerKeepsItsLimits == Spec => []WithinLimits
BY WorkerSafety, PTL

\* Completions, the job in flight and the queue are in the order of submission.
THEOREM WorkerKeepsCaptureOrder == Spec => []CaptureOrder
BY WorkerSafety, PTL

\* The owner index names the newest queued job of each owner.
THEOREM WorkerIndexIsNewest == Spec => []IndexNamesNewest
BY WorkerSafety, PTL

(***************************************************************************)
(* player_save_worker_pid_pending misses no save of the owner and reports  *)
(* none that has left.                                                     *)
(***************************************************************************)
THEOREM WorkerPendingIsExact == Spec => []PendingIsExact
<1>1. IInv => PendingIsExact
  <2> SUFFICES ASSUME IInv, NEW o \in Owners
               PROVE  PidPending(o) <=>
                        \E job \in Range(queue) \cup Range(inflight) \cup Range(results) :
                          job.capture.owner = o
    BY DEF PendingIsExact
  <2>1. queue \in Seq(Job) /\ inflight \in Seq(Job) /\ results \in Seq(Completion)
    BY DEF IInv, TypeOK
  <2>2. /\ DOMAIN queue = 1 .. Len(queue) /\ DOMAIN inflight = 1 .. Len(inflight)
        /\ DOMAIN results = 1 .. Len(results)
    BY <2>1
  <2>3. queued_by_owner[o] # 0 <=> \E i \in 1 .. Len(queue) : queue[i].capture.owner = o
    BY DEF IInv, IndexNamesNewest, NewestOf
  <2> QED BY <2>2, <2>3 DEF PidPending, Range
<1> QED BY <1>1, WorkerInvariant, PTL

(***************************************************************************)
(* A job is completed with a definite answer, or because a stop ended the  *)
(* attempts.                                                               *)
(***************************************************************************)
AnsweredOrStopped ==
  /\ stage = "acking" => outcome \in Succeeded
  /\ stage = "completing" => outcome \notin ConnectionLost \/ stop_requested

LEMMA AnsweredStep == AnsweredOrStopped /\ [Next]_vars => AnsweredOrStopped'
<1> SUFFICES ASSUME AnsweredOrStopped, [Next]_vars PROVE AnsweredOrStopped'
  OBVIOUS
<1>1. CASE \E o \in Outcomes, effective \in BOOLEAN : WriteJob(o, effective)
  BY <1>1 DEF WriteJob, AnsweredOrStopped, Succeeded, ConnectionLost
<1>2. CASE \E acked \in BOOLEAN : AckJournal(acked)
  BY <1>2 DEF AckJournal, AnsweredOrStopped, Succeeded, ConnectionLost
<1>3. CASE Retry
  BY <1>3 DEF Retry, AfterRetry, AnsweredOrStopped
<1>4. CASE WorkerInit \/ TakeJob \/ Complete \/ WriterExit
  BY <1>4 DEF WorkerInit, TakeJob, Complete, WriterExit, AnsweredOrStopped
<1>5. CASE RequestStop
  BY <1>5 DEF RequestStop, AnsweredOrStopped
<1>6. CASE UNCHANGED <<stage, outcome, stop_requested>>
  BY <1>6 DEF AnsweredOrStopped
<1> QED BY <1>1, <1>2, <1>3, <1>4, <1>5, <1>6 DEF Next, Submit, Replace, Enqueue, Pulse, FinishStop,
         vars

LEMMA AnsweredInvariant == Spec => []AnsweredOrStopped
<1>1. Init => AnsweredOrStopped
  BY DEF Init, AnsweredOrStopped
<1> QED BY <1>1, AnsweredStep, PTL DEF Spec

(***************************************************************************)
(* The job in flight leaves only with a completion of its own, and one     *)
(* that says what became of it.                                            *)
(***************************************************************************)
THEOREM WorkerKeepsInflight == Spec => NoInflightLost
<1>1. ASSUME IInv, AnsweredOrStopped, [Next]_vars
      PROVE  [inflight # <<>> =>
                \/ inflight' = inflight
                \/ /\ results' # <<>>
                   /\ Last(results').at = Head(inflight).at
                   /\ Last(results').outcome \notin ConnectionLost]_vars
  <2> SUFFICES ASSUME Next, inflight # <<>>, inflight' # inflight
               PROVE  /\ results' # <<>>
                      /\ Last(results').at = Head(inflight).at
                      /\ Last(results').outcome \notin ConnectionLost
    BY <1>1
  <2>1. TypeOK /\ StageHoldsJob
    BY <1>1 DEF IInv
  <2>2. ~TakeJob
    BY <2>1 DEF TakeJob, MayTake, StageHoldsJob
  <2>3. Complete
    BY <2>2 DEF Next, WorkerInit, Submit, Replace, Enqueue, WriteJob, AckJournal, Retry, WriterExit,
         Pulse, RequestStop, FinishStop
  <2> DEFINE done == [capture |-> Head(inflight).capture, at |-> Head(inflight).at,
                      outcome |-> outcome]
  <2>4. results' = Append(results, done) /\ ~Abandoned
    BY <2>3 DEF Complete
  <2>5. Len(results') = Len(results) + 1 /\ results'[Len(results) + 1] = done
    BY <2>1, <2>4 DEF TypeOK
  <2>6. outcome \notin ConnectionLost
    BY <1>1, <2>3, <2>4 DEF AnsweredOrStopped, Complete, Abandoned
  <2>7. results' # <<>> /\ Last(results') = done
    BY <2>1, <2>4, <2>5 DEF Last, TypeOK
  <2> QED BY <2>6, <2>7
<1> QED BY <1>1, WorkerInvariant, AnsweredInvariant, PTL DEF Spec, NoInflightLost

-----------------------------------------------------------------------------
(***************************************************************************)
(* The byte counter.  The sums witness it: they rise, so that taking the   *)
(* first job off leaves sums again, and none passes the budget.            *)
(***************************************************************************)
Sums(sums) ==
  /\ sums \in [0 .. Len(queue) -> Nat]
  /\ SumsOf(queue, sums)
  /\ \A i, j \in 0 .. Len(queue) : i <= j => sums[i] <= sums[j]
  /\ queued_bytes = sums[Len(queue)]

Summed == \E sums : Sums(sums)

LEMMA EnqueueSummed ==
  ASSUME IInv, NEW c \in Captures, Enqueue(c), Summed
  PROVE  Summed'
<1> DEFINE n == Len(queue)
           job == [capture |-> c, at |-> clock']
<1>1. PICK sums : Sums(sums)
  BY DEF Summed
<1>2. c.bytes \in Nat /\ job \in Job
  <2>1. clock' \in Clock
    BY LimitAssumption DEF Enqueue, IInv, TypeOK, Clock
  <2> QED BY <2>1, CaptureAssumption DEF Job
<1>3. /\ n \in Nat /\ Len(queue') = n + 1
      /\ \A i \in 1 .. n : queue'[i] = queue[i]
      /\ queue'[n + 1].capture = c
  <2>1. queue \in Seq(Job) /\ queue' = Append(queue, job)
    BY DEF IInv, TypeOK, Enqueue
  <2>2. job.capture = c
    OBVIOUS
  <2> HIDE DEF job
  <2> QED BY <1>2, <2>1, <2>2, Appended
<1>4. sums \in [0 .. n -> Nat] /\ queued_bytes = sums[n]
  BY <1>1 DEF Sums
<1>5. queued_bytes' = sums[n] + c.bytes
  BY <1>2, <1>3, <1>4 DEF Enqueue, BytesAfter
<1>11. PICK new : new = [i \in 0 .. n + 1 |-> IF i = n + 1 THEN sums[n] + c.bytes ELSE sums[i]]
  OBVIOUS
<1>6. /\ new \in [0 .. n + 1 -> Nat] /\ new[n + 1] = sums[n] + c.bytes
      /\ \A i \in 0 .. n : new[i] = sums[i]
  BY <1>2, <1>3, <1>4, <1>11
<1>7. SumsOf(queue, new)'
  <2>1. new[0] = 0
    BY <1>1, <1>3, <1>6 DEF Sums, SumsOf
  <2>2. ASSUME NEW i \in 1 .. n + 1 PROVE new[i] = new[i - 1] + queue'[i].capture.bytes
    <3>1. CASE i = n + 1
      BY <1>3, <1>6, <3>1
    <3>2. CASE i \in 1 .. n
      <4>1. sums[i] = sums[i - 1] + queue[i].capture.bytes
        BY <1>1, <3>2 DEF Sums, SumsOf
      <4> QED BY <1>3, <1>6, <3>2, <4>1
    <3> QED BY <1>3, <3>1, <3>2
  <2> QED BY <1>3, <2>1, <2>2 DEF SumsOf
<1>8. ASSUME NEW i \in 0 .. n + 1, NEW j \in 0 .. n + 1, i <= j PROVE new[i] <= new[j]
  <2>1. \A a, b \in 0 .. n : a <= b => sums[a] <= sums[b]
    BY <1>1 DEF Sums
  <2>2. CASE j = n + 1 /\ i \in 0 .. n
    BY <1>2, <1>3, <1>4, <1>6, <2>1, <2>2
  <2>3. CASE i = n + 1 /\ j = n + 1
    BY <1>2, <1>3, <1>4, <1>6, <2>3
  <2>4. CASE i \in 0 .. n /\ j \in 0 .. n
    BY <1>6, <1>8, <2>1, <2>4
  <2> QED BY <1>3, <1>8, <2>2, <2>3, <2>4
<1> HIDE DEF n
<1>9. Sums(new)'
  BY <1>3, <1>5, <1>6, <1>7, <1>8 DEF Sums
<1> QED BY <1>9 DEF Summed

LEMMA ReplaceSummed ==
  ASSUME IInv, NEW c \in Captures, Replace(c), Summed
  PROVE  Summed'
<1> DEFINE n == Len(queue)
           job == [capture |-> c, at |-> clock']
<1>1. PICK sums : Sums(sums)
  BY DEF Summed
<1>2. c.bytes \in Nat /\ job \in Job
  <2>1. clock' \in Clock
    BY LimitAssumption DEF Replace, IInv, TypeOK, Clock
  <2> QED BY <2>1, CaptureAssumption DEF Job
<1>3. /\ n \in Nat \ {0} /\ Len(queue') = n
      /\ \A i \in 1 .. n - 1 : queue'[i] = queue[i]
      /\ queue'[n].capture = c /\ Last(queue) = queue[n] /\ queue[n].capture.bytes \in Nat
  <2>1. queue \in Seq(Job) /\ queue # <<>> /\ queue' = Append(Front(queue), job)
    BY DEF IInv, TypeOK, Replace, ReplacesTail
  <2>2. job.capture = c
    OBVIOUS
  <2> HIDE DEF job
  <2>3. /\ n \in Nat \ {0} /\ Front(queue) \in Seq(Job) /\ Len(Front(queue)) = n - 1
        /\ \A i \in 1 .. n - 1 : Front(queue)[i] = queue[i]
        /\ Last(queue) = queue[n] /\ Last(queue) \in Job
    BY <2>1, FrontFacts
  <2>4. \A t : t = Front(queue) =>
              /\ Len(queue') = Len(t) + 1 /\ \A i \in 1 .. Len(t) : queue'[i] = t[i]
              /\ queue'[Len(t) + 1] = job
    BY <1>2, <2>1, <2>3, Appended
  <2>5. queue[n].capture.bytes \in Nat
    BY <2>3, CaptureAssumption DEF Job
  <2> QED BY <2>2, <2>3, <2>4, <2>5
<1>4. sums \in [0 .. n -> Nat] /\ queued_bytes = sums[n]
  BY <1>1 DEF Sums
<1>5. queued_bytes' = sums[n - 1] + c.bytes
  <2>1. sums[n] = sums[n - 1] + queue[n].capture.bytes /\ sums[n - 1] \in Nat
    BY <1>1, <1>3, <1>4 DEF Sums, SumsOf
  <2> QED BY <1>2, <1>3, <1>4, <2>1 DEF Replace, BytesAfter
<1>11. PICK new : new = [i \in 0 .. n |-> IF i = n THEN sums[n - 1] + c.bytes ELSE sums[i]]
  OBVIOUS
<1>6. /\ new \in [0 .. n -> Nat] /\ new[n] = sums[n - 1] + c.bytes
      /\ \A i \in 0 .. n - 1 : new[i] = sums[i]
  <2>1. n - 1 \in 0 .. n /\ \A i \in 0 .. n - 1 : i \in 0 .. n /\ i # n
    BY <1>3
  <2>2. sums[n - 1] + c.bytes \in Nat
    <3>1. sums[n - 1] \in Nat
      BY <1>4, <2>1
    <3> QED BY <1>2, <3>1
  <2> HIDE DEF n
  <2> QED BY <1>3, <1>4, <1>11, <2>1, <2>2
<1>7. SumsOf(queue, new)'
  <2>1. new[0] = 0
    BY <1>1, <1>3, <1>6 DEF Sums, SumsOf
  <2>2. ASSUME NEW i \in 1 .. n PROVE new[i] = new[i - 1] + queue'[i].capture.bytes
    <3>1. CASE i = n
      BY <1>3, <1>6, <3>1
    <3>2. CASE i \in 1 .. n - 1
      <4>1. sums[i] = sums[i - 1] + queue[i].capture.bytes
        BY <1>1, <1>3, <3>2 DEF Sums, SumsOf
      <4> QED BY <1>3, <1>6, <3>2, <4>1
    <3> QED BY <1>3, <3>1, <3>2
  <2> QED BY <1>3, <2>1, <2>2 DEF SumsOf
<1>8. ASSUME NEW i \in 0 .. n, NEW j \in 0 .. n, i <= j PROVE new[i] <= new[j]
  <2>1. \A a, b \in 0 .. n : a <= b => sums[a] <= sums[b]
    BY <1>1 DEF Sums
  <2>2. CASE j = n /\ i \in 0 .. n - 1
    BY <1>2, <1>3, <1>4, <1>6, <2>1, <2>2, SMTT(30)
  <2>3. CASE i = n /\ j = n
    BY <1>2, <1>3, <1>4, <1>6, <2>3
  <2>4. CASE i \in 0 .. n - 1 /\ j \in 0 .. n - 1
    BY <1>3, <1>6, <1>8, <2>1, <2>4
  <2> QED BY <1>3, <1>8, <2>2, <2>3, <2>4
<1> HIDE DEF n
<1>9. Sums(new)'
  BY <1>3, <1>5, <1>6, <1>7, <1>8 DEF Sums
<1> QED BY <1>9 DEF Summed

LEMMA TakeSummed ==
  ASSUME IInv, TakeJob, Summed
  PROVE  Summed'
<1> DEFINE n == Len(queue)
<1>1. PICK sums : Sums(sums)
  BY DEF Summed
<1>2. /\ n \in Nat \ {0} /\ Len(queue') = n - 1 /\ Head(queue) = queue[1]
      /\ \A i \in 1 .. n - 1 : queue'[i] = queue[i + 1]
      /\ queue[1].capture.bytes \in Nat
  <2>1. queue \in Seq(Job) /\ queue # <<>> /\ queue' = Tail(queue)
    BY DEF IInv, TypeOK, TakeJob, MayTake
  <2>2. /\ n \in Nat /\ 1 \in 1 .. n /\ Len(queue') = n - 1 /\ Head(queue) = queue[1]
        /\ \A i \in 1 .. Len(queue') : queue'[i] = queue[i + 1]
        /\ queue[1] \in Job
    BY <2>1, Tailed
  <2>3. queue[1].capture.bytes \in Nat
    BY <2>2, CaptureAssumption DEF Job
  <2> QED BY <2>2, <2>3
<1>3. sums \in [0 .. n -> Nat] /\ queued_bytes = sums[n]
  BY <1>1 DEF Sums
<1>4. sums[1] = queue[1].capture.bytes /\ \A i \in 1 .. n : sums[i] >= sums[1]
  BY <1>1, <1>2, <1>3 DEF Sums, SumsOf
<1>5. queued_bytes' = sums[n] - sums[1]
  BY <1>2, <1>3, <1>4 DEF TakeJob
<1>11. PICK new : new = [i \in 0 .. n - 1 |-> sums[i + 1] - sums[1]]
  OBVIOUS
<1>6. /\ new \in [0 .. n - 1 -> Nat]
      /\ \A i \in 0 .. n - 1 : new[i] = sums[i + 1] - sums[1]
  <2>1. \A i \in 0 .. n - 1 : i + 1 \in 1 .. n /\ sums[i + 1] \in Nat /\ sums[1] \in Nat
    BY <1>2, <1>3
  <2>2. \A i \in 0 .. n - 1 : sums[i + 1] - sums[1] \in Nat
    BY <1>4, <2>1
  <2> QED BY <1>11, <2>2
<1>7. SumsOf(queue, new)'
  <2>1. new[0] = 0
    BY <1>2, <1>3, <1>6
  <2>2. ASSUME NEW i \in 1 .. n - 1 PROVE new[i] = new[i - 1] + queue'[i].capture.bytes
    <3>1. /\ i + 1 \in 1 .. n /\ i \in 0 .. n - 1 /\ i - 1 \in 0 .. n - 1 /\ i - 1 + 1 = i
          /\ i + 1 - 1 = i
      BY <1>2
    <3>2. sums[i + 1] = sums[i + 1 - 1] + queue[i + 1].capture.bytes
      BY <1>1, <3>1 DEF Sums, SumsOf
    <3>3. sums[i + 1] \in Nat /\ sums[i] \in Nat /\ sums[1] \in Nat
      BY <1>2, <1>3, <3>1, SMTT(30)
    <3>4. queue[i + 1].capture.bytes \in Nat
      <4>1. queue[i + 1] \in Job
        BY <1>2, <3>1, TypeFacts DEF IInv
      <4> QED BY <4>1, CaptureAssumption DEF Job
    <3>5. new[i] = sums[i + 1] - sums[1] /\ new[i - 1] = sums[i] - sums[1]
      BY <1>6, <3>1
    <3>6. queue'[i] = queue[i + 1]
      BY <1>2
    <3> QED BY <3>1, <3>2, <3>3, <3>4, <3>5, <3>6
  <2> QED BY <1>2, <2>1, <2>2 DEF SumsOf
<1>8. ASSUME NEW i \in 0 .. n - 1, NEW j \in 0 .. n - 1, i <= j PROVE new[i] <= new[j]
  <2>1. /\ i + 1 \in 0 .. n /\ j + 1 \in 0 .. n /\ i + 1 <= j + 1 /\ 1 \in 0 .. n
    BY <1>2, <1>8
  <2>2. sums[i + 1] <= sums[j + 1]
    BY <1>1, <2>1 DEF Sums
  <2>3. sums[i + 1] \in Nat /\ sums[j + 1] \in Nat /\ sums[1] \in Nat
    BY <1>3, <2>1
  <2> QED BY <1>6, <2>2, <2>3
<1>9. new[n - 1] = sums[n] - sums[1]
  BY <1>2, <1>6
<1> HIDE DEF n
<1>10. Sums(new)'
  BY <1>2, <1>5, <1>6, <1>7, <1>8, <1>9 DEF Sums
<1> QED BY <1>10 DEF Summed

(***************************************************************************)
(* The counter against which enqueue admits captures never drifts from     *)
(* what the queue holds, through replacement, take and retry, and so never *)
(* wraps below zero.                                                       *)
(***************************************************************************)
THEOREM WorkerBytesExact == Spec => []BytesExact
<1>1. Init => Summed
  <2> SUFFICES ASSUME Init PROVE Summed
    OBVIOUS
  <2>1. Len(queue) = 0 /\ queued_bytes = 0
    BY DEF Init
  <2>2. PICK sums : sums = [i \in 0 .. 0 |-> 0]
    OBVIOUS
  <2>3. Sums(sums)
    BY <2>1, <2>2 DEF Sums, SumsOf
  <2> QED BY <2>3 DEF Summed
<1>2. IInv /\ Summed /\ [Next]_vars => Summed'
  <2> SUFFICES ASSUME IInv, Summed, [Next]_vars PROVE Summed'
    OBVIOUS
  <2>1. CASE \E c \in Captures : Submit(c)
    BY <2>1, EnqueueSummed, ReplaceSummed DEF Submit
  <2>2. CASE TakeJob
    BY <2>2, TakeSummed
  <2>3. CASE UNCHANGED <<queue, queued_bytes>>
    BY <2>3 DEF Summed, Sums, SumsOf
  <2> QED BY <2>1, <2>2, <2>3 DEF Next, WorkerInit, WriteJob, AckJournal, Retry, Complete,
           WriterExit, Pulse, RequestStop, FinishStop, vars
<1>3. IInv /\ Summed => BytesExact
  <2> SUFFICES ASSUME IInv, Summed PROVE BytesExact
    OBVIOUS
  <2>1. PICK sums : Sums(sums)
    BY DEF Summed
  <2>2. sums[Len(queue)] \in Nat /\ sums[Len(queue)] <= MaxBytes /\ Len(queue) \in Nat
    <3>1. queued_bytes + InflightBytes <= MaxBytes /\ InflightBytes \in Nat /\ queued_bytes \in Int
      BY TypeFacts DEF IInv, WithinLimits, BytesWithinBudget, TypeOK
    <3>2. Len(queue) \in Nat
      BY TypeFacts DEF IInv
    <3> QED BY <2>1, <3>1, <3>2, LimitAssumption DEF Sums
  <2>3. \A i \in 0 .. Len(queue) : sums[i] \in 0 .. MaxBytes
    BY <2>1, <2>2, LimitAssumption DEF Sums
  <2>4. sums \in [0 .. Len(queue) -> 0 .. MaxBytes]
    BY <2>1, <2>3 DEF Sums
  <2> QED BY <2>1, <2>4 DEF BytesExact, Sums
<1> QED BY <1>1, <1>2, <1>3, WorkerInvariant, PTL DEF Spec

-----------------------------------------------------------------------------
(***************************************************************************)
(* The worker implements SaveWriter.  Pending is what is in flight and     *)
(* then what is queued, by position; each step of the worker is one step   *)
(* of SaveWriter or none.                                                  *)
(***************************************************************************)
Report == [capture : Captures, outcome : Outcomes]

\* p holds the captures of the jobs in f and then of those in q.
LinesUp(p, f, q) ==
  /\ p \in Seq(Captures) /\ Len(f) \in Nat /\ Len(q) \in Nat /\ Len(p) = Len(f) + Len(q)
  /\ \A i \in 1 .. Len(p) :
       p[i] = IF i =< Len(f) THEN f[i].capture ELSE q[i - Len(f)].capture

LEMMA Lined ==
  ASSUME NEW f \in Seq(Job), NEW q \in Seq(Job)
  PROVE  LinesUp(CapturesOf(f) \o CapturesOf(q), f, q)
<1>0. PICK p : p = CapturesOf(f) \o CapturesOf(q)
  OBVIOUS
<1>1. ASSUME NEW s \in Seq(Job)
      PROVE  /\ CapturesOf(s) \in Seq(Captures) /\ Len(s) \in Nat /\ Len(CapturesOf(s)) = Len(s)
             /\ \A i \in 1 .. Len(s) : CapturesOf(s)[i] = s[i].capture
  <2>1. Len(s) \in Nat /\ \A i \in 1 .. Len(s) : s[i].capture \in Captures
    <3>1. Len(s) \in Nat /\ \A i \in 1 .. Len(s) : s[i] \in Job
      OBVIOUS
    <3> QED BY <3>1 DEF Job
  <2>2. CapturesOf(s) = [i \in 1 .. Len(s) |-> s[i].capture]
    BY DEF CapturesOf
  <2> QED BY <2>1, <2>2
<1>2. PICK a, b : a = CapturesOf(f) /\ b = CapturesOf(q)
  OBVIOUS
<1>3. /\ a \in Seq(Captures) /\ Len(f) \in Nat /\ Len(a) = Len(f)
      /\ \A i \in 1 .. Len(f) : a[i] = f[i].capture
      /\ b \in Seq(Captures) /\ Len(q) \in Nat /\ Len(b) = Len(q)
      /\ \A i \in 1 .. Len(q) : b[i] = q[i].capture
  BY <1>1, <1>2
<1>4. /\ p \in Seq(Captures) /\ Len(p) = Len(a) + Len(b)
      /\ \A i \in 1 .. Len(p) : p[i] = (IF i =< Len(a) THEN a[i] ELSE b[i - Len(a)])
  <2>1. p = a \o b
    BY <1>0, <1>2, Zenon
  <2>2. a \in Seq(Captures) /\ b \in Seq(Captures)
    BY <1>3
  <2>3. \A u : u = a \o b =>
          /\ u \in Seq(Captures) /\ Len(u) = Len(a) + Len(b)
          /\ \A i \in 1 .. Len(u) : u[i] = (IF i =< Len(a) THEN a[i] ELSE b[i - Len(a)])
    BY <2>2, Concatenated
  <2> QED BY <2>1, <2>3, Zenon
<1>5. ASSUME NEW i \in 1 .. Len(p)
      PROVE  p[i] = IF i =< Len(f) THEN f[i].capture ELSE q[i - Len(f)].capture
  <2>1. CASE i =< Len(f)
    BY <1>3, <1>4, <2>1, SMTT(30)
  <2>2. CASE ~(i =< Len(f))
    <3>1. i - Len(f) \in 1 .. Len(q)
      BY <1>3, <1>4, <2>2
    <3> QED BY <1>3, <1>4, <2>2, <3>1
  <2> QED BY <2>1, <2>2
<1>6. LinesUp(p, f, q)
  BY <1>3, <1>4, <1>5 DEF LinesUp
<1> QED BY <1>0, <1>6, Zenon

LEMMA Reported ==
  ASSUME NEW s \in Seq(Completion), NEW p, p = ReportsOf(s)
  PROVE  /\ p \in Seq(Report) /\ Len(s) \in Nat /\ Len(p) = Len(s)
         /\ \A i \in 1 .. Len(s) : p[i] = [capture |-> s[i].capture, outcome |-> s[i].outcome]
<1>1. Len(s) \in Nat /\ \A i \in 1 .. Len(s) :
                          [capture |-> s[i].capture, outcome |-> s[i].outcome] \in Report
  <2>1. Len(s) \in Nat /\ \A i \in 1 .. Len(s) : s[i] \in Completion
    OBVIOUS
  <2> QED BY <2>1 DEF Completion, Report
<1>2. p = [i \in 1 .. Len(s) |-> [capture |-> s[i].capture, outcome |-> s[i].outcome]]
  BY DEF ReportsOf
<1> QED BY <1>1, <1>2

LEMMA NonEmpty == ASSUME NEW S, NEW s \in Seq(S) PROVE s # <<>> <=> Len(s) # 0
BY EmptySeq

\* What SaveWriter sees of a state
LEMMA Seen ==
  ASSUME IInv
  PROVE  /\ Pending \in Seq(Captures) /\ Len(Pending) = Len(inflight) + Len(queue)
         /\ \A i \in 1 .. Len(Pending) :
              Pending[i] = IF i =< Len(inflight) THEN inflight[i].capture
                           ELSE queue[i - Len(inflight)].capture
         /\ Completions \in Seq(Report) /\ Len(Completions) = Len(results)
         /\ Taken <=> Len(inflight) = 1
         /\ ~Taken <=> Len(inflight) = 0
         /\ Len(inflight) \in Nat /\ Len(queue) \in Nat /\ Len(results) \in Nat
<1>1. inflight \in Seq(Job) /\ queue \in Seq(Job) /\ results \in Seq(Completion)
  BY DEF IInv, TypeOK
<1>2. /\ Pending \in Seq(Captures) /\ Len(Pending) = Len(inflight) + Len(queue)
      /\ \A i \in 1 .. Len(Pending) :
           Pending[i] = IF i =< Len(inflight) THEN inflight[i].capture
                        ELSE queue[i - Len(inflight)].capture
  <2>1. LinesUp(Pending, inflight, queue)
    BY <1>1, Lined, Zenon DEF Pending
  <2> QED BY <2>1 DEF LinesUp
<1>3. Completions \in Seq(Report) /\ Len(Completions) = Len(results)
  BY <1>1, Reported DEF Completions
<1>4. /\ Taken <=> Len(inflight) = 1
      /\ ~Taken <=> Len(inflight) = 0
  <2>1. inflight = <<>> => Len(inflight) = 0
    OBVIOUS
  <2>2. inflight # <<>> => Len(inflight) = 1
    BY TypeFacts DEF IInv
  <2> QED BY <2>1, <2>2 DEF Taken
<1> QED BY <1>2, <1>3, <1>4, TypeFacts DEF IInv

LEMMA SeenWaiting ==
  ASSUME IInv
  PROVE  /\ Writer!Waiting # <<>> <=> queue # <<>>
         /\ queue # <<>> => Writer!Last(Pending) = queue[Len(queue)].capture
<1>1. /\ Pending \in Seq(Captures) /\ Len(Pending) = Len(inflight) + Len(queue)
      /\ Taken <=> Len(inflight) = 1
      /\ ~Taken <=> Len(inflight) = 0
      /\ Len(inflight) \in Nat /\ Len(queue) \in Nat
  BY Seen
<1>2. queue # <<>> <=> Len(queue) # 0
  BY NonEmpty DEF IInv, TypeOK
<1>3. Writer!Waiting # <<>> <=> queue # <<>>
  <2>1. CASE Taken
    <3>1. PICK t : t = Tail(Pending)
      OBVIOUS
    <3>2. Len(Pending) # 0
      BY <1>1, <2>1
    <3>3. Pending # <<>>
      BY <1>1, <3>2, NonEmpty
    <3>4. t \in Seq(Captures) /\ Len(t) = Len(Pending) - 1
      BY <1>1, <3>1, <3>3, Tailed
    <3>5. t # <<>> <=> Len(queue) # 0
      BY <1>1, <2>1, <3>4, NonEmpty
    <3> QED BY <1>2, <2>1, <3>1, <3>5, Zenon DEF Writer!Waiting
  <2>2. CASE ~Taken
    <3>1. Pending # <<>> <=> Len(queue) # 0
      BY <1>1, <2>2, NonEmpty
    <3> QED BY <1>2, <2>2, <3>1, Zenon DEF Writer!Waiting
  <2> QED BY <2>1, <2>2
<1>4. ASSUME queue # <<>> PROVE Writer!Last(Pending) = queue[Len(queue)].capture
  <2>1. Len(Pending) \in 1 .. Len(Pending) /\ ~(Len(Pending) =< Len(inflight))
        /\ Len(Pending) - Len(inflight) = Len(queue)
    BY <1>1, <1>2, <1>4
  <2>2. Pending[Len(Pending)] = queue[Len(queue)].capture
    <3>1. \A i \in 1 .. Len(Pending) : ~(i =< Len(inflight)) =>
            Pending[i] = queue[i - Len(inflight)].capture
      BY Seen
    <3>2. Pending[Len(Pending)] = queue[Len(Pending) - Len(inflight)].capture
      BY <2>1, <3>1
    <3> QED BY <2>1, <3>2
  <2> QED BY <2>2 DEF Writer!Last
<1> QED BY <1>3, <1>4

\* The worker's index and SaveWriter's last element agree on what is replaced.
LEMMA SeenReplaces ==
  ASSUME IInv, NEW c \in Captures
  PROVE  ReplacesTail(c) <=> Writer!Replaces(c)
<1>1. c.owner \in Owners
  BY CaptureAssumption
<1>2. CASE queue = <<>>
  BY <1>2, SeenWaiting DEF ReplacesTail, Writer!Replaces
<1>3. CASE queue # <<>>
  <2>1. /\ queue \in Seq(Job) /\ Len(queue) \in Nat \ {0} /\ Last(queue) = queue[Len(queue)]
        /\ Len(queue) \in 1 .. Len(queue)
    <3>1. queue \in Seq(Job)
      BY DEF IInv, TypeOK
    <3>2. Len(queue) \in Nat \ {0} /\ Last(queue) = queue[Len(queue)]
      BY <1>3, <3>1, FrontFacts
    <3> QED BY <3>1, <3>2
  <2>2. queue[Len(queue)].at \in Nat \ {0} /\ queue[Len(queue)].capture.owner \in Owners
    <3>1. queue[Len(queue)].at \in 1 .. clock /\ clock \in Nat
      BY <2>1, AdmissionFacts DEF IInv
    <3>2. queue[Len(queue)] \in Job
      BY <2>1, ElementOfSeq
    <3> QED BY <3>1, <3>2, CaptureAssumption DEF Job
  <2>3. queued_by_owner[c.owner] = queue[Len(queue)].at <=> queue[Len(queue)].capture.owner = c.owner
    <3>1. ASSUME queued_by_owner[c.owner] = queue[Len(queue)].at
          PROVE  queue[Len(queue)].capture.owner = c.owner
      <4>1. PICK i \in 1 .. Len(queue) : queue[i].capture.owner = c.owner
                                         /\ queue[i].at = queue[Len(queue)].at
        BY <1>1, <2>2, <3>1 DEF IInv, IndexNamesNewest, NewestOf
      <4>2. i = Len(queue)
        <5>1. i < Len(queue) => queue[i].at < queue[Len(queue)].at
          BY <2>1 DEF IInv, CaptureOrder, Increasing
        <5> QED BY <2>1, <2>2, <4>1, <5>1
      <4> QED BY <4>1, <4>2
    <3>2. ASSUME queue[Len(queue)].capture.owner = c.owner
          PROVE  queued_by_owner[c.owner] = queue[Len(queue)].at
      <4>1. queued_by_owner[c.owner] # 0
        BY <1>1, <2>1, <3>2 DEF IInv, IndexNamesNewest, NewestOf
      <4>2. PICK i \in 1 .. Len(queue) : /\ queue[i].at = queued_by_owner[c.owner]
                                         /\ Len(queue) <= i
        BY <1>1, <2>1, <3>2, <4>1 DEF IInv, IndexNamesNewest, NewestOf
      <4>3. i = Len(queue)
        BY <2>1, <4>2
      <4> QED BY <4>2, <4>3
    <3> QED BY <3>1, <3>2
  <2> QED BY <1>3, <2>1, <2>3, SeenWaiting DEF ReplacesTail, Writer!Replaces
<1> QED BY <1>2, <1>3

LEMMA SeenNext ==
  ASSUME IInv'
  PROVE  /\ LinesUp(Pending', inflight', queue')
         /\ Completions' \in Seq(Report) /\ Len(Completions') = Len(results')
         /\ \A i \in 1 .. Len(results') :
              Completions'[i] = [capture |-> results'[i].capture, outcome |-> results'[i].outcome]
<1>1. inflight' \in Seq(Job) /\ queue' \in Seq(Job) /\ results' \in Seq(Completion)
  BY DEF IInv, TypeOK
<1>2. LinesUp(Pending', inflight', queue')
  BY <1>1, Lined, Zenon DEF Pending
<1> QED BY <1>1, <1>2, Reported DEF Completions

LEMMA PutSeen ==
  ASSUME IInv, IInv', NEW c \in Captures, Submit(c)
  PROVE  Writer!Put(c)
<1> DEFINE n == Len(inflight)
           m == Len(queue)
           job == [capture |-> c, at |-> clock']
<1>1. /\ Pending \in Seq(Captures) /\ Len(Pending) = n + m /\ n \in Nat /\ m \in Nat
      /\ \A i \in 1 .. Len(Pending) :
           Pending[i] = IF i =< n THEN inflight[i].capture ELSE queue[i - n].capture
      /\ Len(Completions) = Len(results)
  BY Seen
<1>2. LinesUp(Pending', inflight', queue')
  BY SeenNext
<1>3. UNCHANGED <<inflight, results, running, stop_requested>> /\ Accepting
  BY DEF Submit, Replace, Enqueue
<1>4. queue \in Seq(Job) /\ job.capture = c /\ job \in Job
  <2>1. clock' \in Clock
    BY LimitAssumption DEF Submit, Replace, Enqueue, IInv, TypeOK, Clock
  <2> QED BY <2>1 DEF IInv, TypeOK, Job
<1>5. CASE Replace(c)
  <2>1. ReplacesTail(c) /\ queue # <<>> /\ queue' = Append(Front(queue), job)
    BY <1>5 DEF Replace, ReplacesTail
  <2>2. Writer!Replaces(c)
    BY <2>1, SeenReplaces
  <2>3. m \in Nat \ {0} /\ Front(queue) \in Seq(Job) /\ Len(Front(queue)) = m - 1
        /\ \A i \in 1 .. m - 1 : Front(queue)[i] = queue[i]
    BY <1>4, <2>1, FrontFacts
  <2> HIDE DEF job
  <2>4. /\ Len(queue') = m /\ queue'[m] = job
        /\ \A i \in 1 .. m - 1 : queue'[i] = queue[i]
    <3>1. \A t : t = Front(queue) =>
            /\ Len(queue') = Len(t) + 1 /\ \A i \in 1 .. Len(t) : queue'[i] = t[i]
            /\ queue'[Len(t) + 1] = job
      BY <1>4, <2>1, <2>3, Appended
    <3> QED BY <2>3, <3>1
  <2>5. PICK f : f = Writer!Front(Pending)
    OBVIOUS
  <2>6. f \in Seq(Captures) /\ Len(f) = n + m - 1 /\ \A i \in 1 .. n + m - 1 : f[i] = Pending[i]
    <3>1. Pending # <<>>
      BY <1>1, <2>3, NonEmpty
    <3>2. f = Front(Pending)
      BY <2>5 DEF Front, Writer!Front
    <3>3. /\ Front(Pending) \in Seq(Captures) /\ Len(Front(Pending)) = Len(Pending) - 1
          /\ \A i \in 1 .. Len(Pending) - 1 : Front(Pending)[i] = Pending[i]
      BY <1>1, <3>1, FrontFacts
    <3>4. Len(Pending) - 1 = n + m - 1
      BY <1>1
    <3> QED BY <3>2, <3>3, <3>4, Zenon
  <2>7. PICK t : t = Append(f, c)
    OBVIOUS
  <2>8. /\ t \in Seq(Captures) /\ Len(t) = n + m /\ t[n + m] = c
        /\ \A i \in 1 .. n + m - 1 : t[i] = Pending[i]
    <3>1. /\ t \in Seq(Captures) /\ Len(t) = Len(f) + 1 /\ t[Len(f) + 1] = c
          /\ \A i \in 1 .. Len(f) : t[i] = f[i]
      BY <2>6, <2>7, Appended
    <3>2. Len(f) + 1 = n + m
      BY <1>1, <2>6
    <3> QED BY <2>6, <3>1, <3>2
  <2>9. Pending' = t
    <3>1. Pending' \in Seq(Captures) /\ Len(Pending') = n + m
      BY <1>2, <1>3, <2>4 DEF LinesUp
    <3>2. ASSUME NEW i \in 1 .. n + m PROVE Pending'[i] = t[i]
      <4>1. Pending'[i] = IF i =< n THEN inflight[i].capture ELSE queue'[i - n].capture
        BY <1>2, <1>3, <3>1 DEF LinesUp
      <4>2. CASE i = n + m
        <5>1. ~(i =< n) /\ i - n = m
          BY <1>1, <2>3, <4>2
        <5> QED BY <1>4, <2>4, <2>8, <4>1, <4>2, <5>1
      <4>3. CASE i # n + m
        <5>1. i \in 1 .. n + m - 1 /\ (~(i =< n) => i - n \in 1 .. m - 1)
          BY <1>1, <2>3, <4>3
        <5> QED BY <1>1, <2>4, <2>8, <4>1, <5>1
      <4> QED BY <4>2, <4>3
    <3> QED BY <2>8, <3>1, <3>2, SeqEqual
  <2>10. Taken' = Taken /\ Completions' = Completions /\ Accepting' = Accepting
    BY <1>3 DEF Taken, Completions, Accepting
  <2>11. Pending' = Append(IF Writer!Replaces(c) THEN Writer!Front(Pending) ELSE Pending, c)
    BY <2>2, <2>5, <2>7, <2>9, Zenon
  <2> QED BY <1>3, <2>2, <2>10, <2>11, Zenon DEF Writer!Put, Writer!HasRoom
<1>6. CASE Enqueue(c)
  <2>1. ~ReplacesTail(c) /\ HasSlot /\ queue' = Append(queue, job)
    BY <1>6 DEF Enqueue
  <2>2. ~Writer!Replaces(c)
    BY <2>1, SeenReplaces
  <2> HIDE DEF job
  <2>3. /\ Len(queue') = m + 1 /\ queue'[m + 1] = job
        /\ \A i \in 1 .. m : queue'[i] = queue[i]
    BY <1>4, <2>1, Appended
  <2>4. PICK t : t = Append(Pending, c)
    OBVIOUS
  <2>5. /\ t \in Seq(Captures) /\ Len(t) = n + m + 1 /\ t[n + m + 1] = c
        /\ \A i \in 1 .. n + m : t[i] = Pending[i]
    <3>1. /\ t \in Seq(Captures) /\ Len(t) = Len(Pending) + 1 /\ t[Len(Pending) + 1] = c
          /\ \A i \in 1 .. Len(Pending) : t[i] = Pending[i]
      BY <1>1, <2>4, Appended, SMTT(30)
    <3> QED BY <1>1, <3>1
  <2>6. Pending' = t
    <3>1. Pending' \in Seq(Captures) /\ Len(Pending') = n + m + 1
      BY <1>1, <1>2, <1>3, <2>3 DEF LinesUp
    <3>2. ASSUME NEW i \in 1 .. n + m + 1 PROVE Pending'[i] = t[i]
      <4>1. Pending'[i] = IF i =< n THEN inflight[i].capture ELSE queue'[i - n].capture
        BY <1>2, <1>3, <3>1 DEF LinesUp
      <4>2. CASE i = n + m + 1
        <5>1. ~(i =< n) /\ i - n = m + 1
          BY <1>1, <4>2
        <5> QED BY <1>4, <2>3, <2>5, <4>1, <4>2, <5>1
      <4>3. CASE i # n + m + 1
        <5>1. i \in 1 .. n + m /\ (~(i =< n) => i - n \in 1 .. m)
          BY <1>1, <4>3
        <5> QED BY <1>1, <2>3, <2>5, <4>1, <5>1
      <4> QED BY <4>2, <4>3
    <3> QED BY <2>5, <3>1, <3>2, SeqEqual
  <2>7. Taken' = Taken /\ Completions' = Completions /\ Accepting' = Accepting
    BY <1>3 DEF Taken, Completions, Accepting
  <2>8. Pending' = Append(IF Writer!Replaces(c) THEN Writer!Front(Pending) ELSE Pending, c)
    BY <2>2, <2>4, <2>6, Zenon
  <2>9. Len(Pending) + Len(Completions) < MaxJobs
    BY <1>1, <2>1 DEF HasSlot
  <2> QED BY <1>3, <2>7, <2>8, <2>9, Zenon DEF Writer!Put, Writer!HasRoom
<1> QED BY <1>5, <1>6 DEF Submit

\* Until a stop is requested a started worker runs.
Started == stage # "none" /\ ~stop_requested => running

LEMMA StepStarted == Started /\ [Next]_vars => Started'
<1> SUFFICES ASSUME Started, [Next]_vars PROVE Started'
  OBVIOUS
<1>1. CASE WorkerInit
  BY <1>1 DEF WorkerInit, Started
<1>2. CASE RequestStop
  BY <1>2 DEF RequestStop, Started
<1>3. CASE FinishStop
  BY <1>3 DEF FinishStop, Started
<1>4. CASE UNCHANGED <<running, stop_requested>> /\ (stage = "none" => stage' = "none")
  BY <1>4 DEF Started
<1>5. CASE TakeJob \/ Retry \/ Complete \/ WriterExit
  BY <1>4, <1>5 DEF TakeJob, MayTake, Retry, Complete, WriterExit
<1>6. CASE \E o \in Outcomes, effective \in BOOLEAN : WriteJob(o, effective)
  BY <1>4, <1>6 DEF WriteJob
<1>7. CASE \E acked \in BOOLEAN : AckJournal(acked)
  BY <1>4, <1>7 DEF AckJournal
<1>8. CASE UNCHANGED <<running, stop_requested, stage>>
  BY <1>4, <1>8
<1> QED BY <1>1, <1>2, <1>3, <1>5, <1>6, <1>7, <1>8 DEF Next, Submit, Replace, Enqueue, Pulse, vars

LEMMA TakeSeen ==
  ASSUME IInv, IInv', Started, TakeJob
  PROVE  Writer!Take
<1> DEFINE m == Len(queue)
<1>1. /\ stage = "waiting" /\ ~stop_requested /\ queue # <<>> /\ queue \in Seq(Job)
      /\ inflight = <<>> /\ inflight' = Append(inflight, Head(queue)) /\ queue' = Tail(queue)
      /\ UNCHANGED <<results, running, stop_requested>>
  BY DEF TakeJob, MayTake, IInv, StageHoldsJob, TypeOK
<1>2. /\ Head(queue) = queue[1] /\ queue[1] \in Job /\ m \in Nat /\ 1 \in 1 .. m
      /\ Len(queue') = m - 1 /\ \A i \in 1 .. Len(queue') : queue'[i] = queue[i + 1]
  BY <1>1, Tailed
<1>3. Len(inflight') = 1 /\ inflight'[1] = queue[1] /\ Len(inflight) = 0
  BY <1>1, <1>2
<1>4. /\ Pending \in Seq(Captures) /\ Len(Pending) = m
      /\ \A i \in 1 .. m : Pending[i] = queue[i].capture
  <2>1. /\ Pending \in Seq(Captures) /\ Len(Pending) = Len(inflight) + m
        /\ \A i \in 1 .. Len(Pending) :
             Pending[i] = IF i =< Len(inflight) THEN inflight[i].capture
                          ELSE queue[i - Len(inflight)].capture
    BY Seen
  <2> QED BY <1>2, <1>3, <2>1
<1>5. /\ Pending' \in Seq(Captures) /\ Len(Pending') = m
      /\ \A i \in 1 .. m : Pending'[i] = queue[i].capture
  <2>1. /\ Pending' \in Seq(Captures) /\ Len(Pending') = m
        /\ \A i \in 1 .. m : Pending'[i] = IF i =< 1 THEN inflight'[i].capture
                                           ELSE queue'[i - 1].capture
    BY <1>2, <1>3, SeenNext DEF LinesUp
  <2>2. ASSUME NEW i \in 1 .. m PROVE Pending'[i] = queue[i].capture
    <3>1. CASE i = 1
      BY <1>3, <2>1, <3>1
    <3>2. CASE i # 1
      <4>1. i - 1 \in 1 .. Len(queue') /\ i - 1 + 1 = i /\ ~(i =< 1)
        BY <1>2, <3>2
      <4> QED BY <1>2, <2>1, <4>1
    <3> QED BY <3>1, <3>2
  <2> QED BY <2>1, <2>2
<1>6. Pending' = Pending
  BY <1>4, <1>5, SeqEqual
<1>7. Pending # <<>>
  BY <1>2, <1>4, NonEmpty
<1>8. ~Taken /\ Taken' = TRUE
  BY <1>1, <1>3 DEF Taken
<1>9. Accepting /\ Accepting' = Accepting /\ Completions' = Completions
  BY <1>1 DEF Started, Accepting, Completions
<1> QED BY <1>6, <1>7, <1>8, <1>9, Zenon DEF Writer!Take

LEMMA CompleteSeen ==
  ASSUME IInv, IInv', AnsweredOrStopped, Complete
  PROVE  \/ \E report \in Outcomes \ ConnectionLost : Writer!Finish(report)
         \/ UNCHANGED <<Pending, Taken, Completions, Accepting>>
<1> DEFINE m == Len(queue)
           done == [capture |-> inflight[1].capture, outcome |-> outcome]
<1>1. /\ Len(inflight) = 1 /\ Head(inflight) = inflight[1] /\ inflight[1] \in Job
      /\ UNCHANGED <<queue, running, stop_requested>>
  <2>1. Len(inflight) = 1
    BY DEF Complete, IInv, StageHoldsJob
  <2>2. inflight # <<>>
    BY <2>1
  <2> QED BY <2>1, <2>2, TypeFacts DEF IInv, Complete
<1>2. Accepting' = Accepting
  BY <1>1 DEF Accepting
<1>3. CASE Abandoned
  <2>1. UNCHANGED <<inflight, results>>
    BY <1>3 DEF Complete
  <2> QED BY <1>1, <1>2, <2>1 DEF Pending, Taken, Completions
<1>4. CASE ~Abandoned
  <2>1. /\ results' = Append(results, [capture |-> inflight[1].capture, at |-> inflight[1].at,
                                        outcome |-> outcome])
        /\ inflight' = <<>> /\ outcome \in Outcomes \ ConnectionLost
    BY <1>1, <1>4 DEF Complete, Abandoned, AnsweredOrStopped, IInv, TypeOK
  <2>2. /\ Pending \in Seq(Captures) /\ Len(Pending) = 1 + m /\ m \in Nat
        /\ Pending[1] = inflight[1].capture
        /\ \A i \in 2 .. m + 1 : Pending[i] = queue[i - 1].capture
        /\ Completions \in Seq(Report) /\ Len(Completions) = Len(results)
        /\ Taken
    <3>1. /\ Pending \in Seq(Captures) /\ Len(Pending) = 1 + m /\ m \in Nat
          /\ \A i \in 1 .. 1 + m : Pending[i] = IF i =< 1 THEN inflight[i].capture
                                               ELSE queue[i - 1].capture
          /\ Completions \in Seq(Report) /\ Len(Completions) = Len(results)
          /\ Taken
      BY <1>1, Seen
    <3> QED BY <3>1
  <2>3. PICK t : t = Tail(Pending)
    OBVIOUS
  <2>4. /\ Head(Pending) = inflight[1].capture /\ t \in Seq(Captures) /\ Len(t) = m
        /\ \A i \in 1 .. m : t[i] = queue[i].capture
    <3>1. Pending # <<>>
      BY <2>2, NonEmpty
    <3>2. /\ Head(Pending) = Pending[1] /\ t \in Seq(Captures) /\ Len(t) = Len(Pending) - 1
          /\ \A i \in 1 .. Len(t) : t[i] = Pending[i + 1]
      BY <2>2, <2>3, <3>1, Tailed
    <3>3. \A i \in 1 .. m : i + 1 \in 2 .. m + 1 /\ i + 1 - 1 = i
      BY <2>2
    <3> QED BY <2>2, <3>2, <3>3
  <2>5. Pending' = t
    <3>1. Len(inflight') = 0
      BY <2>1
    <3>2. /\ Pending' \in Seq(Captures) /\ Len(Pending') = m
          /\ \A i \in 1 .. m : Pending'[i] = queue[i].capture
      <4>1. queue' = queue
        BY <1>1
      <4>2. /\ Pending' \in Seq(Captures) /\ Len(Pending') = 0 + m
            /\ \A i \in 1 .. Len(Pending') :
                 Pending'[i] = IF i =< 0 THEN inflight'[i].capture ELSE queue[i - 0].capture
        BY <3>1, <4>1, SeenNext DEF LinesUp
      <4>3. 0 + m = m /\ \A i \in 1 .. m : ~(i =< 0) /\ i - 0 = i
        BY <2>2
      <4> QED BY <4>2, <4>3
    <3> QED BY <2>4, <3>2, SeqEqual
  <2>6. done \in Report /\ done = [capture |-> Head(Pending), outcome |-> outcome]
    BY <1>1, <2>1, <2>4 DEF Report, Job
  <2>7. PICK u : u = Append(Completions, done)
    OBVIOUS
  <2> HIDE DEF done
  <2>8. Completions' = u
    <3>1. /\ u \in Seq(Report) /\ Len(u) = Len(results) + 1 /\ u[Len(results) + 1] = done
          /\ \A i \in 1 .. Len(results) : u[i] = Completions[i]
      <4>1. /\ u \in Seq(Report) /\ Len(u) = Len(Completions) + 1 /\ u[Len(Completions) + 1] = done
            /\ \A i \in 1 .. Len(Completions) : u[i] = Completions[i]
        BY <2>2, <2>6, <2>7, Appended
      <4> QED BY <2>2, <4>1
    <3>2. /\ Len(results) \in Nat /\ Len(results') = Len(results) + 1
          /\ \A i \in 1 .. Len(results) : results'[i] = results[i]
          /\ results'[Len(results) + 1] = [capture |-> inflight[1].capture, at |-> inflight[1].at,
                                           outcome |-> outcome]
      BY <2>1 DEF IInv, TypeOK
    <3>3. /\ Completions' \in Seq(Report) /\ Len(Completions') = Len(results) + 1
          /\ \A i \in 1 .. Len(results) + 1 :
               Completions'[i] = [capture |-> results'[i].capture, outcome |-> results'[i].outcome]
      BY <3>2, SeenNext
    <3>4. \A i \in 1 .. Len(results) :
            Completions[i] = [capture |-> results[i].capture, outcome |-> results[i].outcome]
      BY Reported DEF Completions, IInv, TypeOK
    <3>5. ASSUME NEW i \in 1 .. Len(results) + 1 PROVE Completions'[i] = u[i]
      <4>1. CASE i \in 1 .. Len(results)
        BY <3>1, <3>2, <3>3, <3>4, <4>1
      <4>2. CASE i = Len(results) + 1
        BY <3>1, <3>2, <3>3, <4>2 DEF done
      <4> QED BY <3>2, <4>1, <4>2
    <3> QED BY <3>1, <3>3, <3>5, SeqEqual
  <2>9. Taken' = FALSE
    BY <2>1 DEF Taken
  <2>10. Writer!Finish(outcome)
    BY <1>2, <2>2, <2>3, <2>5, <2>6, <2>7, <2>8, <2>9, Zenon DEF Writer!Finish
  <2> QED BY <2>1, <2>10
<1> QED BY <1>3, <1>4

LEMMA PulseSeen ==
  ASSUME IInv, IInv', NEW n \in 1 .. MaxJobs, Pulse(n)
  PROVE  \E k \in 1 .. Len(Completions) : Writer!Consume(k)
<1>1. /\ results \in Seq(Completion) /\ results # <<>> /\ n \in Nat \ {0}
      /\ UNCHANGED <<inflight, queue, running, stop_requested>>
  BY LimitAssumption DEF Pulse, IInv, TypeOK
<1>2. Len(results) \in Nat /\ Len(results) # 0
  BY <1>1, NonEmpty
<1>3. PICK k \in 1 .. Len(results) : k = IF n < Len(results) THEN n ELSE Len(results)
  BY <1>1, <1>2
<1>4. /\ results' \in Seq(Completion) /\ Len(results') = Len(results) - k
      /\ \A i \in 1 .. Len(results') : results'[i] = results[i + k] /\ i + k \in 1 .. Len(results)
  <2>1. results' = SubSeq(results, k + 1, Len(results))
    <3>1. CASE n < Len(results)
      BY <1>3, <3>1 DEF Pulse
    <3>2. CASE ~(n < Len(results))
      <4>1. results' = <<>> /\ k = Len(results)
        BY <1>3, <3>2 DEF Pulse
      <4>2. SubSeq(results, k + 1, Len(results)) = <<>>
        BY <1>2, <4>1, SubSeqEmpty
      <4> QED BY <4>1, <4>2, Zenon
    <3> QED BY <3>1, <3>2
  <2>2. k \in 0 .. Len(results)
    BY <1>2
  <2> QED BY <1>1, <2>1, <2>2, Dropped
<1>5. /\ Completions \in Seq(Report) /\ Len(Completions) = Len(results)
      /\ \A i \in 1 .. Len(results) :
           Completions[i] = [capture |-> results[i].capture, outcome |-> results[i].outcome]
  BY <1>1, Reported DEF Completions
<1>6. PICK t : t = SubSeq(Completions, k + 1, Len(Completions))
  OBVIOUS
<1>7. /\ t \in Seq(Report) /\ Len(t) = Len(results) - k
      /\ \A i \in 1 .. Len(t) : t[i] = Completions[i + k]
  <2>1. k \in 0 .. Len(Completions)
    BY <1>2, <1>5
  <2>2. /\ t \in Seq(Report) /\ Len(t) = Len(Completions) - k
        /\ \A i \in 1 .. Len(t) : t[i] = Completions[i + k]
    BY <1>5, <1>6, <2>1, Dropped
  <2> QED BY <1>5, <2>2
<1>8. Completions' = t
  <2>1. /\ Completions' \in Seq(Report) /\ Len(Completions') = Len(t)
        /\ \A i \in 1 .. Len(t) :
             Completions'[i] = [capture |-> results'[i].capture, outcome |-> results'[i].outcome]
    BY <1>4, <1>7, SeenNext
  <2>2. \A i \in 1 .. Len(t) : Completions'[i] = t[i]
    BY <1>4, <1>5, <1>7, <2>1
  <2> QED BY <1>7, <2>1, <2>2, SeqEqual
<1>9. UNCHANGED <<Pending, Taken, Accepting>>
  BY <1>1 DEF Pending, Taken, Accepting
<1>10. k \in 1 .. Len(Completions)
  BY <1>5
<1>11. Writer!Consume(k)
  BY <1>6, <1>8, <1>9, <1>10, Zenon DEF Writer!Consume
<1> QED BY <1>10, <1>11

LEMMA InitImplements == Init => Writer!Init
<1> SUFFICES ASSUME Init PROVE Writer!Init
  OBVIOUS
<1>1. IInv
  BY InitInvariant
<1>2. /\ Len(inflight) = 0 /\ Len(queue) = 0 /\ Len(results) = 0 /\ ~running
  BY DEF Init
<1>3. Pending = <<>>
  BY <1>1, <1>2, Seen, NonEmpty
<1>4. Completions = <<>>
  BY <1>1, <1>2, Seen, NonEmpty
<1>5. Taken = FALSE /\ Accepting = FALSE
  BY <1>2 DEF Init, Taken, Accepting
<1> QED BY <1>3, <1>4, <1>5 DEF Writer!Init

LEMMA StepImplements ==
  IInv /\ IInv' /\ AnsweredOrStopped /\ Started /\ [Next]_vars => [Writer!Next]_(Writer!vars)
<1> SUFFICES ASSUME IInv, IInv', AnsweredOrStopped, Started, [Next]_vars
             PROVE  Writer!Next \/ UNCHANGED <<Pending, Taken, Completions, Accepting>>
  BY DEF Writer!vars
<1>1. CASE WorkerInit
  <2>1. UNCHANGED <<Pending, Taken, Completions>> /\ ~Accepting /\ Accepting' = TRUE
    BY <1>1 DEF WorkerInit, Pending, Taken, Completions, Accepting
  <2> QED BY <2>1 DEF Writer!Next, Writer!Open
<1>2. ASSUME NEW c \in Captures, Submit(c) PROVE Writer!Next
  BY <1>2, PutSeen DEF Writer!Next
<1>3. CASE TakeJob
  BY <1>3, TakeSeen DEF Writer!Next
<1>4. CASE Complete
  BY <1>4, CompleteSeen DEF Writer!Next
<1>5. ASSUME NEW n \in 1 .. MaxJobs, Pulse(n) PROVE Writer!Next
  BY <1>5, PulseSeen DEF Writer!Next
<1>6. CASE RequestStop
  <2>1. UNCHANGED <<Pending, Taken, Completions>> /\ Accepting /\ Accepting' = FALSE
    BY <1>6 DEF RequestStop, Pending, Taken, Completions, Accepting
  <2> QED BY <2>1 DEF Writer!Next, Writer!Close
<1>7. CASE FinishStop
  <2>1. UNCHANGED <<Pending, Taken, Completions>> /\ Accepting' = Accepting
    BY <1>7 DEF FinishStop, Pending, Taken, Completions, Accepting
  <2> QED BY <2>1
<1>8. CASE UNCHANGED <<inflight, queue, results, running, stop_requested>>
  BY <1>8 DEF Pending, Taken, Completions, Accepting
<1> QED
  BY <1>1, <1>2, <1>3, <1>4, <1>5, <1>6, <1>7, <1>8
     DEF Next, WriteJob, AckJournal, Retry, WriterExit, vars

(***************************************************************************)
(* Seen by its clients the worker is SaveWriter, for any captures and      *)
(* limits: one queue in the order of capture, whose last save a newer one  *)
(* of the same owner may replace, and one completion per save taken, with  *)
(* every retry, journal acknowledgement and abandoned write inside it.     *)
(***************************************************************************)
THEOREM WorkerImplementsWriter == Spec => ImplementsWriter
<1>1. Init => Started
  BY DEF Init, Started
<1>2. Spec => []Started
  BY <1>1, StepStarted, PTL DEF Spec
<1> QED
  BY <1>2, InitImplements, StepImplements, WorkerInvariant, AnsweredInvariant, PTL
     DEF Spec, ImplementsWriter, Writer!Spec
=============================================================================
