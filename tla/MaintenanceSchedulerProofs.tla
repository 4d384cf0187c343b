--------------------- MODULE MaintenanceSchedulerProofs ---------------------
(***************************************************************************)
(* Proofs about MaintenanceScheduler: for any registry, any number of      *)
(* zones, works, failures and restarts the state file loads, a page        *)
(* changes its zones once, nothing is forgotten before it was delivered,   *)
(* the published catalogue is whole and a job is in one place at a time.   *)
(***************************************************************************)
EXTENDS MaintenanceScheduler, SequenceLemmas, TLAPS

Job == [work : 0 .. MaxWorks, cursor : 0 .. Zones, active : BOOLEAN, due : BOOLEAN]
Stages == {"waiting", "flushing", "recording", "executing", "answering", "gone"}
Receipts == [work : 1 .. MaxWorks, outcome : Outcomes, next : 0 .. Zones]

GameTyped ==
  /\ health \in [Jobs -> Job] /\ queue \in Seq(Request) /\ completions \in Seq(Result)
  /\ works \in 0 .. MaxWorks /\ stop \in BOOLEAN /\ dirty \in BOOLEAN
PagesTyped ==
  refresh \in [zones : Seq(1 .. Zones), invalid : BOOLEAN] /\ catalog \in Seq(1 .. Zones)
Threads == [stage : Stages, request : Request \cup {None}, result : Result \cup {None},
            copy : [Jobs -> Entry]]
FilesTyped ==
  /\ durable \in [Jobs -> Entry] /\ disk \in [Jobs -> Entry]
  /\ worker \in Threads
DatabaseTyped ==
  /\ marker \in [Jobs -> (0 .. MaxWorks) \X (0 .. Zones)] /\ timer \in [Jobs -> 0 .. MaxWorks]
  /\ applied \in [1 .. MaxWorks -> [1 .. Zones -> Nat]]
CountsTyped ==
  /\ failures \in 0 .. MaxFailures /\ restarts \in 0 .. MaxRestarts
  /\ delivered \subseteq Receipts
Typed == GameTyped /\ PagesTyped /\ FilesTyped /\ DatabaseTyped /\ CountsTyped

(***************************************************************************)
(* What is said of runs is said of a view: the database, the works handed  *)
(* out and the results delivered.  A run w of job j at cursor c: the zones *)
(* up to c are changed, those of the page at c are if the marker says so,  *)
(* the rest are not, and the page before was delivered.                    *)
(***************************************************************************)
View == [applied |-> applied, marker |-> marker, delivered |-> delivered, works |-> works]

Untouched(v, w) == \A z \in 1 .. Zones : v.applied[w][z] = 0
Full(v, w) == \A z \in 1 .. Zones : v.applied[w][z] = 1
Gone(v, w) == \E r \in v.delivered : r.work = w /\ r.outcome \in Retired
Reached(v, w, c) ==
  c # 0 => \E r \in v.delivered : r.work = w /\ r.outcome = "more" /\ r.next = c

Progress(v, j, w, c) ==
  \A z \in 1 .. Zones :
    v.applied[w][z] = IF z <= c \/ (z <= c + Budget /\ v.marker[j] = <<w, c>>) THEN 1 ELSE 0
Run(v, j, w, c) ==
  /\ w \in 1 .. v.works /\ Reached(v, w, c)
  /\ j = Catalog => Untouched(v, w)
  /\ j # Catalog => Progress(v, j, w, c)

\* A request for that page; one that was prepared too early changes nothing.
Asks(v, j, w, c, request) ==
  /\ request.job = j /\ request.work = w /\ request.cursor = c
  /\ ~request.elapsed => c = 0 /\ j # Catalog /\ Untouched(v, w)

\* A result of that page, as it is remembered
Answers(v, j, w, c, result) ==
  /\ result.job = j /\ result.work = w /\ result.outcome # "cancelled"
  /\ result.outcome = "more" =>
       /\ result.next = c + Budget /\ c + Budget <= Zones
       /\ j = Catalog => result.rows = Page(c)
       /\ j # Catalog => v.marker[j] = <<w, c>>
  /\ result.outcome = "complete" =>
       /\ j = Catalog => result.rows = Page(c) /\ c + Budget > Zones
       /\ j # Catalog => Untouched(v, w) \/ Full(v, w)

EntryOK(v, j, e) ==
  /\ e.work = NoWork => e = Idle
  /\ e.work # NoWork => Run(v, j, e.work, e.cursor) /\ (e.request = None => e.cursor # 0)
  /\ e.request # None => Asks(v, j, e.work, e.cursor, e.request)
  /\ e.completion # None => e.request # None /\ Answers(v, j, e.work, e.cursor, e.completion)
  /\ Gone(v, e.work) => e.completion # None /\ e.completion.outcome \in Retired

\* The scheduler's own view h of a job agrees with what is remembered of it.
JobOK(v, j, h, e) ==
  /\ h.work = NoWork => h.cursor = 0 /\ ~h.active
  /\ h.work # NoWork => Run(v, j, h.work, h.cursor)
  /\ e.work \in {NoWork, h.work}
  /\ e.work # NoWork => e.cursor = h.cursor
  /\ ~h.active => e.work = h.work /\ e.completion = None

QueuedOK(v, h, e, request) ==
  /\ h.active /\ Asks(v, request.job, h.work, h.cursor, request)
  /\ e.completion = None /\ e.request \in {None, request}

HandedOK(h, e, result) ==
  /\ h.active /\ result.work = h.work
  /\ e.work = result.work /\ e.request # None

Moves(result) == result.outcome \in Retired \cup {"more"}

Writing == worker.stage \in {"flushing", "recording", "answering"}
Holding == worker.stage \in {"recording", "executing", "answering"}

\* What is remembered of every job is such a run, in memory, in a copy and on disk.
Entries ==
  \A j \in Jobs : /\ EntryOK(View, j, durable[j]) /\ EntryOK(View, j, disk[j])
                  /\ Writing => EntryOK(View, j, worker.copy[j])

Healthy == \A j \in Jobs : JobOK(View, j, health[j], durable[j])

\* A run whose end was delivered is in the scheduler only to be ended again.
Ending ==
  \A j \in Jobs : Gone(View, health[j].work) =>
    \E i \in 1 .. Len(completions) : completions[i].job = j /\ completions[i].outcome \in Retired

Queued ==
  \A i \in 1 .. Len(queue) :
    QueuedOK(View, health[queue[i].job], durable[queue[i].job], queue[i])

\* A result that moves its job on is on disk as it was handed out.
Handed ==
  \A i \in 1 .. Len(completions) :
    LET r == completions[i]
    IN  /\ HandedOK(health[r.job], durable[r.job], r)
        /\ r.outcome = "cancelled" => stop
        /\ Moves(r) => /\ r = durable[r.job].completion /\ disk[r.job] = durable[r.job]
                       /\ Writing => worker.copy[r.job] = durable[r.job]

Held ==
  /\ worker.request # None <=> Holding
  /\ Holding =>
       LET j == worker.request.job
       IN  /\ health[j].active
           /\ health[j].work = worker.request.work /\ health[j].cursor = worker.request.cursor
           /\ durable[j].work = worker.request.work /\ durable[j].request = worker.request
           /\ worker.stage # "answering" => durable[j].completion = None
           /\ worker.stage # "executing" => worker.copy[j] = durable[j]
           /\ worker.stage = "executing" => disk[j] = durable[j]
           /\ worker.stage = "answering" =>
                worker.result # None /\ durable[j].completion = worker.result

\* No job is in two places, and unless the scheduler was stopped an active one is in one.
Alone ==
  /\ \A i, k \in 1 .. Len(queue) : queue[i].job = queue[k].job => i = k
  /\ \A i, k \in 1 .. Len(completions) : completions[i].job = completions[k].job => i = k
  /\ \A i \in 1 .. Len(queue), k \in 1 .. Len(completions) : queue[i].job # completions[k].job
  /\ Holding => /\ \A i \in 1 .. Len(queue) : queue[i].job # worker.request.job
                /\ \A i \in 1 .. Len(completions) : completions[i].job # worker.request.job
Present ==
  ~stop => \A j \in Jobs : health[j].active =>
    \/ \E i \in 1 .. Len(queue) : queue[i].job = j
    \/ \E i \in 1 .. Len(completions) : completions[i].job = j
    \/ Holding /\ worker.request.job = j

\* Works are handed out once, each to one job.
WorksOf(j) == {health[j].work, durable[j].work, disk[j].work, worker.copy[j].work}
Distinct ==
  /\ \A j \in Jobs : WorksOf(j) \subseteq 0 .. works /\ marker[j][1] \in 0 .. works
  /\ \A j, k \in Jobs : j # k => WorksOf(j) \cap WorksOf(k) \subseteq {NoWork}
Fresh ==
  /\ \A w \in 1 .. MaxWorks : w > works => Untouched(View, w)
  /\ \A r \in delivered : r.work <= works

\* A run that changed zones is remembered everywhere until its end was delivered.
Carried(w) ==
  \E j \in Jobs \ {Catalog} :
    durable[j].work = w /\ disk[j].work = w /\ (Writing => worker.copy[j].work = w)
Touched == \A w \in 1 .. MaxWorks : ~Untouched(View, w) /\ ~Gone(View, w) => Carried(w)

\* No zone is changed twice; a run that was reported complete changed all or none.
Ended ==
  /\ \A w \in 1 .. MaxWorks, z \in 1 .. Zones : applied[w][z] \in {0, 1}
  /\ \A j \in Jobs : timer[j] # NoWork => Full(View, timer[j])
  /\ \A r \in delivered : r.outcome = "complete" => Untouched(View, r.work) \/ Full(View, r.work)

\* The pages in memory are those before the cursor of the catalogue's run.
First(n) == [i \in 1 .. n |-> i]
CatalogOK ==
  /\ ~refresh.invalid /\ refresh.zones = First(health[Catalog].cursor)
  /\ catalog = <<>> \/ catalog = First(Zones)

Files == Entries /\ Healthy /\ Ending
Placed == Queued /\ Handed /\ Held /\ Alone /\ Present
Runs == Distinct /\ Fresh /\ Touched /\ Ended
IInv == Files /\ Placed /\ Runs /\ CatalogOK

-----------------------------------------------------------------------------
(***************************************************************************)
(* Numbers, pages and records.                                             *)
(***************************************************************************)
LEMMA Constants ==
  /\ Zones \in Nat /\ Budget \in Nat /\ Budget >= 1 /\ MaxWorks \in Nat
  /\ MaxFailures \in Nat /\ MaxRestarts \in Nat /\ Catalog \in Jobs
BY ConstantAssumption

\* A page has the zones after the cursor, Budget of them if there are as many.
LEMMA PageFacts ==
  ASSUME NEW c \in 0 .. Zones
  PROVE  /\ Page(c) \in Seq(1 .. Zones)
         /\ Len(Page(c)) = IF c + Budget <= Zones THEN Budget ELSE Zones - c
         /\ NextCursor(c) \in 0 .. Zones
         /\ IsFull(c) <=> c + Budget <= Zones
         /\ IsFull(c) => NextCursor(c) = c + Budget
         /\ ~IsFull(c) => NextCursor(c) = Zones
         /\ \A i \in 1 .. Len(Page(c)) : Page(c)[i] = c + i
         /\ \A z \in 1 .. Zones : z \in ToSet(Page(c)) <=> c < z /\ z <= c + Budget
<1>0. c \in Nat /\ c <= Zones
  BY Constants
<1>1. PICK n \in Nat : n = (IF c + Budget <= Zones THEN c + Budget ELSE Zones) - c
  BY <1>0, Constants
<1>2. PICK p : p = Page(c)
  OBVIOUS
<1>3. p = [i \in 1 .. n |-> c + i]
  BY <1>1, <1>2 DEF Page
<1>4. \A i \in 1 .. n : c + i \in 1 .. Zones
  BY <1>0, <1>1, Constants
<1>5. p \in Seq(1 .. Zones) /\ Len(p) = n /\ DOMAIN p = 1 .. n
  <2>1. p \in [1 .. n -> 1 .. Zones]
    BY <1>3, <1>4
  <2> QED BY <2>1, Listed
<1>6. Len(p) = IF c + Budget <= Zones THEN Budget ELSE Zones - c
  BY <1>0, <1>1, <1>5, Constants
<1>7. \A i \in 1 .. n : p[i] = c + i
  BY <1>3
<1>8. ASSUME NEW z \in 1 .. Zones PROVE z \in ToSet(p) <=> c < z /\ z <= c + Budget
  <2>1. z \in ToSet(p) <=> \E i \in 1 .. n : p[i] = z
    BY <1>5 DEF ToSet
  <2>2. ASSUME c < z, z <= c + Budget PROVE \E i \in 1 .. n : p[i] = z
    <3>1. z - c \in 1 .. n /\ c + (z - c) = z
      BY <1>0, <1>1, <2>2, Constants
    <3> QED BY <1>7, <3>1
  <2>3. ASSUME NEW i \in 1 .. n, p[i] = z PROVE c < z /\ z <= c + Budget
    BY <1>0, <1>1, <1>7, <2>3, Constants
  <2> QED BY <2>1, <2>2, <2>3
<1>9. /\ NextCursor(c) = c + Len(p) /\ (IsFull(c) <=> Len(p) = Budget)
  BY <1>2 DEF NextCursor, IsFull
<1>10. /\ NextCursor(c) \in 0 .. Zones
       /\ IsFull(c) <=> c + Budget <= Zones
       /\ IsFull(c) => NextCursor(c) = c + Budget
       /\ ~IsFull(c) => NextCursor(c) = Zones
  BY <1>0, <1>6, <1>9, Constants
<1> QED BY <1>2, <1>5, <1>6, <1>7, <1>8, <1>10

LEMMA IdleTyped == Idle \in Entry /\ Idle.work = NoWork /\ Idle.request = None /\ Idle.completion = None
                   /\ Idle.cursor = 0
BY Constants DEF Idle, Entry, None, NoWork

LEMMA NotNone ==
  /\ \A q \in Request : q # None /\ q.work \in 1 .. MaxWorks /\ q.work # NoWork
  /\ \A r \in Result : r # None /\ r.work \in 1 .. MaxWorks /\ r.work # NoWork
BY Constants DEF Request, Result, None, NoWork

LEMMA AnswerTyped ==
  ASSUME NEW q \in Request, NEW outcome \in Outcomes
  PROVE  /\ Answer(q, outcome) \in Result /\ Answer(q, outcome).job = q.job
         /\ Answer(q, outcome).work = q.work /\ Answer(q, outcome).outcome = outcome
BY DEF Answer, Reply, Request, Result

LEMMA PageAnswerTyped ==
  ASSUME NEW q \in Request
  PROVE  /\ PageAnswer(q) \in Result /\ PageAnswer(q).job = q.job /\ PageAnswer(q).work = q.work
         /\ PageAnswer(q).outcome = IF IsFull(q.cursor) THEN "more" ELSE "complete"
         /\ PageAnswer(q).next = NextCursor(q.cursor)
         /\ q.job = Catalog => PageAnswer(q).rows = Page(q.cursor)
<1>1. q.cursor \in 0 .. Zones /\ q.job \in Jobs /\ q.work \in 1 .. MaxWorks
  BY DEF Request
<1>2. PageAnswer(q) = [job |-> q.job, work |-> q.work,
                       outcome |-> IF IsFull(q.cursor) THEN "more" ELSE "complete",
                       next |-> NextCursor(q.cursor),
                       rows |-> IF q.job = Catalog THEN Page(q.cursor) ELSE <<>>]
  BY DEF PageAnswer, Reply
<1>3. NextCursor(q.cursor) \in 0 .. Zones
  BY <1>1, PageFacts
<1> QED BY <1>1, <1>2, <1>3 DEF Result, Outcomes

-----------------------------------------------------------------------------
(***************************************************************************)
(* The results of a pulse.                                                 *)
(***************************************************************************)
Pages == [zones : Seq(1 .. Zones), invalid : BOOLEAN]
States == [health : [Jobs -> Job], durable : [Jobs -> Entry], dirty : BOOLEAN,
           refresh : Pages, catalog : Seq(1 .. Zones)]

LEMMA SettledJob ==
  ASSUME NEW h \in Job, NEW r \in Result
  PROVE  /\ Settled(h, r) \in Job /\ ~Settled(h, r).active
         /\ r.outcome \in Retired => Settled(h, r).work = NoWork /\ Settled(h, r).cursor = 0
         /\ r.outcome \notin Retired => Settled(h, r).work = h.work
         /\ r.outcome = "more" => Settled(h, r).cursor = r.next
         /\ r.outcome \notin Retired \cup {"more"} => Settled(h, r).cursor = h.cursor
<1>0. /\ r.outcome \in {"complete", "more", "retryable", "permanent", "cancelled"}
      /\ r.next \in 0 .. Zones /\ 0 \in 0 .. MaxWorks /\ 0 \in 0 .. Zones
  BY Constants DEF Result, Outcomes
<1>1. /\ h.work \in 0 .. MaxWorks /\ h.cursor \in 0 .. Zones /\ h.due \in BOOLEAN
      /\ h = [work |-> h.work, cursor |-> h.cursor, active |-> h.active, due |-> h.due]
  BY DEF Job
<1>2. CASE r.outcome \in Retired
  <2>1. Settled(h, r) = [work |-> NoWork, cursor |-> 0, active |-> FALSE, due |-> h.due]
    BY <1>1, <1>2 DEF Settled, Retired
  <2> QED BY <1>0, <1>1, <1>2, <2>1 DEF Job, NoWork, Retired
<1>3. CASE r.outcome = "more"
  <2>1. Settled(h, r) = [work |-> h.work, cursor |-> r.next, active |-> FALSE, due |-> FALSE]
    BY <1>1, <1>3 DEF Settled, Retired
  <2> QED BY <1>0, <1>1, <1>3, <2>1 DEF Job, Retired
<1>4. CASE r.outcome \notin Retired \cup {"more"}
  <2>1. \E b \in BOOLEAN : Settled(h, r) = [work |-> h.work, cursor |-> h.cursor, active |-> FALSE, due |-> b]
    BY <1>1, <1>4 DEF Settled, Retired
  <2> QED BY <1>0, <1>1, <1>4, <2>1 DEF Job
<1> QED BY <1>2, <1>3, <1>4

LEMMA RememberedEntry ==
  ASSUME NEW e \in Entry, NEW h \in Job, NEW r \in Result
  PROVE  Remembered(e, h, r) \in Entry
BY DEF Remembered, Entry, Job

LEMMA RowsTyped ==
  ASSUME NEW r \in Result
  PROVE  r.rows \in Seq(1 .. Zones)
<1>1. PICK e : e = <<>>
  OBVIOUS
<1>2. e \in Seq(1 .. Zones)
  BY <1>1
<1> QED BY <1>1, <1>2, PageFacts DEF Result

LEMMA ExtendedTyped ==
  ASSUME NEW pages \in Pages, NEW rows \in Seq(1 .. Zones)
  PROVE  Extended(pages, rows) \in Pages
<1>1. PICK zones : zones = pages.zones \o rows
  OBVIOUS
<1>2. zones \in Seq(1 .. Zones)
  BY <1>1, Concatenated DEF Pages
<1>3. Extended(pages, rows) = [zones |-> pages.zones, invalid |-> TRUE]
      \/ Extended(pages, rows) = [zones |-> zones, invalid |-> pages.invalid]
  BY <1>1 DEF Extended, Pages
<1>4. pages.zones \in Seq(1 .. Zones) /\ pages.invalid \in BOOLEAN
  BY DEF Pages
<1>5. CASE Extended(pages, rows) = [zones |-> pages.zones, invalid |-> TRUE]
  BY <1>4, <1>5 DEF Pages
<1>6. CASE Extended(pages, rows) = [zones |-> zones, invalid |-> pages.invalid]
  BY <1>2, <1>4, <1>6 DEF Pages
<1> QED BY <1>3, <1>5, <1>6

\* What a result of the catalogue makes of its pages
Paged(pages, r) ==
  IF r.job # Catalog \/ r.outcome = "retryable" THEN pages
  ELSE IF r.outcome = "more" THEN Extended(pages, r.rows) ELSE NoPages
Published(pages, zones, r) ==
  IF r.job = Catalog /\ r.outcome = "complete" /\ Publishes(Extended(pages, r.rows))
  THEN Extended(pages, r.rows).zones ELSE zones

LEMMA AccumulatedPages ==
  ASSUME NEW s \in States, NEW r \in Result
  PROVE  /\ Accumulated(s, r) = [health |-> s.health, durable |-> s.durable, dirty |-> s.dirty,
                                 refresh |-> Paged(s.refresh, r),
                                 catalog |-> Published(s.refresh, s.catalog, r)]
         /\ Paged(s.refresh, r) \in Pages
         /\ Published(s.refresh, s.catalog, r) \in Seq(1 .. Zones)
<1>0. r.outcome \in {"complete", "more", "retryable", "permanent", "cancelled"}
  BY DEF Result, Outcomes
<1>1. PICK pages : pages = Extended(s.refresh, r.rows)
  OBVIOUS
<1>2. pages \in Pages /\ s.refresh \in Pages /\ s.catalog \in Seq(1 .. Zones)
  BY <1>1, RowsTyped, ExtendedTyped DEF States
<1>3. NoPages \in Pages
  <2>1. PICK e : e = <<>>
    OBVIOUS
  <2>2. e \in Seq(1 .. Zones)
    BY <2>1
  <2> QED BY <2>1, <2>2 DEF NoPages, Pages
<1>4. s = [health |-> s.health, durable |-> s.durable, dirty |-> s.dirty, refresh |-> s.refresh,
           catalog |-> s.catalog]
  BY DEF States
<1>5. Accumulated(s, r) = [health |-> s.health, durable |-> s.durable, dirty |-> s.dirty,
                           refresh |-> Paged(s.refresh, r),
                           catalog |-> Published(s.refresh, s.catalog, r)]
  <2>1. CASE r.job # Catalog \/ r.outcome = "retryable"
    <3>1. Accumulated(s, r) = s
      BY <2>1 DEF Accumulated
    <3>2. Paged(s.refresh, r) = s.refresh /\ Published(s.refresh, s.catalog, r) = s.catalog
      BY <2>1 DEF Paged, Published
    <3> QED BY <1>4, <3>1, <3>2
  <2>2. CASE r.job = Catalog /\ r.outcome \in {"permanent", "cancelled"}
    BY <1>4, <2>2 DEF Accumulated, Paged, Published
  <2>3. CASE r.job = Catalog /\ r.outcome = "more"
    BY <1>4, <2>3 DEF Accumulated, Paged, Published
  <2>4. CASE r.job = Catalog /\ r.outcome = "complete"
    BY <1>4, <2>4 DEF Accumulated, Paged, Published
  <2> QED BY <1>0, <2>1, <2>2, <2>3, <2>4
<1> QED BY <1>1, <1>2, <1>3, <1>5 DEF Paged, Published, Pages

\* One result: its job is settled and remembered, its pages are put together.
LEMMA ConsumeState ==
  ASSUME NEW s \in States, NEW r \in Result
  PROVE  /\ Consume(s, r) \in States
         /\ IsAwaited(s.health[r.job], r) =>
              Consume(s, r) =
                [health |-> [s.health EXCEPT ![r.job] = Settled(s.health[r.job], r)],
                 durable |-> [s.durable EXCEPT ![r.job] =
                                Remembered(s.durable[r.job], Settled(s.health[r.job], r), r)],
                 dirty |-> TRUE, refresh |-> Paged(s.refresh, r),
                 catalog |-> Published(s.refresh, s.catalog, r)]
<1>1. r.job \in Jobs /\ s.health[r.job] \in Job /\ s.durable[r.job] \in Entry
  BY DEF Result, States
<1>2. PICK h : h = Settled(s.health[r.job], r)
  OBVIOUS
<1>3. PICK e : e = Remembered(s.durable[r.job], h, r)
  OBVIOUS
<1>4. h \in Job /\ e \in Entry
  BY <1>1, <1>2, <1>3, SettledJob, RememberedEntry
<1>5. PICK seen : seen = Accumulated(s, r)
  OBVIOUS
<1>6. /\ seen = [health |-> s.health, durable |-> s.durable, dirty |-> s.dirty,
                 refresh |-> Paged(s.refresh, r), catalog |-> Published(s.refresh, s.catalog, r)]
      /\ Paged(s.refresh, r) \in Pages /\ Published(s.refresh, s.catalog, r) \in Seq(1 .. Zones)
  BY <1>5, AccumulatedPages
<1>7. seen \in States
  BY <1>6 DEF States
<1>8. CASE ~IsAwaited(s.health[r.job], r)
  <2>1. Consume(s, r) = seen
    BY <1>5, <1>8 DEF Consume
  <2> QED BY <1>7, <1>8, <2>1
<1>9. CASE IsAwaited(s.health[r.job], r)
  <2>1. Consume(s, r) = [seen EXCEPT !.health[r.job] = h, !.durable[r.job] =
                                       Remembered(@, h, r), !.dirty = TRUE]
    BY <1>2, <1>5, <1>9 DEF Consume
  <2>2. Consume(s, r) =
                [health |-> [s.health EXCEPT ![r.job] = h],
                 durable |-> [s.durable EXCEPT ![r.job] = e],
                 dirty |-> TRUE, refresh |-> Paged(s.refresh, r),
                 catalog |-> Published(s.refresh, s.catalog, r)]
    BY <1>3, <1>6, <2>1
  <2>3. Consume(s, r) \in States
    BY <1>1, <1>4, <1>6, <2>2 DEF States
  <2> QED BY <1>2, <1>3, <2>2, <2>3
<1> QED BY <1>8, <1>9

\* The states a pulse goes through, result by result
LEMMA ConsumedStates ==
  ASSUME NEW before \in States, completions \in Seq(Result), NEW n \in 0 .. Len(completions)
  PROVE  \E f : /\ f \in [0 .. n -> States] /\ f[0] = before
                /\ \A i \in 1 .. n : f[i] = Consume(f[i - 1], completions[i])
                /\ Consumed(before, n) = f[n]
<1>0. PICK S : S = States
  OBVIOUS
<1>1. Len(completions) \in Nat /\ n \in Nat
  OBVIOUS
<1> DEFINE Step(s, i) == Consume(s, completions[i])
           F == [i \in 1 .. n |-> [s \in S |-> Step(s, i)]]
<1>2. ASSUME NEW s \in S, NEW i \in 1 .. n PROVE Step(s, i) \in S
  <2>1. completions[i] \in Result
    BY <1>1
  <2> QED BY <1>0, <2>1, ConsumeState
<1> HIDE DEF Step
<1>3. F \in [1 .. n -> [S -> S]]
  BY <1>2
<1>4. \A i \in 1 .. n : \A s \in S : F[i][s] = Step(s, i)
  <2>1. ASSUME NEW i \in 1 .. n PROVE F[i] = [s \in S |-> Step(s, i)]
    OBVIOUS
  <2> HIDE DEF F
  <2> QED BY <2>1
<1> HIDE DEF F
<1>5. PICK g : Follows(g, S, before, F, n)
  BY <1>0, <1>1, <1>3, Iterated
<1>6. /\ g \in [0 .. n -> S] /\ g[0] = before
      /\ \A i \in 1 .. n : g[i] = F[i][g[i - 1]]
  BY <1>5 DEF Follows
<1>7. ASSUME NEW i \in 1 .. n PROVE g[i] = Step(g[i - 1], i)
  <2>1. i - 1 \in 0 .. n
    OBVIOUS
  <2> QED BY <1>4, <1>6, <2>1
<1> DEFINE Unfolds(f) == f = [i \in 0 .. n |-> IF i = 0 THEN before ELSE Step(f[i - 1], i)]
<1>8. Unfolds(g)
  <2>1. ASSUME NEW i \in 0 .. n
        PROVE  g[i] = IF i = 0 THEN before ELSE Step(g[i - 1], i)
    BY <1>1, <1>6, <1>7
  <2> QED BY <1>6, <2>1
<1> DEFINE f == CHOOSE f : Unfolds(f)
<1>9. Unfolds(f)
  <2> HIDE DEF Unfolds
  <2> QED BY <1>8
<1>10. Consumed(before, n) = f[n]
  BY Zenon DEF Consumed, Step
<1> HIDE DEF f
<1>11. /\ f = [i \in 0 .. n |-> f[i]] /\ f[0] = before
       /\ \A i \in 1 .. n : f[i] = Step(f[i - 1], i)
  BY <1>1, <1>9
<1> DEFINE T == {i \in 0 .. n : f[i] \in S}
<1>12. 0 \in T
  BY <1>0, <1>1, <1>11
<1>13. ASSUME NEW i \in 1 .. n, i - 1 \in T PROVE i \in T
  <2>1. PICK s : s = f[i - 1]
    OBVIOUS
  <2>2. s \in S /\ f[i] = Step(s, i)
    BY <1>11, <1>13, <2>1
  <2>3. f[i] \in S
    BY <1>2, <2>2
  <2> QED BY <2>3
<1>14. 0 .. n \subseteq T
  <2> HIDE DEF T
  <2> QED BY <1>1, <1>12, <1>13, UpTo
<1>15. f \in [0 .. n -> S]
  BY <1>11, <1>14
<1>16. \A i \in 1 .. n : f[i] = Consume(f[i - 1], completions[i])
  BY <1>11 DEF Step
<1> HIDE DEF T
<1> QED BY <1>0, <1>10, <1>11, <1>15, <1>16, Zenon

\* What the first n results make of the state before the pulse, when no job has two
Settles(b, s, n) ==
  /\ \A j \in Jobs : (\A i \in 1 .. n : completions[i].job # j) =>
       s.health[j] = b.health[j] /\ s.durable[j] = b.durable[j]
  /\ \A i \in 1 .. n :
       LET j == completions[i].job
           h == Settled(b.health[j], completions[i])
       IN  s.health[j] = h /\ s.durable[j] = Remembered(b.durable[j], h, completions[i])
  /\ (\A i \in 1 .. n : completions[i].job # Catalog) =>
       s.refresh = b.refresh /\ s.catalog = b.catalog
  /\ \A i \in 1 .. n : completions[i].job = Catalog =>
       /\ s.refresh = Paged(b.refresh, completions[i])
       /\ s.catalog = Published(b.refresh, b.catalog, completions[i])

LEMMA ConsumedSettles ==
  ASSUME NEW b \in States, completions \in Seq(Result),
         \A i, k \in 1 .. Len(completions) : completions[i].job = completions[k].job => i = k,
         \A i \in 1 .. Len(completions) : IsAwaited(b.health[completions[i].job], completions[i]),
         NEW s, s = Consumed(b, Len(completions))
  PROVE  s \in States /\ Settles(b, s, Len(completions))
<1>1. PICK n \in Nat : n = Len(completions)
  OBVIOUS
<1>2. \A i \in 1 .. n : completions[i] \in Result /\ completions[i].job \in Jobs
  <2>1. \A i \in 1 .. n : completions[i] \in Result
    BY <1>1
  <2>2. \A r \in Result : r.job \in Jobs
    BY DEF Result
  <2> QED BY <2>1, <2>2
<1>3. n \in 0 .. Len(completions)
  BY <1>1
<1>4. PICK f : /\ f \in [0 .. n -> States] /\ f[0] = b
               /\ \A i \in 1 .. n : f[i] = Consume(f[i - 1], completions[i])
               /\ Consumed(b, n) = f[n]
  BY <1>3, ConsumedStates
<1> DEFINE T == {m \in 0 .. n : Settles(b, f[m], m)}
<1>5. 0 \in T
  <2>1. PICK u : u = f[0]
    OBVIOUS
  <2>2. \A i \in 1 .. 0 : FALSE
    OBVIOUS
  <2>3. Settles(b, u, 0)
    BY <1>4, <2>1, <2>2, Zenon DEF Settles
  <2> QED BY <1>1, <2>1, <2>3
<1>6. ASSUME NEW m \in 1 .. n, m - 1 \in T PROVE m \in T
  <2>1. PICK r, u, t : r = completions[m] /\ u = f[m - 1] /\ t = f[m]
    OBVIOUS
  <2>2. m - 1 \in 0 .. n /\ \A i \in 1 .. m : i \in 1 .. n /\ (i = m \/ i \in 1 .. (m - 1))
    OBVIOUS
  <2>3. u \in States /\ t = Consume(u, r) /\ Settles(b, u, m - 1) /\ r \in Result /\ r.job \in Jobs
    BY <1>2, <1>4, <1>6, <2>1, <2>2
  <2>4. \A i \in 1 .. (m - 1) : i \in 1 .. n /\ completions[i].job # r.job
    BY <1>1, <2>1
  <2>5. u.health[r.job] = b.health[r.job] /\ u.durable[r.job] = b.durable[r.job]
    BY <2>3, <2>4 DEF Settles
  <2>6. IsAwaited(u.health[r.job], r)
    BY <1>1, <2>1, <2>5
  <2>7. t = [health |-> [u.health EXCEPT ![r.job] = Settled(u.health[r.job], r)],
             durable |-> [u.durable EXCEPT ![r.job] =
                            Remembered(u.durable[r.job], Settled(u.health[r.job], r), r)],
             dirty |-> TRUE, refresh |-> Paged(u.refresh, r),
             catalog |-> Published(u.refresh, u.catalog, r)]
    BY <2>3, <2>6, ConsumeState
  <2>8. PICK h, e : h = Settled(b.health[r.job], r) /\ e = Remembered(b.durable[r.job], h, r)
    OBVIOUS
  <2>9. /\ t.health[r.job] = h /\ t.durable[r.job] = e
        /\ \A j \in Jobs \ {r.job} : t.health[j] = u.health[j] /\ t.durable[j] = u.durable[j]
    BY <2>3, <2>5, <2>7, <2>8 DEF States
  <2>10. t.refresh = Paged(u.refresh, r) /\ t.catalog = Published(u.refresh, u.catalog, r)
    BY <2>7
  <2>11. ASSUME NEW j \in Jobs, \A i \in 1 .. m : completions[i].job # j
         PROVE  t.health[j] = b.health[j] /\ t.durable[j] = b.durable[j]
    <3>1. j # r.job /\ \A i \in 1 .. (m - 1) : completions[i].job # j
      BY <2>1, <2>11
    <3> QED BY <2>3, <2>9, <3>1 DEF Settles
  <2>12. ASSUME NEW i \in 1 .. m
         PROVE  /\ t.health[completions[i].job] = Settled(b.health[completions[i].job], completions[i])
                /\ t.durable[completions[i].job] =
                     Remembered(b.durable[completions[i].job],
                                Settled(b.health[completions[i].job], completions[i]), completions[i])
    <3>1. CASE i = m
      BY <2>1, <2>8, <2>9, <3>1
    <3>2. CASE i \in 1 .. (m - 1)
      <4>1. completions[i].job \in Jobs \ {r.job}
        BY <1>2, <2>4, <3>2
      <4> QED BY <2>3, <2>9, <3>2, <4>1 DEF Settles
    <3> QED BY <2>2, <3>1, <3>2
  <2>13. ASSUME \A i \in 1 .. m : completions[i].job # Catalog
         PROVE  t.refresh = b.refresh /\ t.catalog = b.catalog
    <3>1. r.job # Catalog /\ \A i \in 1 .. (m - 1) : completions[i].job # Catalog
      BY <2>1, <2>13
    <3> QED BY <2>3, <2>10, <3>1 DEF Settles, Paged, Published
  <2>14. ASSUME NEW i \in 1 .. m, completions[i].job = Catalog
         PROVE  /\ t.refresh = Paged(b.refresh, completions[i])
                /\ t.catalog = Published(b.refresh, b.catalog, completions[i])
    <3>1. CASE i = m
      <4>1. \A k \in 1 .. (m - 1) : completions[k].job # Catalog
        BY <2>1, <2>4, <2>14, <3>1
      <4> QED BY <2>1, <2>3, <2>10, <3>1, <4>1 DEF Settles
    <3>2. CASE i \in 1 .. (m - 1)
      <4>1. r.job # Catalog
        BY <2>4, <2>14, <3>2
      <4>2. t.refresh = u.refresh /\ t.catalog = u.catalog
        BY <2>10, <4>1 DEF Paged, Published
      <4> QED BY <2>3, <2>14, <3>2, <4>2 DEF Settles
    <3> QED BY <2>2, <3>1, <3>2
  <2>15. Settles(b, t, m)
    BY <2>11, <2>12, <2>13, <2>14 DEF Settles
  <2> QED BY <2>1, <2>15
<1>7. 0 .. n \subseteq T
  <2> HIDE DEF T
  <2> QED BY <1>5, <1>6, UpTo
<1>8. n \in T /\ n \in 0 .. n
  BY <1>7
<1> QED BY <1>1, <1>4, <1>8

-----------------------------------------------------------------------------
(***************************************************************************)
(* Every variable has its type.                                            *)
(***************************************************************************)
LEMMA StagesTyped ==
  ASSUME NEW stage \in Stages, NEW q \in Request \cup {None}, NEW r \in Result \cup {None},
         NEW copy \in [Jobs -> Entry]
  PROVE  At(stage, q, r, copy) \in Threads
BY DEF At, Threads

LEMMA WorkerTyped ==
  ASSUME FilesTyped
  PROVE  /\ worker = At(worker.stage, worker.request, worker.result, worker.copy)
         /\ worker.stage \in Stages /\ worker.request \in Request \cup {None}
         /\ worker.result \in Result \cup {None} /\ worker.copy \in [Jobs -> Entry]
BY DEF FilesTyped, At, Threads

\* What AnswerWith records
LEMMA AnswerWithTyped ==
  ASSUME FilesTyped, NEW r \in Result, AnswerWith(r)
  PROVE  /\ durable' \in [Jobs -> Entry]
         /\ worker' \in Threads
         /\ durable' = [durable EXCEPT ![r.job] =
              [work |-> durable[r.job].work, cursor |-> durable[r.job].cursor,
               request |-> durable[r.job].request, completion |-> r]]
         /\ worker'.stage = "answering" /\ worker'.request = worker.request
         /\ worker'.result = r /\ worker'.copy = durable'
<1>1. r.job \in Jobs /\ durable \in [Jobs -> Entry] /\ durable[r.job] \in Entry
  BY DEF FilesTyped, Result
<1>2. PICK e : e = [work |-> durable[r.job].work, cursor |-> durable[r.job].cursor,
                    request |-> durable[r.job].request, completion |-> r]
  OBVIOUS
<1>3. e \in Entry /\ [durable[r.job] EXCEPT !.completion = r] = e
  BY <1>1, <1>2 DEF Entry
<1>4. durable' = [durable EXCEPT ![r.job] = [durable[r.job] EXCEPT !.completion = r]]
  BY DEF AnswerWith, Answered
<1>5. durable' = [durable EXCEPT ![r.job] = e]
  BY <1>3, <1>4
<1>6. durable' \in [Jobs -> Entry]
  BY <1>1, <1>3, <1>5
<1>7. worker' = At("answering", worker.request, r, durable')
  BY DEF AnswerWith
<1>8. "answering" \in Stages
  BY DEF Stages
<1>9. worker' \in Threads
  BY <1>6, <1>7, <1>8, StagesTyped, WorkerTyped
<1>10. /\ worker'.stage = "answering" /\ worker'.request = worker.request
       /\ worker'.result = r /\ worker'.copy = durable'
  BY <1>7 DEF At
<1> QED BY <1>2, <1>5, <1>6, <1>9, <1>10

LEMMA RecordedEntry ==
  ASSUME FilesTyped, NEW q \in Request
  PROVE  /\ Recorded(q) \in [Jobs -> Entry]
         /\ q.job \in Jobs
         /\ Recorded(q)[q.job] = [work |-> q.work, cursor |-> q.cursor, request |-> q,
                                  completion |-> None]
         /\ \A j \in Jobs \ {q.job} : Recorded(q)[j] = durable[j]
<1>1. PICK e : e = [work |-> q.work, cursor |-> q.cursor, request |-> q, completion |-> None]
  OBVIOUS
<1>2. e \in Entry /\ q.job \in Jobs
  BY <1>1, Constants DEF Entry, Request
<1>3. Recorded(q) = [durable EXCEPT ![q.job] = e]
  BY <1>1 DEF Recorded
<1> QED BY <1>1, <1>2, <1>3 DEF FilesTyped

LEMMA DiskTyped ==
  ASSUME FilesTyped, CountsTyped, Persisted \/ PersistFailed
  PROVE  /\ disk' \in [Jobs -> Entry] /\ failures' \in 0 .. MaxFailures
         /\ disk' \in {disk, worker.copy}
<1>1. failures' \in 0 .. MaxFailures
  BY Constants DEF CountsTyped, Persisted, PersistFailed
<1>2. disk' \in {disk, worker.copy}
  BY DEF Persisted, PersistFailed
<1> QED BY <1>1, <1>2, WorkerTyped DEF FilesTyped

\* The worker's steps that leave the queues and the database alone
LEMMA TypedQuietSteps ==
  ASSUME Typed, Held, TakeDirty \/ Flush \/ TakeRequest \/ RecordRequest \/ Leave
  PROVE  Typed'
<1> USE DEF Typed
<1>1. Waiting(worker.copy) \in Threads
  BY WorkerTyped, StagesTyped DEF Waiting, Stages
<1>2. CASE TakeDirty
  <2>1. worker' \in Threads
    BY <1>2, StagesTyped DEF TakeDirty, Stages, FilesTyped
  <2> QED BY <1>2, <2>1 DEF TakeDirty, GameTyped, PagesTyped, FilesTyped, DatabaseTyped,
             CountsTyped, game, database
<1>3. CASE Flush
  <2>1. disk' \in [Jobs -> Entry] /\ failures' \in 0 .. MaxFailures
    BY <1>3, DiskTyped DEF Flush
  <2>2. dirty' \in BOOLEAN
    BY <1>3 DEF Flush, GameTyped
  <2> QED BY <1>1, <1>3, <2>1, <2>2 DEF Flush, GameTyped, PagesTyped, FilesTyped, DatabaseTyped,
             CountsTyped, game, database
<1>4. CASE TakeRequest
  <2>1. PICK q : q = Head(queue)
    OBVIOUS
  <2>2. q \in Request /\ queue' \in Seq(Request)
    BY <1>4, <2>1, Tailed DEF TakeRequest, GameTyped
  <2>3. durable' = Recorded(q) /\ worker' = At("recording", q, None, durable')
    BY <1>4, <2>1 DEF TakeRequest
  <2>4. durable' \in [Jobs -> Entry]
    BY <2>2, <2>3, RecordedEntry
  <2>5. worker' \in Threads
    BY <2>2, <2>3, <2>4, StagesTyped DEF Stages
  <2> QED BY <1>4, <2>2, <2>4, <2>5 DEF TakeRequest, GameTyped, PagesTyped, FilesTyped,
             DatabaseTyped, CountsTyped, game, database
<1>5. CASE RecordRequest
  <2>0. worker.request \in Request
    BY <1>5, WorkerTyped DEF Held, Holding, RecordRequest
  <2>1. disk' \in [Jobs -> Entry] /\ failures' \in 0 .. MaxFailures
    BY <1>5, DiskTyped DEF RecordRequest
  <2>2. durable' \in [Jobs -> Entry] /\ worker' \in Threads
    <3>1. CASE worker' = [worker EXCEPT !.stage = "executing"] /\ UNCHANGED durable
      <4>1. worker' = At("executing", worker.request, worker.result, worker.copy)
        BY <3>1, WorkerTyped DEF At
      <4> QED BY <3>1, <4>1, WorkerTyped, StagesTyped DEF Stages, FilesTyped
    <3>2. CASE AnswerWith(Answer(worker.request, "retryable"))
      <4>1. Answer(worker.request, "retryable") \in Result
        BY <2>0, AnswerTyped DEF Outcomes
      <4> QED BY <3>2, <4>1, AnswerWithTyped
    <3> QED BY <1>5, <3>1, <3>2 DEF RecordRequest
  <2> QED BY <1>5, <2>1, <2>2 DEF RecordRequest, GameTyped, PagesTyped, FilesTyped,
             DatabaseTyped, CountsTyped, game, database
<1>6. CASE Leave
  <2>1. worker' = At("gone", worker.request, worker.result, worker.copy)
    BY <1>6, WorkerTyped DEF Leave, At
  <2>2. worker' \in Threads
    BY <2>1, StagesTyped, WorkerTyped DEF Stages
  <2> QED BY <1>6, <2>2 DEF Leave, GameTyped, PagesTyped, FilesTyped, DatabaseTyped,
             CountsTyped, game, database
<1> QED BY <1>2, <1>3, <1>4, <1>5, <1>6

\* What a COMMIT changes
LEMMA CommitFacts ==
  ASSUME DatabaseTyped, NEW q \in Request, Commit(q)
  PROVE  /\ DatabaseTyped'
         /\ marker'[q.job] = <<q.work, q.cursor>>
         /\ \A j \in Jobs \ {q.job} : marker'[j] = marker[j] /\ timer'[j] = timer[j]
         /\ timer'[q.job] = IF IsFull(q.cursor) THEN timer[q.job] ELSE q.work
         /\ \A w \in 1 .. MaxWorks \ {q.work} : applied'[w] = applied[w]
         /\ \A z \in 1 .. Zones :
              applied'[q.work][z] =
                IF ~MarkerMatches(q) /\ q.cursor < z /\ z <= q.cursor + Budget
                THEN applied[q.work][z] + 1 ELSE applied[q.work][z]
<1>1. q.job \in Jobs /\ q.work \in 1 .. MaxWorks /\ q.work \in 0 .. MaxWorks /\ q.cursor \in 0 .. Zones
  BY Constants DEF Request
<1>2. PICK zones : zones = IF MarkerMatches(q) THEN {} ELSE ToSet(Page(q.cursor))
  OBVIOUS
<1>3. ASSUME NEW z \in 1 .. Zones
      PROVE  z \in zones <=> ~MarkerMatches(q) /\ q.cursor < z /\ z <= q.cursor + Budget
  BY <1>1, <1>2, PageFacts
<1>4. /\ marker' = [marker EXCEPT ![q.job] = <<q.work, q.cursor>>]
      /\ timer' = [timer EXCEPT ![q.job] = IF IsFull(q.cursor) THEN @ ELSE q.work]
      /\ applied' = [applied EXCEPT ![q.work] =
                      [z \in 1 .. Zones |-> IF z \in zones THEN @[z] + 1 ELSE @[z]]]
  BY <1>2 DEF Commit
<1>5. /\ marker' \in [Jobs -> (0 .. MaxWorks) \X (0 .. Zones)]
      /\ marker'[q.job] = <<q.work, q.cursor>>
      /\ \A j \in Jobs \ {q.job} : marker'[j] = marker[j]
  BY <1>1, <1>4 DEF DatabaseTyped
<1>6. /\ timer' \in [Jobs -> 0 .. MaxWorks]
      /\ timer'[q.job] = IF IsFull(q.cursor) THEN timer[q.job] ELSE q.work
      /\ \A j \in Jobs \ {q.job} : timer'[j] = timer[j]
  BY <1>1, <1>4 DEF DatabaseTyped
<1>7. PICK row : row = [z \in 1 .. Zones |-> IF z \in zones THEN applied[q.work][z] + 1
                                             ELSE applied[q.work][z]]
  OBVIOUS
<1>8. applied[q.work] \in [1 .. Zones -> Nat]
  BY <1>1 DEF DatabaseTyped
<1>9. row \in [1 .. Zones -> Nat]
  <2>1. PICK a : a = applied[q.work]
    OBVIOUS
  <2>2. ASSUME NEW z \in 1 .. Zones PROVE a[z] \in Nat /\ a[z] + 1 \in Nat
    <3>1. a[z] \in Nat
      BY <1>8, <2>1, Zenon
    <3> QED BY <3>1
  <2>3. row = [z \in 1 .. Zones |-> IF z \in zones THEN a[z] + 1 ELSE a[z]]
    BY <1>7, <2>1
  <2> QED BY <2>2, <2>3
<1>10. applied' = [applied EXCEPT ![q.work] = row]
  BY <1>4, <1>7
<1>11. /\ applied' \in [1 .. MaxWorks -> [1 .. Zones -> Nat]]
       /\ \A w \in 1 .. MaxWorks \ {q.work} : applied'[w] = applied[w]
       /\ applied'[q.work] = row
  BY <1>1, <1>9, <1>10 DEF DatabaseTyped
<1>12. ASSUME NEW z \in 1 .. Zones
       PROVE  applied'[q.work][z] =
                IF ~MarkerMatches(q) /\ q.cursor < z /\ z <= q.cursor + Budget
                THEN applied[q.work][z] + 1 ELSE applied[q.work][z]
  <2>1. row[z] = IF z \in zones THEN applied[q.work][z] + 1 ELSE applied[q.work][z]
    BY <1>7
  <2> QED BY <1>3, <1>11, <2>1
<1> QED BY <1>5, <1>6, <1>11, <1>12 DEF DatabaseTyped

\* The result of an execution, by how it came about
Executed(q, r) ==
  \/ NotYet(q) /\ r = Answer(q, "complete") /\ UNCHANGED database
  \/ ~NotYet(q) /\ q.job = Catalog /\ r = PageAnswer(q) /\ UNCHANGED database
  \/ ~NotYet(q) /\ q.job # Catalog /\ Commit(q) /\ r \in {PageAnswer(q), Answer(q, "retryable")}
  \/ r \in {Answer(q, "retryable"), Answer(q, "permanent")} /\ UNCHANGED database

LEMMA ExecuteFacts ==
  ASSUME Typed, Held, Execute
  PROVE  /\ worker.request \in Request /\ failures' \in 0 .. MaxFailures
         /\ \E r \in Result : Executed(worker.request, r) /\ AnswerWith(r)
<1>1. PICK q : q = worker.request
  OBVIOUS
<1>2. q \in Request
  BY <1>1, WorkerTyped DEF Held, Holding, Execute, Typed
<1>3. /\ PageAnswer(q) \in Result /\ Answer(q, "complete") \in Result
      /\ Answer(q, "retryable") \in Result /\ Answer(q, "permanent") \in Result
  BY <1>2, PageAnswerTyped, AnswerTyped DEF Outcomes
<1>4. failures' \in 0 .. MaxFailures
  BY Constants DEF Execute, ExecutePage, ExecuteFailed, Typed, CountsTyped
<1>5. CASE NotYet(q) /\ AnswerWith(Answer(q, "complete")) /\ UNCHANGED <<database, failures>>
  BY <1>1, <1>2, <1>3, <1>4, <1>5 DEF Executed
<1>6. CASE ~NotYet(q) /\ ExecutePage(q)
  BY <1>1, <1>2, <1>3, <1>4, <1>6 DEF Executed, ExecutePage
<1>7. CASE ExecuteFailed(q)
  BY <1>1, <1>2, <1>3, <1>4, <1>7 DEF Executed, ExecuteFailed
<1> QED BY <1>1, <1>5, <1>6, <1>7 DEF Execute

LEMMA TypedExecute ==
  ASSUME Typed, Held, Execute
  PROVE  Typed'
<1>1. /\ worker.request \in Request /\ failures' \in 0 .. MaxFailures
      /\ \E r \in Result : Executed(worker.request, r) /\ AnswerWith(r)
  BY ExecuteFacts
<1>2. PICK r \in Result : Executed(worker.request, r) /\ AnswerWith(r)
  BY <1>1
<1>3. DatabaseTyped'
  <2>1. CASE UNCHANGED database
    BY <2>1 DEF database, DatabaseTyped, Typed
  <2>2. CASE Commit(worker.request)
    BY <1>1, <2>2, CommitFacts DEF Typed
  <2> QED BY <1>2, <2>1, <2>2 DEF Executed
<1>4. durable' \in [Jobs -> Entry] /\ worker' \in Threads
  BY <1>2, AnswerWithTyped DEF Typed
<1> QED BY <1>1, <1>3, <1>4 DEF Execute, Typed, GameTyped, PagesTyped, FilesTyped, CountsTyped, game

\* A result as it is handed out
LEMMA HandOutFacts ==
  ASSUME Typed, NEW r \in Result, HandOut(r)
  PROVE  \E x \in Result : /\ completions' = Append(completions, x)
                           /\ x = [r EXCEPT !.outcome = IF stop THEN "cancelled" ELSE @]
                           /\ x.job = r.job /\ x.work = r.work
                           /\ x.outcome = IF stop THEN "cancelled" ELSE r.outcome
                           /\ ~stop => x = r
<1>1. PICK x : x = [r EXCEPT !.outcome = IF stop THEN "cancelled" ELSE @]
  OBVIOUS
<1>2. completions' = Append(completions, x)
  BY <1>1 DEF HandOut
<1>3. x \in Result /\ x.job = r.job /\ x.work = r.work /\ (~stop => x = r)
      /\ x.outcome = IF stop THEN "cancelled" ELSE r.outcome
  BY <1>1 DEF Result, Outcomes
<1> QED BY <1>1, <1>2, <1>3

LEMMA TypedRecordResult ==
  ASSUME Typed, Held, RecordResult
  PROVE  /\ Typed'
         /\ \E x \in Result :
              /\ completions' = Append(completions, x)
              /\ x.job = worker.result.job /\ x.work = worker.result.work
              /\ \/ Persisted /\ UNCHANGED durable /\ (x = worker.result \/ (stop /\ x.outcome = "cancelled"))
                 \/ /\ PersistFailed /\ (x.outcome = "retryable" \/ (stop /\ x.outcome = "cancelled"))
                    /\ durable' = [durable EXCEPT ![worker.request.job] =
                         [work |-> durable[worker.request.job].work,
                          cursor |-> durable[worker.request.job].cursor,
                          request |-> durable[worker.request.job].request, completion |-> None]]
<1>0. worker.stage = "answering" /\ worker' = Waiting(worker.copy)
  BY DEF RecordResult
<1>1. PICK q, r : q = worker.request /\ r = worker.result
  OBVIOUS
<1>2. q \in Request /\ r \in Result /\ q.job \in Jobs
  BY <1>0, <1>1, WorkerTyped DEF Held, Holding, Typed, Request
<1>3. PICK e : e = [work |-> durable[q.job].work, cursor |-> durable[q.job].cursor,
                    request |-> durable[q.job].request, completion |-> None]
  OBVIOUS
<1>4. durable[q.job] \in Entry /\ durable \in [Jobs -> Entry]
  BY <1>2 DEF Typed, FilesTyped
<1>5. e \in Entry /\ [durable[q.job] EXCEPT !.completion = None] = e
  BY <1>3, <1>4 DEF Entry
<1>6. disk' \in [Jobs -> Entry] /\ failures' \in 0 .. MaxFailures
  BY DiskTyped DEF RecordResult, Typed
<1>7. worker' \in Threads
  BY <1>0, WorkerTyped, StagesTyped DEF Waiting, Stages, Typed
<1>8. \E x \in Result :
        /\ completions' = Append(completions, x) /\ x.job = r.job /\ x.work = r.work
        /\ \/ Persisted /\ UNCHANGED durable /\ (x = r \/ (stop /\ x.outcome = "cancelled"))
           \/ /\ PersistFailed /\ (x.outcome = "retryable" \/ (stop /\ x.outcome = "cancelled"))
              /\ durable' = [durable EXCEPT ![q.job] = e]
  <2>1. CASE Persisted /\ HandOut(r) /\ UNCHANGED durable
    <3>1. PICK x \in Result : /\ completions' = Append(completions, x)
                              /\ x.job = r.job /\ x.work = r.work
                              /\ x.outcome = IF stop THEN "cancelled" ELSE r.outcome
                              /\ ~stop => x = r
      BY <1>2, <2>1, HandOutFacts
    <3> QED BY <2>1, <3>1
  <2>2. CASE PersistFailed /\ HandOut([r EXCEPT !.outcome = "retryable"])
             /\ durable' = [durable EXCEPT ![q.job].completion = None]
    <3>1. PICK y : y = [r EXCEPT !.outcome = "retryable"]
      OBVIOUS
    <3>2. y \in Result /\ y.job = r.job /\ y.work = r.work /\ y.outcome = "retryable"
      BY <1>2, <3>1 DEF Result, Outcomes
    <3>3. PICK x \in Result : /\ completions' = Append(completions, x)
                              /\ x.job = y.job /\ x.work = y.work
                              /\ x.outcome = IF stop THEN "cancelled" ELSE y.outcome
      BY <2>2, <3>1, <3>2, HandOutFacts
    <3>4. durable' = [durable EXCEPT ![q.job] = e]
      BY <1>5, <2>2
    <3> QED BY <2>2, <3>2, <3>3, <3>4
  <2> QED BY <1>1, <2>1, <2>2 DEF RecordResult
<1>9. durable' \in [Jobs -> Entry] /\ completions' \in Seq(Result)
  BY <1>2, <1>4, <1>5, <1>8, Appended DEF Typed, GameTyped
<1>10. Typed'
  BY <1>6, <1>7, <1>9 DEF RecordResult, Typed, GameTyped, PagesTyped, FilesTyped, DatabaseTyped,
     CountsTyped, database
<1> QED BY <1>1, <1>3, <1>8, <1>10

\* The jobs that the registry lists at the indexes in K, each once
LEMMA KeptJobs ==
  ASSUME NEW K, K \subseteq DOMAIN Registry, NEW t, t = Kept(Registry, K)
  PROVE  /\ t \in Seq(Jobs) /\ Len(t) \in Nat
         /\ \A i \in 1 .. Len(t) : t[i] \in Jobs /\ \E a \in K : t[i] = Registry[a]
         /\ \A a \in K : \E i \in 1 .. Len(t) : t[i] = Registry[a]
         /\ \A i, k \in 1 .. Len(t) : t[i] = t[k] => i = k
<1>1. PICK s, S : s = Registry /\ S = Jobs
  OBVIOUS
<1>2. s \in Seq(S) /\ \A i, k \in DOMAIN s : s[i] = s[k] => i = k
  BY <1>1, ConstantAssumption
<1>3. DOMAIN s = 1 .. Len(s) /\ Len(s) \in Nat
  BY <1>2
<1>4. K \subseteq 1 .. Len(s) /\ t = Kept(s, K)
  BY <1>1, <1>3
<1>5. /\ t \in Seq(S) /\ Len(t) \in Nat /\ Comes(s, K, t) /\ Stays(s, K, t) /\ Ordered(s, K, t)
  BY <1>2, <1>4, KeptOnes
<1>6. ASSUME NEW i \in 1 .. Len(t), NEW k \in 1 .. Len(t), i < k PROVE t[i] # t[k]
  <2>1. PICK a, b \in K : a < b /\ t[i] = s[a] /\ t[k] = s[b]
    BY <1>5, <1>6 DEF Ordered
  <2>2. a \in DOMAIN s /\ b \in DOMAIN s /\ a # b
    BY <1>3, <1>4, <2>1
  <2> QED BY <1>2, <2>1, <2>2
<1>7. ASSUME NEW i \in 1 .. Len(t), NEW k \in 1 .. Len(t), t[i] = t[k] PROVE i = k
  <2>1. i < k \/ k < i \/ i = k
    BY <1>5
  <2> QED BY <1>6, <1>7, <2>1
<1>8. \A i \in 1 .. Len(t) : t[i] \in S
  BY <1>5
<1> QED BY <1>1, <1>5, <1>7, <1>8 DEF Comes, Stays

\* The sequence x has f[a[i]] for each of the jobs a[i], which are the jobs in A
Lists(x, a, A, f) ==
  /\ a \in Seq(Jobs) /\ Len(x) = Len(a) /\ Len(a) \in Nat
  /\ \A i \in 1 .. Len(a) : a[i] \in A /\ x[i] = f[a[i]]
  /\ \A j \in A : \E i \in 1 .. Len(a) : a[i] = j
  /\ \A i, k \in 1 .. Len(a) : a[i] = a[k] => i = k

\* What a new process finds
Restored(j) == [work |-> durable'[j].work, cursor |-> durable'[j].cursor,
                active |-> IsPending(durable'[j]), due |-> durable'[j].work # NoWork]

LEMMA BootFacts ==
  ASSUME Typed, Boot
  PROVE  /\ GameTyped' /\ PagesTyped' /\ FilesTyped' /\ DatabaseTyped'
         /\ failures' \in 0 .. MaxFailures /\ delivered' \subseteq Receipts
         /\ Loads(disk)
         /\ durable' = Loaded /\ durable'[Catalog] = Idle
         /\ \A j \in Jobs \ {Catalog} : durable'[j] = disk[j]
         /\ \A j \in Jobs : health'[j] = Restored(j)
         /\ \E a : Lists(completions', a, {j \in Jobs : durable'[j].completion # None},
                         [j \in Jobs |-> durable'[j].completion])
         /\ \E a : Lists(queue', a, {j \in Jobs : durable'[j].completion = None
                                                  /\ durable'[j].request # None},
                         [j \in Jobs |-> durable'[j].request])
<1>1. PICK d : d = Loaded
  OBVIOUS
<1>2. d \in [Jobs -> Entry] /\ d[Catalog] = Idle /\ \A j \in Jobs \ {Catalog} : d[j] = disk[j]
  BY <1>1, Constants, IdleTyped DEF Loaded, Typed, FilesTyped
<1>3. PICK A, B : /\ A = {j \in Jobs : d[j].completion # None}
                  /\ B = {j \in Jobs : d[j].completion = None /\ d[j].request # None}
  OBVIOUS
<1>4. PICK f, g : /\ f = [j \in Jobs |-> d[j].completion]
                  /\ g = [j \in Jobs |-> d[j].request]
  OBVIOUS
<1>5. \A j \in Jobs : d[j] \in Entry
  BY <1>2
<1>6. A \subseteq Jobs /\ B \subseteq Jobs /\ (\A j \in A : f[j] \in Result) /\ (\A j \in B : g[j] \in Request)
  BY <1>3, <1>4, <1>5 DEF Entry
<1>7. PICK KA, KB : /\ KA = {i \in DOMAIN Registry : d[Registry[i]].completion # None}
                    /\ KB = {i \in DOMAIN Registry : /\ d[Registry[i]].completion = None
                                                     /\ d[Registry[i]].request # None}
  OBVIOUS
<1>8. /\ KA \subseteq DOMAIN Registry /\ \A i \in DOMAIN Registry : i \in KA <=> Registry[i] \in A
      /\ KB \subseteq DOMAIN Registry /\ \A i \in DOMAIN Registry : i \in KB <=> Registry[i] \in B
  BY <1>3, <1>7 DEF Jobs
<1>9. PICK a, b : a = Kept(Registry, KA) /\ b = Kept(Registry, KB)
  OBVIOUS
<1>10. /\ completions' = [i \in 1 .. Len(a) |-> d[a[i]].completion]
       /\ queue' = [i \in 1 .. Len(b) |-> d[b[i]].request]
  BY <1>1, <1>7, <1>9, Zenon DEF Boot
<1>11. /\ \A i \in 1 .. Len(a) : a[i] \in Jobs
       /\ \A i \in 1 .. Len(b) : b[i] \in Jobs
  BY <1>7, <1>9, KeptJobs
<1>12. /\ completions' = [i \in 1 .. Len(a) |-> f[a[i]]]
       /\ queue' = [i \in 1 .. Len(b) |-> g[b[i]]]
  BY <1>4, <1>10, <1>11
<1>13. completions' \in Seq(Result) /\ Lists(completions', a, A, f)
  <2>1. PICK n, x, S : n = Len(a) /\ x = completions' /\ S = Result
    OBVIOUS
  <2>2. /\ a \in Seq(Jobs) /\ n \in Nat
        /\ \A i \in 1 .. n : \E m \in KA : a[i] = Registry[m]
        /\ \A m \in KA : \E i \in 1 .. n : a[i] = Registry[m]
        /\ \A i, k \in 1 .. n : a[i] = a[k] => i = k
    BY <1>8, <1>9, <2>1, KeptJobs
  <2>3. \A i \in 1 .. n : a[i] \in A
    BY <1>8, <2>2
  <2>4. ASSUME NEW j \in A PROVE \E i \in 1 .. n : a[i] = j
    <3>1. PICK m \in DOMAIN Registry : Registry[m] = j
      BY <1>6 DEF Jobs
    <3> QED BY <1>8, <2>2, <3>1
  <2>5. x = [i \in 1 .. n |-> f[a[i]]] /\ \A i \in 1 .. n : f[a[i]] \in S
    BY <1>6, <1>12, <2>1, <2>3
  <2>6. x \in [1 .. n -> S]
    BY <2>5
  <2>7. x \in Seq(S) /\ Len(x) = n
    BY <2>2, <2>6, Listed
  <2>8. \A i \in 1 .. n : x[i] = f[a[i]]
    BY <2>5
  <2> QED BY <2>1, <2>2, <2>3, <2>4, <2>7, <2>8 DEF Lists
<1>14. queue' \in Seq(Request) /\ Lists(queue', b, B, g)
  <2>1. PICK n, x, S : n = Len(b) /\ x = queue' /\ S = Request
    OBVIOUS
  <2>2. /\ b \in Seq(Jobs) /\ n \in Nat
        /\ \A i \in 1 .. n : \E m \in KB : b[i] = Registry[m]
        /\ \A m \in KB : \E i \in 1 .. n : b[i] = Registry[m]
        /\ \A i, k \in 1 .. n : b[i] = b[k] => i = k
    BY <1>8, <1>9, <2>1, KeptJobs
  <2>3. \A i \in 1 .. n : b[i] \in B
    BY <1>8, <2>2
  <2>4. ASSUME NEW j \in B PROVE \E i \in 1 .. n : b[i] = j
    <3>1. PICK m \in DOMAIN Registry : Registry[m] = j
      BY <1>6 DEF Jobs
    <3> QED BY <1>8, <2>2, <3>1
  <2>5. x = [i \in 1 .. n |-> g[b[i]]] /\ \A i \in 1 .. n : g[b[i]] \in S
    BY <1>6, <1>12, <2>1, <2>3
  <2>6. x \in [1 .. n -> S]
    BY <2>5
  <2>7. x \in Seq(S) /\ Len(x) = n
    BY <2>2, <2>6, Listed
  <2>8. \A i \in 1 .. n : x[i] = g[b[i]]
    BY <2>5
  <2> QED BY <2>1, <2>2, <2>3, <2>4, <2>7, <2>8 DEF Lists
<1>15. /\ durable' = d /\ Loads(disk) /\ dirty' = FALSE /\ stop' = FALSE /\ worker' = Waiting(d)
       /\ refresh' = NoPages /\ catalog' = <<>>
       /\ UNCHANGED <<disk, database, works, failures, delivered>>
       /\ health' = [j \in Jobs |-> [work |-> d[j].work, cursor |-> d[j].cursor,
                                     active |-> IsPending(d[j]), due |-> d[j].work # NoWork]]
  BY <1>1 DEF Boot
<1>16. ASSUME NEW j \in Jobs
       PROVE  /\ health'[j] = [work |-> d[j].work, cursor |-> d[j].cursor,
                               active |-> IsPending(d[j]), due |-> d[j].work # NoWork]
              /\ health'[j] \in Job
  BY <1>5, <1>15 DEF Entry, Job, IsPending
<1>17. health' \in [Jobs -> Job]
  BY <1>15, <1>16
<1>18. worker' \in Threads
  BY <1>2, <1>15, StagesTyped DEF Waiting, Stages
<1>19. refresh' \in [zones : Seq(1 .. Zones), invalid : BOOLEAN] /\ catalog' \in Seq(1 .. Zones)
  <2>1. PICK e : e = <<>>
    OBVIOUS
  <2>2. e \in Seq(1 .. Zones)
    BY <2>1
  <2> QED BY <1>15, <2>1, <2>2 DEF NoPages
<1>20. GameTyped' /\ PagesTyped' /\ FilesTyped' /\ DatabaseTyped'
  BY <1>2, <1>13, <1>14, <1>15, <1>17, <1>18, <1>19
     DEF Typed, GameTyped, PagesTyped, FilesTyped, DatabaseTyped, database
<1> QED BY <1>1, <1>2, <1>3, <1>4, <1>13, <1>14, <1>15, <1>16, <1>20
        DEF Restored, Typed, CountsTyped

\* Two views of a job that differ at most in whether its tick has come
Alike(h, k) == h.work = k.work /\ h.cursor = k.cursor /\ h.active = k.active

\* The request q, of work w, is submitted for j.
Submits(H, D, j, w, q) ==
  /\ ~H[j].active
  /\ \/ H[j].work = NoWork /\ w = works + 1 /\ works' = w
     \/ H[j].work # NoWork /\ w = H[j].work /\ works' = works
  /\ queue' = Append(queue, q)
  /\ health'[j] = [work |-> w, cursor |-> H[j].cursor, active |-> TRUE, due |-> FALSE]
  /\ \A k \in Jobs \ {j} : Alike(health'[k], H[k])
  /\ \/ D[j].request # None /\ q = D[j].request
     \/ /\ D[j].request = None /\ q.job = j /\ q.work = w /\ q.cursor = H[j].cursor
        /\ ~q.elapsed => j # Catalog /\ H[j].cursor = 0

LEMMA NotDue ==
  ASSUME NEW k \in Job, NEW d
  PROVE  [k EXCEPT !.due = d] = [work |-> k.work, cursor |-> k.cursor, active |-> k.active, due |-> d]
<1>1. PICK a, b, c, e : a = k.work /\ b = k.cursor /\ c = k.active /\ e = k.due
  OBVIOUS
<1>2. k = [work |-> a, cursor |-> b, active |-> c, due |-> e]
  BY <1>1 DEF Job
<1>3. [k EXCEPT !.due = d] = [work |-> a, cursor |-> b, active |-> c, due |-> d]
  BY <1>2
<1> QED BY <1>1, <1>3, Zenon

LEMMA SubmitFacts ==
  ASSUME GameTyped, failures \in 0 .. MaxFailures, NEW s \in States, SubmitDue(s)
  PROVE  /\ health' \in [Jobs -> Job] /\ failures' \in 0 .. MaxFailures
         /\ \/ /\ \A j \in Jobs : Alike(health'[j], s.health[j])
               /\ UNCHANGED <<queue, works>>
            \/ \E j \in Jobs, w \in 1 .. MaxWorks, q \in Request : Submits(s.health, s.durable, j, w, q)
<1>1. PICK H, D : H = s.health /\ D = s.durable
  OBVIOUS
<1>2. H \in [Jobs -> Job] /\ D \in [Jobs -> Entry]
  BY <1>1 DEF States
<1>3. PICK jobs : jobs = Suppressed(H)
  OBVIOUS
<1>4. ASSUME NEW j \in Jobs
      PROVE  /\ jobs[j] \in Job /\ Alike(jobs[j], H[j])
             /\ jobs[j] = [work |-> H[j].work, cursor |-> H[j].cursor, active |-> H[j].active,
                           due |-> jobs[j].due]
  <2>1. jobs[j] = [H[j] EXCEPT !.due = H[j].due /\ ~H[j].active]
    BY <1>3 DEF Suppressed
  <2>2. H[j] \in Job
    BY <1>2
  <2>3. PICK d \in BOOLEAN : d = (H[j].due /\ ~H[j].active)
    BY <2>2 DEF Job
  <2>4. jobs[j] = [work |-> H[j].work, cursor |-> H[j].cursor, active |-> H[j].active, due |-> d]
    BY <2>1, <2>2, <2>3 DEF Job
  <2> QED BY <2>2, <2>4 DEF Job, Alike
<1>5. jobs = [j \in Jobs |-> jobs[j]] /\ jobs \in [Jobs -> Job]
  <2>1. jobs = [j \in Jobs |-> jobs[j]]
    BY <1>3 DEF Suppressed
  <2> QED BY <1>4, <2>1
<1>6. CASE health' = jobs /\ UNCHANGED <<queue, works, failures>>
  BY <1>1, <1>4, <1>5, <1>6
<1>7. ASSUME NEW j \in Candidates(H)
      PROVE  j \in Jobs /\ ~H[j].active
  BY <1>7 DEF Candidates
<1>8. ASSUME NEW j \in Candidates(H), NEW fresh \in BOOLEAN, NEW work,
             fresh <=> jobs[j].work = NoWork,
             work = IF fresh THEN works + 1 ELSE jobs[j].work,
             work <= MaxWorks, NEW q \in Requests(D[j], jobs[j], j, work), queue' = Append(queue, q),
             health' = [jobs EXCEPT ![j] =
                   [work |-> work, cursor |-> @.cursor, active |-> TRUE, due |-> FALSE]],
             works' = IF fresh THEN work ELSE works
      PROVE  /\ health' \in [Jobs -> Job] /\ work \in 1 .. MaxWorks /\ q \in Request
             /\ Submits(H, D, j, work, q)
  <2>1. j \in Jobs /\ ~H[j].active /\ H[j] \in Job /\ D[j] \in Entry
    BY <1>2, <1>7, <1>8
  <2>2. /\ jobs[j].work = H[j].work /\ jobs[j].cursor = H[j].cursor /\ jobs[j] \in Job
        /\ H[j].work \in 0 .. MaxWorks /\ H[j].cursor \in 0 .. Zones
    BY <1>4, <2>1 DEF Alike, Job
  <2>3. work \in 1 .. MaxWorks
    BY <1>8, <2>2, Constants DEF GameTyped, NoWork
  <2>4. PICK h : h = [work |-> work, cursor |-> H[j].cursor, active |-> TRUE, due |-> FALSE]
    OBVIOUS
  <2>5. h \in Job
    BY <2>2, <2>3, <2>4, Constants DEF Job
  <2>6. health' = [jobs EXCEPT ![j] = h]
    BY <1>8, <2>2, <2>4
  <2>7. /\ health' \in [Jobs -> Job] /\ health'[j] = h
        /\ \A k \in Jobs \ {j} : health'[k] = jobs[k]
    BY <1>5, <2>1, <2>5, <2>6
  <2>8. \/ H[j].work = NoWork /\ work = works + 1 /\ works' = work
        \/ H[j].work # NoWork /\ work = H[j].work /\ works' = works
    BY <1>8, <2>2
  <2>9. /\ q \in Request
        /\ \/ D[j].request # None /\ q = D[j].request
           \/ /\ D[j].request = None /\ q.job = j /\ q.work = work /\ q.cursor = H[j].cursor
              /\ ~q.elapsed => j # Catalog /\ H[j].cursor = 0
    <3>1. CASE D[j].request # None
      BY <1>8, <2>1, <3>1 DEF Requests, Entry
    <3>2. CASE D[j].request = None
      <4>1. PICK elapsed \in IF j = Catalog \/ jobs[j].cursor # 0 THEN {TRUE} ELSE BOOLEAN :
              q = [job |-> j, work |-> work, cursor |-> jobs[j].cursor, elapsed |-> elapsed]
        BY <1>8, <3>2 DEF Requests
      <4>2. elapsed \in BOOLEAN /\ (~elapsed => j # Catalog /\ H[j].cursor = 0)
        BY <2>2, <4>1
      <4> QED BY <2>1, <2>2, <2>3, <3>2, <4>1, <4>2 DEF Request
    <3> QED BY <3>1, <3>2
  <2>10. \A k \in Jobs \ {j} : Alike(health'[k], H[k])
    BY <1>4, <2>7
  <2> QED BY <1>8, <2>1, <2>3, <2>4, <2>7, <2>8, <2>9, <2>10 DEF Submits
<1>9. ASSUME NEW j \in Candidates(H), health' = [jobs EXCEPT ![j].due = FALSE]
      PROVE  health' \in [Jobs -> Job] /\ \A k \in Jobs : Alike(health'[k], H[k])
  <2>1. j \in Jobs
    BY <1>7, <1>9
  <2>2. PICK h : h = [work |-> H[j].work, cursor |-> H[j].cursor, active |-> H[j].active, due |-> FALSE]
    OBVIOUS
  <2>3. h \in Job /\ [jobs[j] EXCEPT !.due = FALSE] = h
    <3>1. PICK k : k = jobs[j]
      OBVIOUS
    <3>2. /\ k \in Job /\ k.work = H[j].work /\ k.cursor = H[j].cursor /\ k.active = H[j].active
      BY <1>4, <2>1, <3>1 DEF Alike
    <3>3. [k EXCEPT !.due = FALSE] = h
      BY <2>2, <3>2, NotDue, Zenon
    <3> QED BY <2>2, <3>1, <3>2, <3>3 DEF Job
  <2>4. health' = [jobs EXCEPT ![j] = h]
    BY <1>9, <2>3
  <2>5. health' \in [Jobs -> Job] /\ health'[j] = h /\ \A k \in Jobs \ {j} : health'[k] = jobs[k]
    BY <1>5, <2>1, <2>3, <2>4
  <2>6. Alike(h, H[j])
    BY <2>2 DEF Alike
  <2> QED BY <1>4, <2>5, <2>6
<1>10. ASSUME ~IsQueueFull,
              NEW j \in Candidates(H), NEW fresh, NEW work,
              fresh = (jobs[j].work = NoWork),
              work = IF fresh THEN works + 1 ELSE jobs[j].work,
              \/ /\ work <= MaxWorks
                 /\ \E request \in Requests(D[j], jobs[j], j, work) : queue' = Append(queue, request)
                 /\ health' = [jobs EXCEPT ![j] =
                          [work |-> work, cursor |-> @.cursor, active |-> TRUE, due |-> FALSE]]
                 /\ works' = IF fresh THEN work ELSE works
                 /\ UNCHANGED failures
              \/ /\ D[j].request = None
                 /\ \/ failures < MaxFailures /\ failures' = failures + 1
                    \/ work > MaxWorks /\ UNCHANGED failures
                 /\ health' = [jobs EXCEPT ![j].due = FALSE]
                 /\ UNCHANGED <<queue, works>>
       PROVE  /\ health' \in [Jobs -> Job] /\ failures' \in 0 .. MaxFailures
              /\ \/ (\A k \in Jobs : Alike(health'[k], H[k])) /\ UNCHANGED <<queue, works>>
                 \/ \E k \in Jobs, w \in 1 .. MaxWorks, q \in Request : Submits(H, D, k, w, q)
  <2>1. j \in Jobs
    BY <1>7, <1>10
  <2>2. CASE /\ work <= MaxWorks
             /\ \E request \in Requests(D[j], jobs[j], j, work) : queue' = Append(queue, request)
             /\ health' = [jobs EXCEPT ![j] =
                      [work |-> work, cursor |-> @.cursor, active |-> TRUE, due |-> FALSE]]
             /\ works' = IF fresh THEN work ELSE works
             /\ UNCHANGED failures
    <3>1. PICK q \in Requests(D[j], jobs[j], j, work) : queue' = Append(queue, q)
      BY <2>2
    <3>2. /\ health' \in [Jobs -> Job] /\ work \in 1 .. MaxWorks /\ q \in Request
          /\ Submits(H, D, j, work, q)
      BY <1>8, <1>10, <2>2, <3>1
    <3> QED BY <2>1, <2>2, <3>2
  <2>3. CASE /\ \/ failures < MaxFailures /\ failures' = failures + 1
                \/ work > MaxWorks /\ UNCHANGED failures
             /\ health' = [jobs EXCEPT ![j].due = FALSE]
             /\ UNCHANGED <<queue, works>>
    <3>1. failures' \in 0 .. MaxFailures
      BY <2>3, Constants
    <3> QED BY <1>9, <1>10, <2>3, <3>1
  <2> QED BY <1>10, <2>2, <2>3
<1>11. CASE ~(health' = jobs /\ UNCHANGED <<queue, works, failures>>)
  <2>1. PICK j \in Candidates(H) :
          /\ ~IsQueueFull
          /\ LET fresh == jobs[j].work = NoWork
                 work == IF fresh THEN works + 1 ELSE jobs[j].work
             IN  \/ /\ work <= MaxWorks
                    /\ \E request \in Requests(D[j], jobs[j], j, work) : queue' = Append(queue, request)
                    /\ health' = [jobs EXCEPT ![j] =
                         [work |-> work, cursor |-> @.cursor, active |-> TRUE, due |-> FALSE]]
                    /\ works' = IF fresh THEN work ELSE works
                    /\ UNCHANGED failures
                 \/ /\ D[j].request = None
                    /\ \/ failures < MaxFailures /\ failures' = failures + 1
                       \/ work > MaxWorks /\ UNCHANGED failures
                    /\ health' = [jobs EXCEPT ![j].due = FALSE]
                    /\ UNCHANGED <<queue, works>>
    BY <1>1, <1>3, <1>11, Zenon DEF SubmitDue
  <2>2. PICK fresh, work : /\ fresh = (jobs[j].work = NoWork)
                           /\ work = IF fresh THEN works + 1 ELSE jobs[j].work
    OBVIOUS
  <2>3. \/ /\ work <= MaxWorks
           /\ \E request \in Requests(D[j], jobs[j], j, work) : queue' = Append(queue, request)
           /\ health' = [jobs EXCEPT ![j] =
                [work |-> work, cursor |-> @.cursor, active |-> TRUE, due |-> FALSE]]
           /\ works' = IF fresh THEN work ELSE works
           /\ UNCHANGED failures
        \/ /\ D[j].request = None
           /\ \/ failures < MaxFailures /\ failures' = failures + 1
              \/ work > MaxWorks /\ UNCHANGED failures
           /\ health' = [jobs EXCEPT ![j].due = FALSE]
           /\ UNCHANGED <<queue, works>>
    BY <2>1, <2>2, Zenon
  <2>4. /\ health' \in [Jobs -> Job] /\ failures' \in 0 .. MaxFailures
        /\ \/ (\A k \in Jobs : Alike(health'[k], H[k])) /\ UNCHANGED <<queue, works>>
           \/ \E k \in Jobs, w \in 1 .. MaxWorks, q \in Request : Submits(H, D, k, w, q)
    BY <1>10, <2>1, <2>2, <2>3, Zenon
  <2> QED BY <1>1, <2>4, Zenon
<1> QED BY <1>6, <1>11

\* What a pulse does: the results are applied to b, which makes s, and one job is submitted.
Pulses(b, s) ==
  /\ b \in States /\ b.durable = durable /\ b.refresh = refresh /\ b.catalog = catalog
  /\ \A j \in Jobs : Alike(b.health[j], health[j])
  /\ s \in States /\ Settles(b, s, Len(completions)) /\ SubmitDue(s)
  /\ durable' = s.durable /\ refresh' = s.refresh /\ catalog' = s.catalog

LEMMA PulseFacts ==
  ASSUME Typed, Handed, Alone, NEW elapsed \in SUBSET Jobs, Pulse(elapsed)
  PROVE  /\ Typed' /\ \E b, s : Pulses(b, s)
         /\ ~stop /\ ~stop' /\ completions' = <<>> /\ Len(completions') = 0
         /\ UNCHANGED <<worker, disk, database>>
         /\ delivered \subseteq delivered'
         /\ \A i \in 1 .. Len(completions) : Moves(completions[i]) => Receipt(completions[i]) \in delivered'
         /\ \A x \in delivered' : x \in delivered \/ \E i \in 1 .. Len(completions) :
                                    Moves(completions[i]) /\ x = Receipt(completions[i])
<1>0. /\ completions \in Seq(Result) /\ Len(completions) \in Nat
      /\ DOMAIN completions = 1 .. Len(completions)
      /\ \A i \in 1 .. Len(completions) : completions[i] \in Result
  BY DEF Typed, GameTyped
<1>1. PICK due : due = [j \in Jobs |-> [health[j] EXCEPT !.due = @ \/ j \in elapsed]]
  OBVIOUS
<1>2. ASSUME NEW j \in Jobs PROVE due[j] \in Job /\ Alike(due[j], health[j])
  <2>1. PICK h : h = health[j]
    OBVIOUS
  <2>2. h \in Job /\ h.due \in BOOLEAN
    BY <2>1 DEF Typed, GameTyped, Job
  <2>3. PICK d \in BOOLEAN : d = (h.due \/ j \in elapsed)
    BY <2>2
  <2>4. due[j] = [h EXCEPT !.due = d]
    BY <1>1, <2>1, <2>3
  <2>5. due[j] = [work |-> h.work, cursor |-> h.cursor, active |-> h.active, due |-> d]
    BY <2>2, <2>4, NotDue
  <2> QED BY <2>1, <2>2, <2>5 DEF Job, Alike
<1>3. due \in [Jobs -> Job]
  BY <1>1, <1>2
<1>4. PICK b : b = [health |-> due, durable |-> durable, dirty |-> dirty,
                    refresh |-> refresh, catalog |-> catalog]
  OBVIOUS
<1>5. b \in States
  BY <1>3, <1>4 DEF States, Pages, Typed, GameTyped, FilesTyped, PagesTyped
<1>6. PICK s : s = Consumed(b, Len(completions))
  OBVIOUS
<1>7. ASSUME NEW i \in 1 .. Len(completions)
      PROVE  IsAwaited(b.health[completions[i].job], completions[i])
  <2>1. completions[i].job \in Jobs
    BY <1>0 DEF Result
  <2> QED BY <1>2, <1>4, <2>1 DEF Handed, HandedOK, IsAwaited, Alike
<1>8. s \in States /\ Settles(b, s, Len(completions))
  BY <1>0, <1>5, <1>6, <1>7, ConsumedSettles DEF Alone
<1>9. PICK R : R = {Receipt(r) : r \in {q \in ToSet(completions) : q.outcome \in Retired \cup {"more"}}}
  OBVIOUS
<1>10. /\ ~stop /\ completions' = <<>>
       /\ durable' = s.durable /\ dirty' = s.dirty /\ refresh' = s.refresh /\ catalog' = s.catalog
       /\ delivered' = delivered \cup R /\ SubmitDue(s)
       /\ UNCHANGED <<stop, worker, disk, database, restarts>>
  BY <1>1, <1>4, <1>6, <1>9, Zenon DEF Pulse
<1>11. ASSUME NEW x
       PROVE  x \in R <=> \E i \in 1 .. Len(completions) :
                            Moves(completions[i]) /\ x = Receipt(completions[i])
  BY <1>0, <1>9 DEF Moves, ToSet
<1>12. \A i \in 1 .. Len(completions) : Receipt(completions[i]) \in Receipts
  BY <1>0 DEF Receipt, Result, Receipts
<1>13. delivered' \subseteq Receipts
  BY <1>10, <1>11, <1>12 DEF Typed, CountsTyped
<1>14. /\ health' \in [Jobs -> Job] /\ failures' \in 0 .. MaxFailures
       /\ \/ /\ \A j \in Jobs : Alike(health'[j], s.health[j])
             /\ UNCHANGED <<queue, works>>
          \/ \E j \in Jobs, w \in 1 .. MaxWorks, q \in Request : Submits(s.health, s.durable, j, w, q)
  BY <1>8, <1>10, SubmitFacts DEF Typed, CountsTyped
<1>15. queue' \in Seq(Request) /\ works' \in 0 .. MaxWorks
  <2>1. CASE UNCHANGED <<queue, works>>
    BY <2>1 DEF Typed, GameTyped
  <2>2. ASSUME NEW j \in Jobs, NEW w \in 1 .. MaxWorks, NEW q \in Request,
               Submits(s.health, s.durable, j, w, q)
        PROVE  queue' \in Seq(Request) /\ works' \in 0 .. MaxWorks
    <3>1. queue' = Append(queue, q) /\ (works' = w \/ works' = works)
      BY <2>2 DEF Submits
    <3>2. queue' \in Seq(Request)
      BY <3>1, Appended DEF Typed, GameTyped
    <3>3. works' \in 0 .. MaxWorks
      BY <3>1, Constants DEF Typed, GameTyped
    <3> QED BY <3>2, <3>3
  <2> QED BY <1>14, <2>1, <2>2
<1>16. completions' \in Seq(Result) /\ Len(completions') = 0
  BY <1>10
<1>17. /\ durable' \in [Jobs -> Entry] /\ dirty' \in BOOLEAN
       /\ refresh' \in Pages /\ catalog' \in Seq(1 .. Zones)
  BY <1>8, <1>10 DEF States
<1>18. Typed'
  BY <1>10, <1>13, <1>14, <1>15, <1>16, <1>17
     DEF Typed, GameTyped, PagesTyped, FilesTyped, DatabaseTyped, CountsTyped, Pages, database
<1>19. Pulses(b, s)
  BY <1>2, <1>4, <1>5, <1>8, <1>10 DEF Pulses
<1> QED BY <1>10, <1>11, <1>16, <1>18, <1>19

LEMMA InitTyped == Init => Typed
<1>1. SUFFICES ASSUME Init PROVE Typed
  OBVIOUS
<1>2. /\ health \in [Jobs -> Job] /\ stop \in BOOLEAN /\ dirty \in BOOLEAN /\ works \in 0 .. MaxWorks
      /\ failures \in 0 .. MaxFailures /\ restarts \in 0 .. MaxRestarts /\ delivered \subseteq Receipts
  <2>1. PICK h : h = [work |-> NoWork, cursor |-> 0, active |-> FALSE, due |-> FALSE]
    OBVIOUS
  <2>2. h \in Job
    BY <2>1, Constants DEF Job, NoWork
  <2>3. health = [j \in Jobs |-> h]
    BY <1>1, <2>1 DEF Init
  <2>4. health \in [Jobs -> Job]
    BY <2>2, <2>3
  <2>5. works \in 0 .. MaxWorks /\ failures \in 0 .. MaxFailures /\ restarts \in 0 .. MaxRestarts
    BY <1>1, Constants DEF Init
  <2> QED BY <1>1, <2>4, <2>5 DEF Init
<1>3. queue \in Seq(Request) /\ completions \in Seq(Result) /\ catalog \in Seq(1 .. Zones)
  BY <1>1 DEF Init
<1>4. durable \in [Jobs -> Entry] /\ disk \in [Jobs -> Entry]
  BY <1>1, IdleTyped DEF Init
<1>5. worker \in Threads
  BY <1>1, <1>4, StagesTyped DEF Init, Waiting, Stages
<1>6. /\ marker \in [Jobs -> (0 .. MaxWorks) \X (0 .. Zones)] /\ timer \in [Jobs -> 0 .. MaxWorks]
      /\ applied \in [1 .. MaxWorks -> [1 .. Zones -> Nat]]
  BY <1>1, Constants DEF Init, NoWork
<1>7. refresh \in [zones : Seq(1 .. Zones), invalid : BOOLEAN]
  <2>1. PICK e : e = <<>>
    OBVIOUS
  <2>2. e \in Seq(1 .. Zones)
    BY <2>1
  <2> QED BY <1>1, <2>1, <2>2 DEF Init, NoPages
<1> QED BY <1>2, <1>3, <1>4, <1>5, <1>6, <1>7
        DEF Typed, GameTyped, PagesTyped, FilesTyped, DatabaseTyped, CountsTyped

-----------------------------------------------------------------------------
(***************************************************************************)
(* Steps that leave the view of the runs alone.  The state file changes    *)
(* only to the copy that is being written.                                 *)
(***************************************************************************)
LEMMA ViewKept ==
  ASSUME UNCHANGED <<applied, marker, delivered, works>>
  PROVE  View' = View
BY DEF View

\* A step that leaves the runs, the jobs and what is remembered alone
LEMMA RunsKept ==
  ASSUME Runs, UNCHANGED <<applied, marker, timer, delivered, works>>,
         \A j \in Jobs : WorksOf(j)' \subseteq WorksOf(j),
         \A w \in 1 .. MaxWorks : Carried(w) => Carried(w)'
  PROVE  Runs'
<1>1. PICK v : v = View
  OBVIOUS
<1>2. View' = v
  BY <1>1, ViewKept
<1>3. Distinct'
  BY DEF Runs, Distinct
<1>4. Fresh' /\ Ended'
  BY <1>1, <1>2 DEF Runs, Fresh, Ended
<1>5. Touched'
  BY <1>1, <1>2 DEF Runs, Touched
<1> QED BY <1>3, <1>4, <1>5 DEF Runs

\* A request the worker holds is of a run that has not ended.
LEMMA HeldLives ==
  ASSUME Typed, IInv, Holding
  PROVE  /\ worker.request \in Request /\ worker.request.job \in Jobs
         /\ ~Gone(View, worker.request.work)
<1>1. worker.request \in Request
  BY WorkerTyped DEF Typed, IInv, Placed, Held
<1>2. worker.request.job \in Jobs
  BY <1>1 DEF Request
<1>3. health[worker.request.job].work = worker.request.work
  BY DEF IInv, Placed, Held
<1>4. \A i \in 1 .. Len(completions) : completions[i].job # worker.request.job
  BY DEF IInv, Placed, Alone
<1> QED BY <1>1, <1>2, <1>3, <1>4 DEF IInv, Files, Ending

LEMMA TakeDirtyStep ==
  ASSUME Typed, IInv, TakeDirty
  PROVE  IInv'
<1>1. PICK v : v = View
  OBVIOUS
<1>2. /\ UNCHANGED <<game, queue, durable, stop, disk, database>>
      /\ UNCHANGED <<health, completions, refresh, catalog, delivered, works, marker, timer, applied>>
  BY DEF TakeDirty, game, database
<1>3. View' = v
  BY <1>1, <1>2, ViewKept
<1>4. /\ worker.stage = "waiting" /\ worker'.stage = "flushing" /\ worker'.request = None
      /\ worker'.copy = durable
  BY DEF TakeDirty, At
<1>5. ~Writing /\ ~Holding /\ Writing' /\ ~Holding'
  BY <1>4 DEF Writing, Holding
<1>6. Files'
  BY <1>1, <1>2, <1>3, <1>4 DEF IInv, Files, Entries, Healthy, Ending
<1>7. Queued' /\ Alone' /\ Present'
  BY <1>1, <1>2, <1>3, <1>5 DEF IInv, Placed, Queued, Alone, Present
<1>8. Handed'
  BY <1>2, <1>4 DEF IInv, Placed, Handed
<1>9. Held'
  BY <1>4, <1>5 DEF Held
<1>10. Runs'
  <2>1. \A j \in Jobs : WorksOf(j)' \subseteq WorksOf(j)
    BY <1>2, <1>4 DEF WorksOf
  <2>2. \A w \in 1 .. MaxWorks : Carried(w) => Carried(w)'
    BY <1>2, <1>4 DEF Carried
  <2> QED BY <1>2, <2>1, <2>2, RunsKept DEF IInv
<1>11. CatalogOK'
  BY <1>2 DEF IInv, CatalogOK
<1> QED BY <1>6, <1>7, <1>8, <1>9, <1>10, <1>11 DEF IInv, Placed

LEMMA FlushStep ==
  ASSUME Typed, IInv, Flush
  PROVE  IInv'
<1>1. PICK v : v = View
  OBVIOUS
<1>2. UNCHANGED <<health, queue, durable, stop, completions, refresh, catalog, delivered, works,
                  marker, timer, applied>>
  BY DEF Flush, game, database
<1>3. View' = v
  BY <1>1, <1>2, ViewKept
<1>4. disk' \in {disk, worker.copy}
  BY DiskTyped DEF Flush, Typed
<1>5. /\ worker.stage = "flushing" /\ worker'.stage = "waiting" /\ worker'.request = None
      /\ worker'.copy = worker.copy
  BY DEF Flush, Waiting, At
<1>6. Writing /\ ~Holding /\ ~Writing' /\ ~Holding'
  BY <1>5 DEF Writing, Holding
<1>7. Files'
  BY <1>1, <1>2, <1>3, <1>4, <1>6 DEF IInv, Files, Entries, Healthy, Ending
<1>8. Queued' /\ Alone' /\ Present'
  BY <1>1, <1>2, <1>3, <1>6 DEF IInv, Placed, Queued, Alone, Present
<1>9. Handed'
  BY <1>2, <1>4, <1>6 DEF IInv, Placed, Handed
<1>10. Held'
  BY <1>5, <1>6 DEF Held
<1>11. Runs'
  <2>1. \A j \in Jobs : WorksOf(j)' \subseteq WorksOf(j)
    BY <1>2, <1>4, <1>5 DEF WorksOf
  <2>2. \A w \in 1 .. MaxWorks : Carried(w) => Carried(w)'
    BY <1>2, <1>4, <1>6 DEF Carried
  <2> QED BY <1>2, <2>1, <2>2, RunsKept DEF IInv
<1>12. CatalogOK'
  BY <1>2 DEF IInv, CatalogOK
<1> QED BY <1>7, <1>8, <1>9, <1>10, <1>11, <1>12 DEF IInv, Placed

\* The request is on disk: the page may be executed.
LEMMA RequestWrittenStep ==
  ASSUME Typed, IInv, worker.stage = "recording", disk' = worker.copy,
         worker' = [worker EXCEPT !.stage = "executing"],
         UNCHANGED <<game, queue, durable, stop, database>>
  PROVE  IInv'
<1>1. PICK v : v = View
  OBVIOUS
<1>2. UNCHANGED <<health, queue, durable, stop, completions, refresh, catalog, delivered, works,
                  marker, timer, applied>>
  BY DEF game, database
<1>3. View' = v
  BY <1>1, <1>2, ViewKept
<1>4. /\ worker'.stage = "executing" /\ worker'.request = worker.request
      /\ worker'.copy = worker.copy
  BY WorkerTyped DEF Typed, At
<1>5. Writing /\ Holding /\ ~Writing' /\ Holding'
  BY <1>4 DEF Writing, Holding
<1>6. Files'
  BY <1>1, <1>2, <1>3, <1>5 DEF IInv, Files, Entries, Healthy, Ending
<1>7. Queued' /\ Alone' /\ Present'
  BY <1>1, <1>2, <1>3, <1>4, <1>5 DEF IInv, Placed, Queued, Alone, Present
<1>8. Handed'
  BY <1>2, <1>5 DEF IInv, Placed, Handed
<1>9. Held'
  BY <1>2, <1>4, <1>5 DEF IInv, Placed, Held
<1>10. Runs'
  <2>1. \A j \in Jobs : WorksOf(j)' \subseteq WorksOf(j)
    BY <1>2, <1>4 DEF WorksOf
  <2>2. \A w \in 1 .. MaxWorks : Carried(w) => Carried(w)'
    BY <1>2, <1>5 DEF Carried
  <2> QED BY <1>2, <2>1, <2>2, RunsKept DEF IInv
<1>11. CatalogOK'
  BY <1>2 DEF IInv, CatalogOK
<1> QED BY <1>6, <1>7, <1>8, <1>9, <1>10, <1>11 DEF IInv, Placed

LEMMA LeaveStep ==
  ASSUME Typed, IInv, Leave
  PROVE  IInv'
<1>1. PICK v : v = View
  OBVIOUS
<1>2. UNCHANGED <<health, queue, durable, stop, completions, refresh, catalog, delivered, works,
                  marker, timer, applied, disk>>
  BY DEF Leave, game, database
<1>3. View' = v
  BY <1>1, <1>2, ViewKept
<1>4. /\ worker.stage = "waiting" /\ worker'.stage = "gone" /\ worker'.request = worker.request
      /\ worker'.copy = worker.copy
  BY WorkerTyped DEF Typed, At, Leave
<1>5. ~Writing /\ ~Holding /\ ~Writing' /\ ~Holding'
  BY <1>4 DEF Writing, Holding
<1>6. Files'
  BY <1>1, <1>2, <1>3, <1>5 DEF IInv, Files, Entries, Healthy, Ending
<1>7. Queued' /\ Alone' /\ Present'
  BY <1>1, <1>2, <1>3, <1>5 DEF IInv, Placed, Queued, Alone, Present
<1>8. Handed'
  BY <1>2, <1>5 DEF IInv, Placed, Handed
<1>9. Held'
  BY <1>4, <1>5 DEF IInv, Placed, Held
<1>10. Runs'
  <2>1. \A j \in Jobs : WorksOf(j)' \subseteq WorksOf(j)
    BY <1>2, <1>4 DEF WorksOf
  <2>2. \A w \in 1 .. MaxWorks : Carried(w) => Carried(w)'
    BY <1>2, <1>5 DEF Carried
  <2> QED BY <1>2, <2>1, <2>2, RunsKept DEF IInv
<1>11. CatalogOK'
  BY <1>2 DEF IInv, CatalogOK
<1> QED BY <1>6, <1>7, <1>8, <1>9, <1>10, <1>11 DEF IInv, Placed

LEMMA ShutdownStep ==
  ASSUME Typed, IInv, Shutdown
  PROVE  Typed' /\ IInv'
<1>1. PICK v : v = View
  OBVIOUS
<1>2. /\ UNCHANGED <<health, durable, completions, refresh, catalog, delivered, works,
                     marker, timer, applied, disk, worker, dirty, failures>>
      /\ queue' = <<>> /\ stop' = TRUE /\ restarts' = restarts + 1 /\ restarts < MaxRestarts
  BY DEF Shutdown, game, database
<1>3. View' = v
  BY <1>1, <1>2, ViewKept
<1>4. queue' \in Seq(Request) /\ Len(queue') = 0
  BY <1>2
<1>5. Writing' = Writing /\ Holding' = Holding
  BY <1>2 DEF Writing, Holding
<1>6. Files'
  BY <1>1, <1>2, <1>3, <1>5 DEF IInv, Files, Entries, Healthy, Ending
<1>7. Queued' /\ Alone' /\ Present'
  BY <1>2, <1>4, <1>5 DEF IInv, Placed, Queued, Alone, Present
<1>8. Handed'
  BY <1>2, <1>5 DEF IInv, Placed, Handed
<1>9. Held'
  BY <1>2, <1>5 DEF IInv, Placed, Held
<1>10. Runs'
  <2>1. \A j \in Jobs : WorksOf(j)' \subseteq WorksOf(j)
    BY <1>2 DEF WorksOf
  <2>2. \A w \in 1 .. MaxWorks : Carried(w) => Carried(w)'
    BY <1>2, <1>5 DEF Carried
  <2> QED BY <1>2, <2>1, <2>2, RunsKept DEF IInv
<1>11. CatalogOK'
  BY <1>2 DEF IInv, CatalogOK
<1>12. restarts' \in 0 .. MaxRestarts
  BY <1>2, Constants DEF Typed, CountsTyped
<1>13. Typed'
  BY <1>2, <1>4, <1>12 DEF Typed, GameTyped, PagesTyped, FilesTyped, DatabaseTyped, CountsTyped
<1> QED BY <1>6, <1>7, <1>8, <1>9, <1>10, <1>11, <1>13 DEF IInv, Placed

-----------------------------------------------------------------------------
(***************************************************************************)
(* The worker takes a request and records it.                              *)
(***************************************************************************)
LEMMA TakeRequestStep ==
  ASSUME Typed, IInv, TakeRequest
  PROVE  IInv'
<1>1. PICK v, q, t, u : v = View /\ q = Head(queue) /\ t = queue' /\ u = queue
  OBVIOUS
<1>2. UNCHANGED <<health, stop, completions, refresh, catalog, delivered, works,
                  marker, timer, applied, disk>>
  BY DEF TakeRequest, game, database
<1>3. View' = v
  BY <1>1, <1>2, ViewKept
<1>4. /\ t = Tail(u) /\ u # <<>> /\ u \in Seq(Request) /\ q = Head(u)
  BY <1>1 DEF TakeRequest, Typed, GameTyped
<1>5. /\ q = u[1] /\ q \in Request /\ 1 \in 1 .. Len(u)
      /\ t \in Seq(Request) /\ Len(u) \in Nat /\ Len(t) = Len(u) - 1
      /\ \A i \in 1 .. Len(t) : i + 1 \in 1 .. Len(u) /\ t[i] = u[i + 1]
      /\ \A i \in 1 .. Len(u) : i = 1 \/ (i - 1 \in 1 .. Len(t) /\ t[i - 1] = u[i])
  BY <1>4, Tailed
<1>6. q.job \in Jobs /\ q.work \in 1 .. MaxWorks /\ q.work # NoWork /\ q # None
  BY <1>5, NotNone DEF Request
<1>7. durable' = Recorded(q) /\ worker' = At("recording", q, None, durable')
  BY <1>1 DEF TakeRequest
<1>8. PICK e : e = [work |-> q.work, cursor |-> q.cursor, request |-> q, completion |-> None]
  OBVIOUS
<1>9. durable'[q.job] = e /\ \A j \in Jobs \ {q.job} : durable'[j] = durable[j]
  BY <1>5, <1>7, <1>8, RecordedEntry DEF Typed
<1>10. /\ worker.stage = "waiting" /\ worker'.stage = "recording" /\ worker'.request = q
       /\ worker'.copy = durable'
  BY <1>7 DEF TakeRequest, At
<1>11. ~Writing /\ ~Holding /\ Writing' /\ Holding'
  BY <1>10 DEF Writing, Holding
<1>12. \A i \in 1 .. Len(u) : u[i] \in Request /\ u[i].job \in Jobs
  <2>1. \A i \in 1 .. Len(u) : u[i] \in Request
    BY <1>4
  <2> QED BY <2>1 DEF Request
<1>13. \A i \in 1 .. Len(t) : t[i].job \in Jobs \ {q.job}
  <2>1. ASSUME NEW i \in 1 .. Len(t) PROVE t[i].job \in Jobs \ {q.job}
    <3>1. i + 1 \in 1 .. Len(u) /\ i + 1 # 1 /\ t[i] = u[i + 1]
      BY <1>5
    <3> QED BY <1>1, <1>5, <1>12, <3>1 DEF IInv, Placed, Alone
  <2> QED BY <2>1
<1>14. \A i \in 1 .. Len(completions) : completions[i].job \in Jobs \ {q.job}
  <2>1. \A i \in 1 .. Len(completions) : completions[i] \in Result
    BY DEF Typed, GameTyped
  <2>2. \A i \in 1 .. Len(completions) : completions[i].job \in Jobs
    BY <2>1 DEF Result
  <2> QED BY <1>1, <1>5, <2>2 DEF IInv, Placed, Alone
<1>15. QueuedOK(v, health[q.job], durable[q.job], q)
  BY <1>1, <1>5 DEF IInv, Placed, Queued
<1>16. /\ health[q.job].active /\ health[q.job].work = q.work /\ health[q.job].cursor = q.cursor
       /\ Asks(v, q.job, q.work, q.cursor, q)
  BY <1>15 DEF QueuedOK, Asks
<1>17. JobOK(v, q.job, health[q.job], durable[q.job])
  BY <1>1, <1>6 DEF IInv, Files, Healthy
<1>18. Run(v, q.job, q.work, q.cursor) /\ durable[q.job].work \in {NoWork, q.work}
  BY <1>6, <1>16, <1>17 DEF JobOK
<1>19. ~Gone(v, q.work)
  BY <1>1, <1>6, <1>14, <1>16 DEF IInv, Files, Ending
<1>20. e.work = q.work /\ e.cursor = q.cursor /\ e.request = q /\ e.completion = None
  BY <1>8
<1>21. EntryOK(v, q.job, e)
  BY <1>6, <1>16, <1>18, <1>19, <1>20 DEF EntryOK
<1>22. Entries'
  BY <1>1, <1>2, <1>3, <1>9, <1>10, <1>21 DEF IInv, Files, Entries
<1>23. JobOK(v, q.job, health[q.job], e)
  BY <1>6, <1>16, <1>17, <1>20 DEF JobOK
<1>24. Healthy' /\ Ending'
  BY <1>1, <1>2, <1>3, <1>9, <1>23 DEF IInv, Files, Healthy, Ending
<1>25. Queued'
  <2>1. ASSUME NEW i \in 1 .. Len(t) PROVE QueuedOK(v, health[t[i].job], durable'[t[i].job], t[i])
    BY <1>1, <1>5, <1>9, <1>13 DEF IInv, Placed, Queued
  <2> QED BY <1>1, <1>2, <1>3, <2>1 DEF Queued
<1>26. Handed'
  BY <1>2, <1>9, <1>10, <1>14 DEF IInv, Placed, Handed
<1>27. Held'
  BY <1>2, <1>6, <1>9, <1>10, <1>11, <1>16, <1>20 DEF Held
<1>28. Alone'
  <2>1. \A i, k \in 1 .. Len(t) : t[i].job = t[k].job => i = k
    <3>1. ASSUME NEW i \in 1 .. Len(t), NEW k \in 1 .. Len(t), t[i].job = t[k].job PROVE i = k
      <4>1. i + 1 \in 1 .. Len(u) /\ k + 1 \in 1 .. Len(u) /\ t[i] = u[i + 1] /\ t[k] = u[k + 1]
        BY <1>5
      <4>2. i + 1 = k + 1
        BY <1>1, <3>1, <4>1 DEF IInv, Placed, Alone
      <4> QED BY <1>5, <4>2
    <3> QED BY <3>1
  <2>2. \A i \in 1 .. Len(t), k \in 1 .. Len(completions) : t[i].job # completions[k].job
    BY <1>1, <1>5 DEF IInv, Placed, Alone
  <2>3. \A i, k \in 1 .. Len(completions) : completions[i].job = completions[k].job => i = k
    BY DEF IInv, Placed, Alone
  <2> QED BY <1>1, <1>2, <1>10, <1>13, <1>14, <2>1, <2>2, <2>3 DEF Alone
<1>29. Present'
  <2>1. ASSUME ~stop, NEW j \in Jobs, health[j].active, j # q.job,
               \A i \in 1 .. Len(completions) : completions[i].job # j
        PROVE  \E i \in 1 .. Len(t) : t[i].job = j
    <3>1. PICK i \in 1 .. Len(u) : u[i].job = j
      BY <1>1, <1>11, <2>1 DEF IInv, Placed, Present
    <3> QED BY <1>5, <2>1, <3>1
  <2> QED BY <1>1, <1>2, <1>10, <1>11, <2>1 DEF Present
<1>30. Runs'
  <2>1. ASSUME NEW j \in Jobs PROVE WorksOf(j)' \subseteq WorksOf(j)
    BY <1>2, <1>9, <1>10, <1>16, <1>20 DEF WorksOf
  <2>2. ASSUME NEW w \in 1 .. MaxWorks, Carried(w) PROVE Carried(w)'
    <3>1. PICK j \in Jobs \ {Catalog} : durable[j].work = w /\ disk[j].work = w
      BY <2>2 DEF Carried
    <3>2. w # NoWork
      BY Constants DEF NoWork
    <3> QED BY <1>2, <1>9, <1>10, <1>18, <1>20, <3>1, <3>2 DEF Carried
  <2> QED BY <1>2, <2>1, <2>2, RunsKept DEF IInv
<1>31. CatalogOK'
  BY <1>2 DEF IInv, CatalogOK
<1> QED BY <1>22, <1>24, <1>25, <1>26, <1>27, <1>28, <1>29, <1>30, <1>31 DEF IInv, Files, Placed

-----------------------------------------------------------------------------
(***************************************************************************)
(* A result is recorded.  Executing the page may have changed the view.    *)
(***************************************************************************)
\* All that is remembered, and all that is queued, is right in the view v.
Shown(v) ==
  /\ \A j \in Jobs : /\ EntryOK(v, j, durable[j]) /\ EntryOK(v, j, disk'[j])
                     /\ JobOK(v, j, health[j], durable[j])
  /\ \A i \in 1 .. Len(queue) : QueuedOK(v, health[queue[i].job], durable[queue[i].job], queue[i])
  /\ \A w \in 1 .. MaxWorks : ~Untouched(v, w) /\ ~Gone(v, w) =>
       \E j \in Jobs \ {Catalog} : durable[j].work = w /\ disk'[j].work = w

LEMMA AnswerStep ==
  ASSUME Typed, IInv, worker.stage \in {"recording", "executing"},
         NEW r \in Result, AnswerWith(r), NEW v, v = View', Shown(v),
         Answers(v, worker.request.job, worker.request.work, worker.request.cursor, r),
         disk' \in {disk, worker.copy}, worker.stage = "executing" => disk' = disk,
         \A j \in Jobs : marker'[j][1] \in 0 .. works,
         Fresh', Ended',
         UNCHANGED <<health, queue, completions, refresh, catalog, delivered, works, stop>>
  PROVE  IInv'
<1>1. PICK q : q = worker.request
  OBVIOUS
<1>2. Holding /\ Holding' /\ Writing' /\ (Writing \/ disk' = disk)
  BY AnswerWithTyped DEF Holding, Writing, Typed
<1>3. q \in Request /\ q.job \in Jobs /\ ~Gone(View, q.work) /\ q # None
  BY <1>1, <1>2, HeldLives, NotNone
<1>4. ~Gone(v, q.work)
  BY <1>3 DEF Gone, View
<1>5. /\ health[q.job].active /\ health[q.job].work = q.work /\ health[q.job].cursor = q.cursor
      /\ durable[q.job].work = q.work /\ durable[q.job].request = q
  BY <1>1, <1>2 DEF IInv, Placed, Held
<1>6. durable[q.job].cursor = q.cursor /\ q.work # NoWork
  BY <1>3, <1>5, NotNone DEF IInv, Files, Healthy, JobOK
<1>7. r.job = q.job /\ r.work = q.work /\ r # None
  BY <1>1, NotNone DEF Answers
<1>8. PICK e : e = [work |-> q.work, cursor |-> q.cursor, request |-> q, completion |-> r]
  OBVIOUS
<1>9. /\ worker'.stage = "answering" /\ worker'.request = q
      /\ worker'.result = r /\ worker'.copy = durable'
      /\ durable'[q.job] = e /\ \A j \in Jobs \ {q.job} : durable'[j] = durable[j]
  <2>1. /\ worker'.stage = "answering" /\ worker'.request = q
        /\ worker'.result = r /\ worker'.copy = durable'
        /\ durable' = [durable EXCEPT ![q.job] =
              [work |-> durable[q.job].work, cursor |-> durable[q.job].cursor,
               request |-> durable[q.job].request, completion |-> r]]
    BY <1>1, <1>7, AnswerWithTyped DEF Typed
  <2>2. durable' = [durable EXCEPT ![q.job] = e]
    BY <1>5, <1>6, <1>8, <2>1
  <2> QED BY <1>3, <2>1, <2>2 DEF Typed, FilesTyped
<1>10. e.work = q.work /\ e.cursor = q.cursor /\ e.request = q /\ e.completion = r
  BY <1>8
<1>11. EntryOK(v, q.job, e)
  <2>1. EntryOK(v, q.job, durable[q.job])
    BY <1>3 DEF Shown
  <2>2. Run(v, q.job, q.work, q.cursor) /\ Asks(v, q.job, q.work, q.cursor, q)
    BY <1>3, <1>5, <1>6, <2>1 DEF EntryOK
  <2> QED BY <1>1, <1>3, <1>4, <1>6, <1>10, <2>2 DEF EntryOK
<1>12. Entries'
  BY <1>9, <1>11 DEF Entries, Shown
<1>13. JobOK(v, q.job, health[q.job], e)
  <2>1. JobOK(v, q.job, health[q.job], durable[q.job])
    BY <1>3 DEF Shown
  <2> QED BY <1>5, <1>6, <1>10, <2>1 DEF JobOK
<1>14. Healthy'
  BY <1>9, <1>13 DEF Healthy, Shown
<1>15. Ending'
  <2>1. \A w : Gone(v, w) <=> Gone(View, w)
    BY DEF Gone, View
  <2> QED BY <2>1 DEF IInv, Files, Ending
<1>16. \A i \in 1 .. Len(queue) : queue[i].job \in Jobs \ {q.job}
  <2>1. \A i \in 1 .. Len(queue) : queue[i] \in Request
    BY DEF Typed, GameTyped
  <2> QED BY <1>1, <1>2, <2>1 DEF IInv, Placed, Alone, Request
<1>17. \A i \in 1 .. Len(completions) : completions[i].job \in Jobs \ {q.job}
  <2>1. \A i \in 1 .. Len(completions) : completions[i] \in Result
    BY DEF Typed, GameTyped
  <2>2. \A i \in 1 .. Len(completions) : completions[i].job \in Jobs
    BY <2>1 DEF Result
  <2> QED BY <1>1, <1>2, <2>2 DEF IInv, Placed, Alone
<1>18. Queued'
  BY <1>9, <1>16 DEF Shown, Queued
<1>19. Handed'
  BY <1>2, <1>9, <1>17 DEF IInv, Placed, Handed
<1>20. Held'
  BY <1>2, <1>3, <1>5, <1>7, <1>9, <1>10 DEF Held
<1>21. Alone' /\ Present'
  BY <1>1, <1>2, <1>9 DEF IInv, Placed, Alone, Present
<1>22. Distinct'
  <2>1. \A j \in Jobs : WorksOf(j)' \subseteq WorksOf(j)
    BY <1>5, <1>9, <1>10 DEF WorksOf
  <2> QED BY <2>1 DEF IInv, Runs, Distinct
<1>23. Touched'
  <2>1. \A j \in Jobs : durable'[j].work = durable[j].work
    BY <1>5, <1>9, <1>10
  <2> QED BY <1>9, <2>1 DEF Touched, Shown, Carried
<1>24. CatalogOK'
  BY DEF IInv, CatalogOK
<1> QED BY <1>12, <1>14, <1>15, <1>18, <1>19, <1>20, <1>21, <1>22, <1>23, <1>24
        DEF IInv, Files, Placed, Runs

LEMMA RecordRequestStep ==
  ASSUME Typed, IInv, RecordRequest
  PROVE  IInv'
<1>1. CASE Persisted /\ worker' = [worker EXCEPT !.stage = "executing"] /\ UNCHANGED durable
  BY <1>1, RequestWrittenStep DEF RecordRequest, Persisted
<1>2. CASE PersistFailed /\ AnswerWith(Answer(worker.request, "retryable"))
  <2>1. worker.stage = "recording" /\ Holding /\ Writing
    BY DEF RecordRequest, Holding, Writing
  <2>2. PICK v, q, r : v = View /\ q = worker.request /\ r = Answer(q, "retryable")
    OBVIOUS
  <2>3. q \in Request
    BY <2>1, <2>2, HeldLives
  <2>4. /\ UNCHANGED <<health, queue, completions, refresh, catalog, delivered, works, stop>>
        /\ UNCHANGED <<marker, timer, applied>>
    BY DEF RecordRequest, game, database
  <2>5. View' = v
    BY <2>2, <2>4, ViewKept
  <2>6. r \in Result /\ r.job = q.job /\ r.work = q.work /\ r.outcome = "retryable"
    BY <2>2, <2>3, AnswerTyped DEF Outcomes
  <2>7. Answers(v, q.job, q.work, q.cursor, r)
    BY <2>6 DEF Answers
  <2>8. disk' \in {disk, worker.copy}
    BY <1>2 DEF PersistFailed
  <2>9. Shown(v)
    BY <2>1, <2>2, <2>8
       DEF IInv, Files, Placed, Runs, Shown, Entries, Healthy, Queued, Touched, Carried
  <2>10. Fresh' /\ Ended'
    BY <2>2, <2>4, <2>5 DEF IInv, Runs, Fresh, Ended
  <2>11. \A j \in Jobs : marker'[j][1] \in 0 .. works
    BY <2>4 DEF IInv, Runs, Distinct
  <2> QED BY <1>2, <2>1, <2>2, <2>4, <2>5, <2>6, <2>7, <2>8, <2>9, <2>10, <2>11, AnswerStep
<1> QED BY <1>1, <1>2 DEF RecordRequest

\* What is known of a request while it is executed
LEMMA ExecutingFacts ==
  ASSUME Typed, IInv, worker.stage = "executing", NEW q, q = worker.request
  PROVE  /\ q \in Request /\ q.job \in Jobs /\ q.work \in 1 .. MaxWorks /\ q.work \in 1 .. works
         /\ q.work # NoWork /\ q.cursor \in 0 .. Zones /\ q # None /\ ~Gone(View, q.work)
         /\ health[q.job].work = q.work /\ health[q.job].cursor = q.cursor
         /\ disk[q.job] = durable[q.job]
         /\ durable[q.job].work = q.work /\ durable[q.job].cursor = q.cursor
         /\ durable[q.job].request = q /\ durable[q.job].completion = None
         /\ Run(View, q.job, q.work, q.cursor) /\ Asks(View, q.job, q.work, q.cursor, q)
         /\ \A k \in Jobs \ {q.job} :
              health[k].work # q.work /\ durable[k].work # q.work /\ disk[k].work # q.work
         /\ \A i \in 1 .. Len(queue) : queue[i].job \in Jobs \ {q.job}
<1>1. Holding /\ ~Writing
  BY DEF Holding, Writing
<1>2. q \in Request /\ q.job \in Jobs /\ ~Gone(View, q.work)
  BY <1>1, HeldLives
<1>3. q # None /\ q.work \in 1 .. MaxWorks /\ q.work # NoWork /\ q.cursor \in 0 .. Zones
  BY <1>2, NotNone DEF Request
<1>4. /\ health[q.job].work = q.work /\ health[q.job].cursor = q.cursor
      /\ durable[q.job].work = q.work /\ durable[q.job].request = q
      /\ durable[q.job].completion = None /\ disk[q.job] = durable[q.job]
  BY <1>1 DEF IInv, Placed, Held
<1>5. durable[q.job].cursor = q.cursor
  BY <1>2, <1>3, <1>4 DEF IInv, Files, Healthy, JobOK
<1>6. EntryOK(View, q.job, durable[q.job])
  BY <1>2 DEF IInv, Files, Entries
<1>7. Run(View, q.job, q.work, q.cursor) /\ Asks(View, q.job, q.work, q.cursor, q)
  BY <1>3, <1>4, <1>5, <1>6 DEF EntryOK
<1>8. q.work \in 1 .. works
  BY <1>7 DEF Run, View
<1>9. ASSUME NEW k \in Jobs \ {q.job}
      PROVE  health[k].work # q.work /\ durable[k].work # q.work /\ disk[k].work # q.work
  <2>1. WorksOf(k) \cap WorksOf(q.job) \subseteq {NoWork}
    BY <1>2 DEF IInv, Runs, Distinct
  <2> QED BY <1>3, <1>4, <2>1 DEF WorksOf
<1>10. \A i \in 1 .. Len(queue) : queue[i].job \in Jobs \ {q.job}
  <2>1. \A i \in 1 .. Len(queue) : queue[i] \in Request
    BY DEF Typed, GameTyped
  <2> QED BY <1>1, <2>1 DEF IInv, Placed, Alone, Request
<1> QED BY <1>2, <1>3, <1>4, <1>5, <1>7, <1>8, <1>9, <1>10

\* A view in which only the run w, of job j, has moved
Others(u, v, j, w) ==
  /\ v.delivered = u.delivered /\ v.works = u.works
  /\ \A k \in Jobs \ {j} : v.marker[k] = u.marker[k]
  /\ \A x \in 1 .. MaxWorks \ {w} : v.applied[x] = u.applied[x]

LEMMA OthersKept ==
  ASSUME NEW u, NEW v, NEW j \in Jobs, NEW w \in 1 .. MaxWorks, Others(u, v, j, w), u.works \in 0 .. MaxWorks
  PROVE  /\ \A x : Gone(v, x) <=> Gone(u, x)
         /\ \A x, c : Reached(v, x, c) <=> Reached(u, x, c)
         /\ \A x \in 1 .. MaxWorks \ {w} : /\ Untouched(v, x) <=> Untouched(u, x)
                                           /\ Full(v, x) <=> Full(u, x)
         /\ \A k \in Jobs \ {j} : \A x, c : Run(u, k, x, c) /\ x # w => Run(v, k, x, c)
         /\ \A k \in Jobs \ {j}, e \in Entry : EntryOK(u, k, e) /\ e.work # w => EntryOK(v, k, e)
         /\ \A k \in Jobs \ {j}, h \in Job, e \in Entry :
              JobOK(u, k, h, e) /\ h.work # w => JobOK(v, k, h, e)
         /\ \A h \in Job, e \in Entry, q \in Request :
              QueuedOK(u, h, e, q) /\ h.work # w => QueuedOK(v, h, e, q)
<1>1. \A x : Gone(v, x) <=> Gone(u, x)
  BY DEF Gone, Others
<1>2. \A x, c : Reached(v, x, c) <=> Reached(u, x, c)
  BY DEF Reached, Others
<1>3. \A x \in 1 .. MaxWorks \ {w} : /\ Untouched(v, x) <=> Untouched(u, x)
                                     /\ Full(v, x) <=> Full(u, x)
  BY DEF Untouched, Full, Others
<1>4. ASSUME NEW k \in Jobs \ {j}, NEW x, NEW c, Run(u, k, x, c), x # w
      PROVE  Run(v, k, x, c)
  <2>1. x \in 1 .. u.works /\ v.works = u.works
    BY <1>4 DEF Run, Others
  <2>2. x \in 1 .. MaxWorks \ {w}
    BY <1>4, <2>1, Constants
  <2>3. v.marker[k] = u.marker[k] /\ v.applied[x] = u.applied[x]
    BY <2>2 DEF Others
  <2>4. k # Catalog => Progress(v, k, x, c)
    BY <1>4, <2>3 DEF Run, Progress
  <2>5. k = Catalog => Untouched(v, x)
    BY <1>3, <1>4, <2>2 DEF Run
  <2> QED BY <1>2, <1>4, <2>1, <2>4, <2>5 DEF Run
<1>5. ASSUME NEW k, NEW x \in 1 .. MaxWorks \ {w}, NEW c, NEW q, Asks(u, k, x, c, q)
      PROVE  Asks(v, k, x, c, q)
  BY <1>3, <1>5 DEF Asks
<1>6. ASSUME NEW k \in Jobs \ {j}, NEW e \in Entry, EntryOK(u, k, e), e.work # w
      PROVE  EntryOK(v, k, e)
  <2>0. e.work \in 0 .. MaxWorks
    BY DEF Entry
  <2>1. CASE e.work = NoWork
    <3>1. e = Idle
      BY <1>6, <2>1 DEF EntryOK
    <3> QED BY <1>1, <1>6, <2>1, <3>1, IdleTyped DEF EntryOK
  <2>2. CASE e.work # NoWork
    <3>1. e.work \in 1 .. MaxWorks \ {w}
      BY <1>6, <2>0, <2>2, Constants DEF NoWork
    <3>2. Run(v, k, e.work, e.cursor) /\ (e.request = None => e.cursor # 0)
      BY <1>4, <1>6, <2>2 DEF EntryOK
    <3>3. e.request # None => Asks(v, k, e.work, e.cursor, e.request)
      BY <1>5, <1>6, <3>1 DEF EntryOK
    <3>4. e.completion # None => e.request # None /\ Answers(v, k, e.work, e.cursor, e.completion)
      <4>1. v.marker[k] = u.marker[k]
        BY DEF Others
      <4> QED BY <1>3, <1>6, <3>1, <4>1 DEF EntryOK, Answers
    <3> QED BY <1>1, <1>6, <2>2, <3>2, <3>3, <3>4 DEF EntryOK
  <2> QED BY <2>1, <2>2
<1>7. ASSUME NEW k \in Jobs \ {j}, NEW h \in Job, NEW e \in Entry, JobOK(u, k, h, e), h.work # w
      PROVE  JobOK(v, k, h, e)
  BY <1>4, <1>7 DEF JobOK
<1>8. ASSUME NEW h \in Job, NEW e \in Entry, NEW q \in Request, QueuedOK(u, h, e, q), h.work # w
      PROVE  QueuedOK(v, h, e, q)
  <2>1. h.work = q.work /\ Asks(u, q.job, h.work, h.cursor, q)
    BY <1>8 DEF QueuedOK, Asks
  <2>2. h.work \in 1 .. MaxWorks \ {w}
    BY <1>8, <2>1, NotNone
  <2> QED BY <1>5, <1>8, <2>1, <2>2 DEF QueuedOK
<1> QED BY <1>1, <1>2, <1>3, <1>4, <1>6, <1>7, <1>8

\* A COMMIT of a page that had to be executed: its zones are changed once.
LEMMA CommitShown ==
  ASSUME Typed, IInv, worker.stage = "executing", NEW q, q = worker.request,
         q.job # Catalog, ~NotYet(q), Commit(q), NEW v, v = View',
         UNCHANGED <<delivered, works, disk>>
  PROVE  /\ Shown(v) /\ Fresh' /\ Ended'
         /\ \A j \in Jobs : marker'[j][1] \in 0 .. works
         /\ v.marker[q.job] = <<q.work, q.cursor>>
         /\ ~IsFull(q.cursor) => Full(v, q.work)
<1>1. PICK u : u = View
  OBVIOUS
<1>2. PICK j, w, c : j = q.job /\ w = q.work /\ c = q.cursor
  OBVIOUS
<1>3. /\ q \in Request /\ j \in Jobs /\ w \in 1 .. MaxWorks /\ w \in 1 .. works
      /\ w # NoWork /\ c \in 0 .. Zones /\ q # None /\ ~Gone(u, w)
      /\ health[j].work = w /\ health[j].cursor = c /\ disk[j] = durable[j]
      /\ durable[j].work = w /\ durable[j].cursor = c
      /\ durable[j].request = q /\ durable[j].completion = None
      /\ Run(u, j, w, c) /\ Asks(u, j, w, c, q)
      /\ \A k \in Jobs \ {j} : health[k].work # w /\ durable[k].work # w /\ disk[k].work # w
      /\ \A i \in 1 .. Len(queue) : queue[i].job \in Jobs \ {j}
  BY <1>1, <1>2, ExecutingFacts
<1>4. /\ u.applied = applied /\ u.marker = marker /\ u.delivered = delivered /\ u.works = works
      /\ v.applied = applied' /\ v.marker = marker' /\ v.delivered = delivered /\ v.works = works
  BY <1>1 DEF View
<1>5. /\ marker'[j] = <<w, c>>
      /\ \A k \in Jobs \ {j} : marker'[k] = marker[k] /\ timer'[k] = timer[k]
      /\ timer'[j] = IF IsFull(c) THEN timer[j] ELSE w
      /\ \A x \in 1 .. MaxWorks \ {w} : applied'[x] = applied[x]
      /\ \A z \in 1 .. Zones :
           applied'[w][z] =
             IF ~MarkerMatches(q) /\ c < z /\ z <= c + Budget
             THEN applied[w][z] + 1 ELSE applied[w][z]
  <2>1. DatabaseTyped /\ q \in Request
    BY <1>3 DEF Typed
  <2>2. /\ marker'[q.job] = <<q.work, q.cursor>>
        /\ \A k \in Jobs \ {q.job} : marker'[k] = marker[k] /\ timer'[k] = timer[k]
        /\ timer'[q.job] = IF IsFull(q.cursor) THEN timer[q.job] ELSE q.work
        /\ \A x \in 1 .. MaxWorks \ {q.work} : applied'[x] = applied[x]
        /\ \A z \in 1 .. Zones :
             applied'[q.work][z] =
               IF ~MarkerMatches(q) /\ q.cursor < z /\ z <= q.cursor + Budget
               THEN applied[q.work][z] + 1 ELSE applied[q.work][z]
    BY <2>1, CommitFacts, Zenon
  <2> QED BY <1>2, <2>2, Zenon
<1>6. Others(u, v, j, w)
  BY <1>4, <1>5 DEF Others
<1>7. works \in 0 .. MaxWorks /\ u.works \in 0 .. MaxWorks
  BY <1>4 DEF Typed, GameTyped
<1>8. PICK done : done = (marker[j] = <<w, c>>)
  OBVIOUS
<1>9. ASSUME NEW z \in 1 .. Zones PROVE applied'[w][z] = IF z <= c + Budget THEN 1 ELSE 0
  <2>1. applied[w][z] = IF z <= c \/ (z <= c + Budget /\ done) THEN 1 ELSE 0
    BY <1>2, <1>3, <1>4, <1>8 DEF Run, Progress
  <2>2. MarkerMatches(q) <=> done
    BY <1>2, <1>8 DEF MarkerMatches
  <2>3. CASE done
    BY <1>3, <1>5, <2>1, <2>2, <2>3, Constants
  <2>4. CASE ~done
    BY <1>3, <1>5, <2>1, <2>2, <2>4, Constants
  <2> QED BY <2>3, <2>4
<1>10. Progress(v, j, w, c)
  BY <1>3, <1>4, <1>5, <1>9, Constants DEF Progress
<1>11. Run(v, j, w, c)
  <2>1. Reached(v, w, c)
    BY <1>3, <1>4 DEF Run, Reached
  <2> QED BY <1>2, <1>3, <1>4, <1>10, <2>1 DEF Run
<1>12. Asks(v, j, w, c, q)
  <2>1. q.elapsed
    BY <1>2, <1>3 DEF Asks, NotYet
  <2> QED BY <1>3, <2>1 DEF Asks
<1>13. /\ \A x : Gone(v, x) <=> Gone(u, x)
       /\ \A x \in 1 .. MaxWorks \ {w} : /\ Untouched(v, x) <=> Untouched(u, x)
                                         /\ Full(v, x) <=> Full(u, x)
       /\ \A k \in Jobs \ {j}, e \in Entry : EntryOK(u, k, e) /\ e.work # w => EntryOK(v, k, e)
       /\ \A k \in Jobs \ {j}, h \in Job, e \in Entry :
            JobOK(u, k, h, e) /\ h.work # w => JobOK(v, k, h, e)
       /\ \A h \in Job, e \in Entry, x \in Request :
            QueuedOK(u, h, e, x) /\ h.work # w => QueuedOK(v, h, e, x)
  BY <1>3, <1>6, <1>7, OthersKept
<1>14. /\ durable \in [Jobs -> Entry] /\ disk \in [Jobs -> Entry] /\ health \in [Jobs -> Job]
  BY DEF Typed, FilesTyped, GameTyped
<1>15. EntryOK(v, j, durable[j])
  BY <1>3, <1>11, <1>12, <1>13 DEF EntryOK
<1>16. JobOK(v, j, health[j], durable[j])
  <2>1. JobOK(u, j, health[j], durable[j])
    BY <1>1, <1>3 DEF IInv, Files, Healthy
  <2> QED BY <1>3, <1>11, <2>1 DEF JobOK
<1>17. ASSUME NEW k \in Jobs
       PROVE  /\ EntryOK(v, k, durable[k]) /\ EntryOK(v, k, disk'[k])
              /\ JobOK(v, k, health[k], durable[k])
  <2>1. EntryOK(u, k, durable[k]) /\ EntryOK(u, k, disk[k]) /\ JobOK(u, k, health[k], durable[k])
    BY <1>1 DEF IInv, Files, Entries, Healthy
  <2>2. CASE k # j
    BY <1>3, <1>13, <1>14, <2>1, <2>2
  <2> QED BY <1>3, <1>15, <1>16, <2>2
<1>18. ASSUME NEW i \in 1 .. Len(queue)
       PROVE  QueuedOK(v, health[queue[i].job], durable[queue[i].job], queue[i])
  <2>1. PICK x, k : x = queue[i] /\ k = queue[i].job
    OBVIOUS
  <2>2. x \in Request
    BY <2>1 DEF Typed, GameTyped
  <2>3. k \in Jobs \ {j} /\ health[k] \in Job /\ durable[k] \in Entry /\ health[k].work # w
    BY <1>3, <1>14, <2>1
  <2>4. QueuedOK(u, health[k], durable[k], x)
    BY <1>1, <2>1 DEF IInv, Placed, Queued
  <2>5. QueuedOK(v, health[k], durable[k], x)
    BY <1>13, <2>2, <2>3, <2>4
  <2> QED BY <2>1, <2>5
<1>19. ASSUME NEW x \in 1 .. MaxWorks, ~Untouched(v, x), ~Gone(v, x)
       PROVE  \E k \in Jobs \ {Catalog} : durable[k].work = x /\ disk'[k].work = x
  <2>1. CASE x = w
    BY <1>2, <1>3, <2>1
  <2>2. CASE x # w
    <3>1. Carried(x)
      BY <1>1, <1>13, <1>19, <2>2 DEF IInv, Runs, Touched
    <3> QED BY <3>1 DEF Carried
  <2> QED BY <2>1, <2>2
<1>20. Shown(v)
  BY <1>17, <1>18, <1>19 DEF Shown
<1>21. Fresh'
  <2>1. ASSUME NEW x \in 1 .. MaxWorks, x > works PROVE Untouched(v, x)
    <3>1. x # w
      BY <1>3, <1>7, <2>1, Constants
    <3> QED BY <1>1, <1>13, <2>1, <3>1 DEF IInv, Runs, Fresh
  <2> QED BY <2>1 DEF IInv, Runs, Fresh
<1>22. ~IsFull(c) => Full(v, w)
  <2>1. ASSUME ~IsFull(c), NEW z \in 1 .. Zones PROVE z <= c + Budget
    BY <1>3, <2>1, PageFacts, Constants
  <2> QED BY <1>4, <1>9, <2>1 DEF Full
<1>23. Full(u, w) => Full(v, w)
  <2>1. ASSUME Full(u, w), NEW z \in 1 .. Zones PROVE applied'[w][z] = 1
    <3>1. applied[w][z] = 1
      BY <1>4, <2>1 DEF Full
    <3>2. applied'[w][z] \in {1, 2} /\ applied'[w][z] \in {0, 1}
      BY <1>5, <1>9, <3>1
    <3> QED BY <3>2
  <2> QED BY <1>4, <2>1 DEF Full
<1>24. Ended'
  <2>1. ASSUME NEW x \in 1 .. MaxWorks, NEW z \in 1 .. Zones PROVE applied'[x][z] \in {0, 1}
    <3>1. CASE x = w
      BY <1>9, <3>1
    <3>2. CASE x # w
      BY <1>5, <3>2 DEF IInv, Runs, Ended
    <3> QED BY <3>1, <3>2
  <2>2. ASSUME NEW x \in 1 .. MaxWorks, Full(u, x) PROVE Full(v, x)
    BY <1>13, <1>23, <2>2
  <2>3. ASSUME NEW k \in Jobs, timer'[k] # NoWork PROVE Full(v, timer'[k])
    <3>1. CASE k = j /\ ~IsFull(c)
      BY <1>5, <1>22, <3>1
    <3>2. CASE timer'[k] = timer[k]
      <4>1. timer[k] \in 1 .. MaxWorks
        BY <2>3, <3>2, Constants DEF Typed, DatabaseTyped, NoWork
      <4>2. Full(u, timer[k])
        BY <1>1, <2>3, <3>2 DEF IInv, Runs, Ended
      <4> QED BY <2>2, <3>2, <4>1, <4>2
    <3> QED BY <1>5, <3>1, <3>2
  <2>4. ASSUME NEW r \in delivered, r.outcome = "complete"
        PROVE  Untouched(v, r.work) \/ Full(v, r.work)
    <3>1. r.work \in 1 .. MaxWorks
      BY DEF Typed, CountsTyped, Receipts
    <3>2. Gone(u, r.work)
      BY <1>4, <2>4 DEF Gone, Retired
    <3>3. r.work # w
      BY <1>3, <3>2
    <3>4. Untouched(u, r.work) \/ Full(u, r.work)
      BY <1>1, <2>4 DEF IInv, Runs, Ended
    <3> QED BY <1>13, <3>1, <3>3, <3>4
  <2> QED BY <2>1, <2>3, <2>4 DEF Ended
<1>25. \A k \in Jobs : marker'[k][1] \in 0 .. works
  <2>1. ASSUME NEW k \in Jobs PROVE marker'[k][1] \in 0 .. works
    <3>1. CASE k = j
      BY <1>3, <1>5, <1>7, <3>1, Constants
    <3>2. CASE k # j
      BY <1>5, <3>2 DEF IInv, Runs, Distinct
    <3> QED BY <3>1, <3>2
  <2> QED BY <2>1
<1> QED BY <1>2, <1>4, <1>5, <1>20, <1>21, <1>22, <1>24, <1>25

LEMMA ExecuteStep ==
  ASSUME Typed, IInv, Execute
  PROVE  IInv'
<1>1. PICK q, u, v : q = worker.request /\ u = View /\ v = View'
  OBVIOUS
<1>2. /\ worker.stage = "executing"
      /\ UNCHANGED <<health, queue, completions, refresh, catalog, delivered, works, stop>>
      /\ UNCHANGED disk
  BY DEF Execute, game
<1>3. PICK r \in Result : Executed(q, r) /\ AnswerWith(r)
  BY <1>1, ExecuteFacts DEF IInv, Placed
<1>4. /\ q \in Request /\ q.job \in Jobs /\ q.cursor \in 0 .. Zones
      /\ Run(u, q.job, q.work, q.cursor) /\ Asks(u, q.job, q.work, q.cursor, q)
  BY <1>1, <1>2, ExecutingFacts
<1>5. /\ PageAnswer(q).job = q.job /\ PageAnswer(q).work = q.work
      /\ PageAnswer(q).outcome = IF IsFull(q.cursor) THEN "more" ELSE "complete"
      /\ PageAnswer(q).next = NextCursor(q.cursor)
      /\ q.job = Catalog => PageAnswer(q).rows = Page(q.cursor)
  BY <1>4, PageAnswerTyped
<1>6. \A outcome \in Outcomes : /\ Answer(q, outcome).job = q.job /\ Answer(q, outcome).work = q.work
                                /\ Answer(q, outcome).outcome = outcome
  BY <1>4, AnswerTyped
<1>7. /\ IsFull(q.cursor) => NextCursor(q.cursor) = q.cursor + Budget /\ q.cursor + Budget <= Zones
      /\ ~IsFull(q.cursor) => q.cursor + Budget > Zones
  <2>1. PICK c \in 0 .. Zones : c = q.cursor
    BY <1>4
  <2>2. (IsFull(c) <=> c + Budget <= Zones) /\ (IsFull(c) => NextCursor(c) = c + Budget)
    BY <2>1, PageFacts
  <2>3. ~(c + Budget <= Zones) => c + Budget > Zones
    BY Constants
  <2> QED BY <2>1, <2>2, <2>3
<1>8. ASSUME UNCHANGED database
      PROVE  /\ v = u /\ Shown(v) /\ Fresh' /\ Ended' /\ \A j \in Jobs : marker'[j][1] \in 0 .. works
  <2>1. UNCHANGED <<marker, timer, applied>>
    BY <1>8 DEF database
  <2>2. v = u
    BY <1>1, <1>2, <2>1, ViewKept
  <2>3. Shown(v)
    BY <1>1, <1>2, <2>2
       DEF IInv, Files, Placed, Runs, Shown, Entries, Healthy, Queued, Touched, Carried
  <2>4. Fresh' /\ Ended'
    BY <1>1, <1>2, <2>1, <2>2 DEF IInv, Runs, Fresh, Ended
  <2>5. \A j \in Jobs : marker'[j][1] \in 0 .. works
    BY <2>1 DEF IInv, Runs, Distinct
  <2> QED BY <2>2, <2>3, <2>4, <2>5
<1>9. ASSUME Shown(v), Fresh', Ended', \A j \in Jobs : marker'[j][1] \in 0 .. works,
             Answers(v, q.job, q.work, q.cursor, r)
      PROVE  IInv'
  BY <1>1, <1>2, <1>3, <1>9, AnswerStep
<1>10. CASE NotYet(q) /\ r = Answer(q, "complete") /\ UNCHANGED database
  <2>1. r.job = q.job /\ r.work = q.work /\ r.outcome = "complete"
    BY <1>6, <1>10 DEF Outcomes
  <2>2. q.job # Catalog /\ (~q.elapsed \/ timer[q.job] = q.work)
    BY <1>10 DEF NotYet
  <2>3. Untouched(u, q.work) \/ Full(u, q.work)
    <3>1. CASE ~q.elapsed
      BY <1>4, <3>1 DEF Asks
    <3>2. CASE timer[q.job] = q.work
      BY <1>1, <1>4, <3>2, NotNone DEF IInv, Runs, Ended
    <3> QED BY <2>2, <3>1, <3>2
  <2>4. Answers(v, q.job, q.work, q.cursor, r)
    BY <1>8, <1>10, <2>1, <2>2, <2>3 DEF Answers
  <2> QED BY <1>8, <1>9, <1>10, <2>4
<1>11. CASE q.job = Catalog /\ r = PageAnswer(q) /\ UNCHANGED database
  <2>1. Answers(v, q.job, q.work, q.cursor, r)
    BY <1>5, <1>7, <1>11 DEF Answers
  <2> QED BY <1>8, <1>9, <1>11, <2>1
<1>12. CASE ~NotYet(q) /\ q.job # Catalog /\ Commit(q) /\ r \in {PageAnswer(q), Answer(q, "retryable")}
  <2>1. /\ Shown(v) /\ Fresh' /\ Ended'
        /\ \A j \in Jobs : marker'[j][1] \in 0 .. works
        /\ v.marker[q.job] = <<q.work, q.cursor>>
        /\ ~IsFull(q.cursor) => Full(v, q.work)
    BY <1>1, <1>2, <1>12, CommitShown
  <2>2. CASE r = PageAnswer(q)
    <3>1. Answers(v, q.job, q.work, q.cursor, r)
      BY <1>5, <1>7, <1>12, <2>1, <2>2 DEF Answers
    <3> QED BY <1>9, <2>1, <3>1
  <2>3. CASE r = Answer(q, "retryable")
    <3>1. r.job = q.job /\ r.work = q.work /\ r.outcome = "retryable"
      BY <1>6, <2>3 DEF Outcomes
    <3>2. Answers(v, q.job, q.work, q.cursor, r)
      BY <3>1 DEF Answers
    <3> QED BY <1>9, <2>1, <3>2
  <2> QED BY <1>12, <2>2, <2>3
<1>13. CASE r \in {Answer(q, "retryable"), Answer(q, "permanent")} /\ UNCHANGED database
  <2>1. r.job = q.job /\ r.work = q.work /\ r.outcome \in {"retryable", "permanent"}
    BY <1>6, <1>13 DEF Outcomes
  <2>2. Answers(v, q.job, q.work, q.cursor, r)
    BY <2>1 DEF Answers
  <2> QED BY <1>8, <1>9, <1>13, <2>2
<1> QED BY <1>3, <1>10, <1>11, <1>12, <1>13 DEF Executed

(***************************************************************************)
(* The result is handed out, written or not.                               *)
(***************************************************************************)
LEMMA RecordResultStep ==
  ASSUME Typed, IInv, RecordResult
  PROVE  IInv'
<1>1. PICK v, q, r, j : v = View /\ q = worker.request /\ r = worker.result /\ j = worker.request.job
  OBVIOUS
<1>2. UNCHANGED <<health, queue, stop, refresh, catalog, delivered, works, marker, timer, applied>>
  BY DEF RecordResult, database
<1>3. View' = v
  BY <1>1, <1>2, ViewKept
<1>4. worker.stage = "answering" /\ worker'.stage = "waiting" /\ worker'.request = None
      /\ worker'.copy = worker.copy
  BY DEF RecordResult, Waiting, At
<1>5. Writing /\ Holding /\ ~Writing' /\ ~Holding'
  BY <1>4 DEF Writing, Holding
<1>6. q \in Request /\ j \in Jobs /\ ~Gone(v, q.work) /\ q # None /\ q.work # NoWork
  BY <1>1, <1>5, HeldLives, NotNone
<1>7. /\ health[j].active /\ health[j].work = q.work /\ health[j].cursor = q.cursor
      /\ durable[j].work = q.work /\ durable[j].request = q /\ worker.copy[j] = durable[j]
      /\ r # None /\ durable[j].completion = r
  BY <1>1, <1>4, <1>5 DEF IInv, Placed, Held
<1>8. EntryOK(v, j, durable[j]) /\ JobOK(v, j, health[j], durable[j])
  BY <1>1, <1>6 DEF IInv, Files, Entries, Healthy
<1>9. r.job = j /\ r.work = q.work /\ r.outcome # "cancelled"
  BY <1>7, <1>8 DEF EntryOK, Answers
<1>10. PICK x \in Result :
         /\ completions' = Append(completions, x) /\ x.job = j /\ x.work = q.work
         /\ \/ Persisted /\ UNCHANGED durable /\ (x = r \/ (stop /\ x.outcome = "cancelled"))
            \/ /\ PersistFailed /\ (x.outcome = "retryable" \/ (stop /\ x.outcome = "cancelled"))
               /\ durable' = [durable EXCEPT ![j] =
                    [work |-> durable[j].work, cursor |-> durable[j].cursor,
                     request |-> durable[j].request, completion |-> None]]
  BY <1>1, <1>9, TypedRecordResult DEF IInv, Placed
<1>11. PICK e : e = [work |-> durable[j].work, cursor |-> durable[j].cursor,
                     request |-> durable[j].request, completion |-> None]
  OBVIOUS
<1>12. /\ e.work = q.work /\ e.cursor = durable[j].cursor /\ e.request = q /\ e.completion = None
  BY <1>7, <1>11
<1>13. /\ durable'[j] = durable[j] \/ durable'[j] = e
       /\ \A k \in Jobs \ {j} : durable'[k] = durable[k]
       /\ disk' \in {disk, worker.copy}
  BY <1>6, <1>10, <1>11 DEF Typed, FilesTyped, Persisted, PersistFailed
<1>14. EntryOK(v, j, e) /\ JobOK(v, j, health[j], e)
  <2>1. EntryOK(v, j, e)
    BY <1>6, <1>7, <1>8, <1>12 DEF EntryOK
  <2>2. JobOK(v, j, health[j], e)
    BY <1>6, <1>7, <1>8, <1>12 DEF JobOK
  <2> QED BY <2>1, <2>2
<1>15. EntryOK(v, j, durable'[j]) /\ JobOK(v, j, health[j], durable'[j])
  BY <1>8, <1>13, <1>14
<1>16. Entries' /\ Healthy'
  BY <1>1, <1>2, <1>3, <1>5, <1>13, <1>15 DEF IInv, Files, Entries, Healthy
<1>17. PICK s, t : s = completions /\ t = completions'
  OBVIOUS
<1>18. /\ t \in Seq(Result) /\ Len(s) \in Nat /\ Len(t) = Len(s) + 1
       /\ \A i \in 1 .. Len(s) : i \in 1 .. Len(t) /\ t[i] = s[i]
       /\ Len(s) + 1 \in 1 .. Len(t) /\ t[Len(s) + 1] = x
       /\ \A i \in 1 .. Len(t) : \/ i \in 1 .. Len(s) /\ t[i] = s[i]
                                 \/ i = Len(s) + 1 /\ t[i] = x
  <2>1. s \in Seq(Result) /\ t = Append(s, x)
    BY <1>10, <1>17 DEF Typed, GameTyped
  <2> QED BY <2>1, Appended
<1>19. Ending'
  <2>1. ASSUME NEW k \in Jobs, Gone(v, health[k].work)
        PROVE  \E i \in 1 .. Len(t) : t[i].job = k /\ t[i].outcome \in Retired
    <3>1. PICK i \in 1 .. Len(s) : s[i].job = k /\ s[i].outcome \in Retired
      BY <1>1, <1>17, <2>1 DEF IInv, Files, Ending
    <3> QED BY <1>18, <3>1
  <2> QED BY <1>2, <1>3, <1>17, <2>1 DEF Ending
<1>20. \A i \in 1 .. Len(queue) : queue[i].job \in Jobs \ {j}
  <2>1. \A i \in 1 .. Len(queue) : queue[i] \in Request
    BY DEF Typed, GameTyped
  <2> QED BY <1>1, <1>5, <2>1 DEF IInv, Placed, Alone, Request
<1>21. \A i \in 1 .. Len(s) : s[i].job \in Jobs \ {j}
  <2>1. \A i \in 1 .. Len(s) : s[i] \in Result
    BY <1>17 DEF Typed, GameTyped
  <2>2. \A i \in 1 .. Len(s) : s[i].job \in Jobs
    BY <2>1 DEF Result
  <2> QED BY <1>1, <1>5, <1>17, <2>2 DEF IInv, Placed, Alone
<1>22. Queued'
  BY <1>1, <1>2, <1>3, <1>13, <1>20 DEF IInv, Placed, Queued
<1>23. ASSUME NEW i \in 1 .. Len(t)
       PROVE  /\ HandedOK(health[t[i].job], durable'[t[i].job], t[i])
              /\ t[i].outcome = "cancelled" => stop
              /\ Moves(t[i]) => t[i] = durable'[t[i].job].completion
                                /\ disk'[t[i].job] = durable'[t[i].job]
  <2>1. CASE i \in 1 .. Len(s)
    <3>1. PICK y, k : y = s[i] /\ k = s[i].job
      OBVIOUS
    <3>2. k \in Jobs \ {j} /\ t[i] = y /\ y.job = k
      BY <1>18, <1>21, <2>1, <3>1
    <3>3. /\ HandedOK(health[k], durable[k], y) /\ (y.outcome = "cancelled" => stop)
          /\ Moves(y) => y = durable[k].completion /\ disk[k] = durable[k] /\ worker.copy[k] = durable[k]
      BY <1>5, <1>17, <2>1, <3>1 DEF IInv, Placed, Handed
    <3>4. durable'[k] = durable[k] /\ disk'[k] \in {disk[k], worker.copy[k]}
      BY <1>13, <3>2
    <3> QED BY <3>2, <3>3, <3>4
  <2>2. CASE t[i] = x
    <3>1. durable'[j].work = q.work /\ durable'[j].request = q
      BY <1>7, <1>12, <1>13
    <3>2. HandedOK(health[j], durable'[j], x)
      BY <1>6, <1>7, <1>10, <3>1 DEF HandedOK
    <3>3. x.outcome = "cancelled" => stop
      BY <1>9, <1>10
    <3>4. ASSUME Moves(x) PROVE x = durable'[j].completion /\ disk'[j] = durable'[j]
      <4>1. x.outcome # "cancelled" /\ x.outcome # "retryable"
        BY <3>4 DEF Moves, Retired
      <4>2. x = r /\ durable' = durable /\ disk' = worker.copy
        BY <1>10, <4>1 DEF Persisted
      <4> QED BY <1>7, <4>2
    <3> QED BY <1>10, <2>2, <3>2, <3>3, <3>4
  <2> QED BY <1>18, <2>1, <2>2
<1>24. Handed'
  BY <1>2, <1>5, <1>17, <1>23 DEF Handed
<1>25. Held'
  BY <1>4, <1>5 DEF Held
<1>26. Alone'
  <2>1. ASSUME NEW i \in 1 .. Len(t), NEW k \in 1 .. Len(t), t[i].job = t[k].job PROVE i = k
    <3>1. CASE i \in 1 .. Len(s) /\ k \in 1 .. Len(s)
      BY <1>17, <1>18, <2>1, <3>1 DEF IInv, Placed, Alone
    <3>2. CASE i \notin 1 .. Len(s) \/ k \notin 1 .. Len(s)
      BY <1>10, <1>18, <1>21, <2>1, <3>2
    <3> QED BY <3>1, <3>2
  <2>2. ASSUME NEW i \in 1 .. Len(queue), NEW k \in 1 .. Len(t) PROVE queue[i].job # t[k].job
    <3>1. CASE k \in 1 .. Len(s)
      BY <1>17, <1>18, <3>1 DEF IInv, Placed, Alone
    <3>2. CASE t[k] = x
      BY <1>10, <1>20, <3>2
    <3> QED BY <1>18, <3>1, <3>2
  <2>3. \A i, k \in 1 .. Len(queue) : queue[i].job = queue[k].job => i = k
    BY DEF IInv, Placed, Alone
  <2> QED BY <1>2, <1>5, <1>17, <2>1, <2>2, <2>3 DEF Alone
<1>27. Present'
  <2>1. ASSUME ~stop, NEW k \in Jobs, health[k].active, \A i \in 1 .. Len(queue) : queue[i].job # k
        PROVE  \E i \in 1 .. Len(t) : t[i].job = k
    <3>1. CASE k = j
      BY <1>10, <1>18, <3>1
    <3>2. CASE k # j
      <4>1. PICK i \in 1 .. Len(s) : s[i].job = k
        BY <1>1, <1>17, <2>1, <3>2 DEF IInv, Placed, Present
      <4> QED BY <1>18, <4>1
    <3> QED BY <3>1, <3>2
  <2> QED BY <1>2, <1>17, <2>1 DEF Present
<1>28. Runs'
  <2>0. \A k \in Jobs : durable'[k].work = durable[k].work
    BY <1>7, <1>12, <1>13
  <2>1. \A k \in Jobs : WorksOf(k)' \subseteq WorksOf(k)
    BY <1>2, <1>4, <1>13, <2>0 DEF WorksOf
  <2>2. \A w \in 1 .. MaxWorks : Carried(w) => Carried(w)'
    BY <1>5, <1>13, <2>0 DEF Carried
  <2> QED BY <1>2, <2>1, <2>2, RunsKept DEF IInv
<1>29. CatalogOK'
  BY <1>2 DEF IInv, CatalogOK
<1> QED BY <1>16, <1>19, <1>22, <1>24, <1>25, <1>26, <1>27, <1>28, <1>29 DEF IInv, Files, Placed

-----------------------------------------------------------------------------
(***************************************************************************)
(* A new process takes up what the state file says.                        *)
(***************************************************************************)
LEMMA BootStep ==
  ASSUME Typed, IInv, Boot
  PROVE  IInv'
<1>1. PICK v, d, Q, C : v = View /\ d = durable' /\ Q = queue' /\ C = completions'
  OBVIOUS
<1>2. UNCHANGED <<delivered, works, marker, timer, applied, disk>>
  BY DEF Boot, database
<1>3. View' = v
  BY <1>1, <1>2, ViewKept
<1>4. /\ d = Loaded /\ d[Catalog] = Idle
      /\ \A j \in Jobs \ {Catalog} : d[j] = disk[j]
      /\ \A j \in Jobs : health'[j] = Restored(j)
  BY <1>1, BootFacts
<1>5. PICK a : Lists(C, a, {j \in Jobs : d[j].completion # None}, [j \in Jobs |-> d[j].completion])
  BY <1>1, BootFacts
<1>6. PICK b : Lists(Q, b, {j \in Jobs : d[j].completion = None /\ d[j].request # None},
                     [j \in Jobs |-> d[j].request])
  BY <1>1, BootFacts
<1>7. /\ worker'.stage = "waiting" /\ worker'.request = None /\ worker'.copy = d
      /\ refresh' = NoPages /\ catalog' = <<>>
  BY <1>1 DEF Boot, Waiting, At
<1>8. ~Writing' /\ ~Holding'
  BY <1>7 DEF Writing, Holding
<1>9. ~Gone(v, NoWork)
  <2>1. \A r \in delivered : r.work # NoWork
    BY Constants DEF Typed, CountsTyped, Receipts, NoWork
  <2> QED BY <1>1, <2>1 DEF Gone, View
<1>10. EntryOK(v, Catalog, Idle)
  BY <1>9, IdleTyped DEF EntryOK
<1>11. ASSUME NEW j \in Jobs PROVE EntryOK(v, j, d[j])
  <2>1. CASE j # Catalog
    BY <1>1, <1>4, <2>1 DEF IInv, Files, Entries
  <2> QED BY <1>4, <1>10, <2>1
<1>12. Entries'
  BY <1>1, <1>2, <1>3, <1>8, <1>11 DEF IInv, Files, Entries
<1>13. ASSUME NEW j \in Jobs
       PROVE  /\ health'[j].work = d[j].work /\ health'[j].cursor = d[j].cursor
              /\ health'[j].active <=> (d[j].request # None \/ d[j].completion # None)
  <2>1. PICK p, n : p = IsPending(d[j]) /\ n = (d[j].work # NoWork)
    OBVIOUS
  <2>2. health'[j] = [work |-> d[j].work, cursor |-> d[j].cursor, active |-> p, due |-> n]
    BY <1>1, <1>4, <2>1, Zenon DEF Restored
  <2>3. health'[j].work = d[j].work /\ health'[j].cursor = d[j].cursor /\ health'[j].active = p
    BY <2>2
  <2>4. p = (d[j].request # None \/ d[j].completion # None)
    BY <2>1 DEF IsPending
  <2> QED BY <2>3, <2>4
<1>14. ASSUME NEW j \in Jobs PROVE JobOK(v, j, health'[j], d[j])
  BY <1>11, <1>13, IdleTyped DEF JobOK, EntryOK
<1>15. Healthy'
  BY <1>1, <1>3, <1>14 DEF Healthy
<1>16. /\ Len(C) = Len(a) /\ Len(a) \in Nat
       /\ \A i \in 1 .. Len(C) : a[i] \in Jobs /\ d[a[i]].completion # None /\ C[i] = d[a[i]].completion
       /\ \A j \in Jobs : d[j].completion # None => \E i \in 1 .. Len(C) : a[i] = j
       /\ \A i, k \in 1 .. Len(C) : a[i] = a[k] => i = k
  BY <1>5 DEF Lists
<1>17. /\ Len(Q) = Len(b) /\ Len(b) \in Nat
       /\ \A i \in 1 .. Len(Q) : /\ b[i] \in Jobs /\ d[b[i]].completion = None
                                 /\ d[b[i]].request # None /\ Q[i] = d[b[i]].request
       /\ \A j \in Jobs : d[j].completion = None /\ d[j].request # None =>
            \E i \in 1 .. Len(Q) : b[i] = j
       /\ \A i, k \in 1 .. Len(Q) : b[i] = b[k] => i = k
  BY <1>6 DEF Lists
<1>18. \A i \in 1 .. Len(C) : C[i].job = a[i]
  BY <1>11, <1>16 DEF EntryOK, Answers
<1>19. \A i \in 1 .. Len(Q) : Q[i].job = b[i]
  BY <1>11, <1>17 DEF EntryOK, Asks
<1>20. Ending'
  <2>1. ASSUME NEW j \in Jobs, Gone(v, health'[j].work)
        PROVE  \E i \in 1 .. Len(C) : C[i].job = j /\ C[i].outcome \in Retired
    <3>1. d[j].completion # None /\ d[j].completion.outcome \in Retired
      BY <1>11, <1>13, <2>1 DEF EntryOK
    <3>2. PICK i \in 1 .. Len(C) : a[i] = j
      BY <1>16, <3>1
    <3> QED BY <1>16, <1>18, <3>1, <3>2
  <2> QED BY <1>1, <1>3, <2>1 DEF Ending
<1>21. Queued'
  <2>1. ASSUME NEW i \in 1 .. Len(Q) PROVE QueuedOK(v, health'[Q[i].job], d[Q[i].job], Q[i])
    <3>1. PICK j : j = b[i]
      OBVIOUS
    <3>2. j \in Jobs /\ d[j].completion = None /\ d[j].request # None /\ Q[i] = d[j].request /\ Q[i].job = j
      BY <1>17, <1>19, <3>1
    <3>3. Asks(v, j, d[j].work, d[j].cursor, Q[i])
      BY <1>11, <3>2 DEF EntryOK
    <3> QED BY <1>13, <3>2, <3>3 DEF QueuedOK
  <2> QED BY <1>1, <1>3, <2>1 DEF Queued
<1>22. Handed'
  <2>1. ASSUME NEW i \in 1 .. Len(C)
        PROVE  /\ HandedOK(health'[C[i].job], d[C[i].job], C[i])
               /\ C[i].outcome # "cancelled"
               /\ C[i] = d[C[i].job].completion /\ disk'[C[i].job] = d[C[i].job]
    <3>1. PICK j : j = a[i]
      OBVIOUS
    <3>2. j \in Jobs /\ d[j].completion # None /\ C[i] = d[j].completion /\ C[i].job = j
      BY <1>16, <1>18, <3>1
    <3>3. d[j].request # None /\ Answers(v, j, d[j].work, d[j].cursor, C[i])
      BY <1>11, <3>2 DEF EntryOK
    <3>4. C[i].work = d[j].work /\ C[i].outcome # "cancelled"
      BY <3>3 DEF Answers
    <3>5. j # Catalog
      BY <1>4, <3>2, IdleTyped
    <3> QED BY <1>2, <1>4, <1>13, <3>2, <3>3, <3>4, <3>5 DEF HandedOK
  <2> QED BY <1>1, <1>8, <2>1 DEF Handed
<1>23. Held'
  BY <1>7, <1>8 DEF Held
<1>24. Alone'
  <2>1. \A i, k \in 1 .. Len(Q) : Q[i].job = Q[k].job => i = k
    BY <1>17, <1>19
  <2>2. \A i, k \in 1 .. Len(C) : C[i].job = C[k].job => i = k
    BY <1>16, <1>18
  <2>3. \A i \in 1 .. Len(Q), k \in 1 .. Len(C) : Q[i].job # C[k].job
    BY <1>16, <1>17, <1>18, <1>19
  <2> QED BY <1>1, <1>8, <2>1, <2>2, <2>3 DEF Alone
<1>25. Present'
  <2>1. ASSUME NEW j \in Jobs, health'[j].active
        PROVE  \/ \E i \in 1 .. Len(Q) : Q[i].job = j
               \/ \E i \in 1 .. Len(C) : C[i].job = j
    BY <1>13, <1>16, <1>17, <1>18, <1>19, <2>1
  <2> QED BY <1>1, <2>1 DEF Present
<1>26. \A j \in Jobs : d[j].work \in {NoWork, disk[j].work}
  BY <1>4, IdleTyped
<1>27. Runs'
  <2>1. Distinct'
    <3>1. \A j \in Jobs : WorksOf(j)' \subseteq WorksOf(j) \cup {NoWork}
      BY <1>1, <1>2, <1>7, <1>13, <1>26 DEF WorksOf
    <3>2. NoWork \in 0 .. works
      BY Constants DEF Typed, GameTyped, NoWork
    <3> QED BY <1>2, <3>1, <3>2 DEF IInv, Runs, Distinct
  <2>2. Fresh' /\ Ended'
    BY <1>1, <1>2, <1>3 DEF IInv, Runs, Fresh, Ended
  <2>3. \A w \in 1 .. MaxWorks : Carried(w) => Carried(w)'
    BY <1>1, <1>2, <1>4, <1>8 DEF Carried
  <2>4. Touched'
    BY <1>1, <1>3, <2>3 DEF IInv, Runs, Touched
  <2> QED BY <2>1, <2>2, <2>4 DEF Runs
<1>28. CatalogOK'
  <2>1. health'[Catalog].cursor = 0
    BY <1>4, <1>13, IdleTyped, Constants
  <2>2. PICK e : e = <<>>
    OBVIOUS
  <2>3. First(0) = e
    BY <2>2 DEF First
  <2>4. ~refresh'.invalid /\ refresh'.zones = e /\ catalog' = e
    BY <1>7, <2>2 DEF NoPages
  <2> QED BY <2>1, <2>2, <2>3, <2>4 DEF CatalogOK
<1> QED BY <1>12, <1>15, <1>20, <1>21, <1>22, <1>23, <1>24, <1>25, <1>27, <1>28 DEF IInv, Files, Placed

-----------------------------------------------------------------------------
(***************************************************************************)
(* A pulse changes no zone: works are handed out and results delivered.    *)
(***************************************************************************)
Grows(u, v) ==
  /\ v.applied = u.applied /\ v.marker = u.marker
  /\ u.works \in Nat /\ v.works \in Nat /\ u.works <= v.works
  /\ u.delivered \subseteq v.delivered

LEMMA GrowingKeeps ==
  ASSUME NEW u, NEW v, Grows(u, v)
  PROVE  /\ \A x : Gone(u, x) => Gone(v, x)
         /\ \A x : (Untouched(v, x) <=> Untouched(u, x)) /\ (Full(v, x) <=> Full(u, x))
         /\ \A j, x, c : Run(u, j, x, c) => Run(v, j, x, c)
         /\ \A j, x, c, q : Asks(u, j, x, c, q) => Asks(v, j, x, c, q)
         /\ \A j, x, c, r : Answers(u, j, x, c, r) => Answers(v, j, x, c, r)
         /\ \A j, e : /\ EntryOK(u, j, e)
                      /\ Gone(v, e.work) => Gone(u, e.work) \/ (e.completion # None /\ e.completion.outcome \in Retired)
                      => EntryOK(v, j, e)
         /\ \A j, h, k, e : JobOK(u, j, h, e) /\ Alike(k, h) => JobOK(v, j, k, e)
         /\ \A h, k, e, q : QueuedOK(u, h, e, q) /\ Alike(k, h) => QueuedOK(v, k, e, q)
<1>1. \A x : Gone(u, x) => Gone(v, x)
  BY DEF Gone, Grows
<1>2. \A x : (Untouched(v, x) <=> Untouched(u, x)) /\ (Full(v, x) <=> Full(u, x))
  BY DEF Untouched, Full, Grows
<1>3. ASSUME NEW j, NEW x, NEW c, Run(u, j, x, c) PROVE Run(v, j, x, c)
  <2>1. Reached(v, x, c)
    BY <1>3 DEF Run, Reached, Grows
  <2>2. j # Catalog => Progress(v, j, x, c)
    BY <1>3 DEF Run, Progress, Grows
  <2>3. x \in 1 .. v.works
    BY <1>3 DEF Run, Grows
  <2> QED BY <1>2, <1>3, <2>1, <2>2, <2>3 DEF Run
<1>4. ASSUME NEW j, NEW x, NEW c, NEW q, Asks(u, j, x, c, q) PROVE Asks(v, j, x, c, q)
  BY <1>2, <1>4 DEF Asks
<1>5. ASSUME NEW j, NEW x, NEW c, NEW r, Answers(u, j, x, c, r) PROVE Answers(v, j, x, c, r)
  BY <1>2, <1>5 DEF Answers, Grows
<1>6. ASSUME NEW j, NEW e, EntryOK(u, j, e),
             Gone(v, e.work) => Gone(u, e.work) \/ (e.completion # None /\ e.completion.outcome \in Retired)
      PROVE  EntryOK(v, j, e)
  BY <1>3, <1>4, <1>5, <1>6 DEF EntryOK
<1>7. ASSUME NEW j, NEW h, NEW k, NEW e, JobOK(u, j, h, e), Alike(k, h) PROVE JobOK(v, j, k, e)
  BY <1>3, <1>7 DEF JobOK, Alike
<1>8. ASSUME NEW h, NEW k, NEW e, NEW q, QueuedOK(u, h, e, q), Alike(k, h) PROVE QueuedOK(v, k, e, q)
  BY <1>4, <1>8 DEF QueuedOK, Alike
<1> QED BY <1>1, <1>2, <1>3, <1>4, <1>5, <1>6, <1>7, <1>8

\* One result, applied to its job
LEMMA SettledOne ==
  ASSUME NEW u, NEW v, Grows(u, v), NEW j \in Jobs, NEW h \in Job, NEW k \in Job, Alike(k, h),
         NEW e \in Entry, NEW r \in Result, EntryOK(u, j, e), JobOK(u, j, h, e), HandedOK(h, e, r),
         r.outcome # "cancelled", Moves(r) => e.completion = r /\ Receipt(r) \in v.delivered,
         r.outcome \notin Retired => ~Gone(v, h.work), ~Gone(v, NoWork),
         NEW h2, h2 = Settled(k, r), NEW e2, e2 = Remembered(e, h2, r)
  PROVE  /\ EntryOK(v, j, e2) /\ JobOK(v, j, h2, e2) /\ ~Gone(v, h2.work) /\ ~h2.active
         /\ r.outcome \in Retired => h2.work = NoWork /\ e2.work = NoWork /\ h2.cursor = 0
         /\ r.outcome \notin Retired => h2.work = h.work /\ e2.work = e.work
         /\ r.outcome = "more" => h2.cursor = r.next
         /\ r.outcome = "retryable" => h2.cursor = h.cursor
<1>1. /\ h2 \in Job /\ ~h2.active
      /\ r.outcome \in Retired => h2.work = NoWork /\ h2.cursor = 0
      /\ r.outcome \notin Retired => h2.work = k.work
      /\ r.outcome = "more" => h2.cursor = r.next
      /\ r.outcome \notin Retired \cup {"more"} => h2.cursor = k.cursor
  BY SettledJob
<1>2. k.work = h.work /\ k.cursor = h.cursor
  BY DEF Alike
<1>3. r.outcome \in {"complete", "more", "retryable", "permanent"}
  BY DEF Result, Outcomes
<1>4. /\ h.work = e.work /\ e.request # None /\ r.work = h.work /\ h.work # NoWork
      /\ e.cursor = h.cursor
  BY NotNone DEF HandedOK, JobOK
<1>5. Run(v, j, h.work, h.cursor) /\ Asks(v, j, h.work, h.cursor, e.request)
  BY <1>4, GrowingKeeps DEF JobOK, EntryOK
<1>6. /\ e2.work = h2.work /\ e2.cursor = h2.cursor /\ e2.completion = None
      /\ e2 = [work |-> h2.work, cursor |-> h2.cursor, completion |-> None, request |-> e2.request]
      /\ e2.request = IF r.outcome \in {"retryable", "cancelled"} THEN e.request ELSE None
  BY DEF Remembered
<1>7. CASE r.outcome \in Retired
  <2>1. e2.request = None
    BY <1>6, <1>7 DEF Retired
  <2>2. e2 = Idle
    BY <1>1, <1>6, <1>7, <2>1 DEF Idle
  <2>3. EntryOK(v, j, e2)
    BY <2>2, IdleTyped DEF EntryOK
  <2>4. JobOK(v, j, h2, e2)
    BY <1>1, <1>6, <1>7 DEF JobOK
  <2> QED BY <1>1, <1>6, <1>7, <2>3, <2>4 DEF Retired
<1>8. CASE r.outcome = "more"
  <2>1. r.outcome \notin Retired /\ Moves(r)
    BY <1>8 DEF Retired, Moves
  <2>2. h2.work = h.work /\ h2.cursor = r.next /\ e2.request = None
    BY <1>1, <1>2, <1>6, <1>8, <2>1
  <2>3. e.completion = r /\ Receipt(r) \in v.delivered /\ r # None
    BY <2>1, NotNone
  <2>4. Answers(v, j, h.work, h.cursor, r)
    BY <1>4, <2>3, GrowingKeeps DEF EntryOK
  <2>5. /\ r.next = h.cursor + Budget /\ (j # Catalog => v.marker[j] = <<h.work, h.cursor>>)
    BY <1>8, <2>4 DEF Answers
  <2>6. h.cursor \in Nat /\ r.next # 0 /\ r.next # h.cursor
    BY <2>5, Constants DEF Job
  <2>7. Reached(v, h.work, r.next)
    <3>1. Receipt(r).work = h.work /\ Receipt(r).outcome = "more" /\ Receipt(r).next = r.next
      BY <1>4, <1>8 DEF Receipt
    <3> QED BY <2>3, <3>1 DEF Reached
  <2>8. ASSUME j # Catalog PROVE Progress(v, j, h.work, r.next)
    <3>1. PICK m : m = v.marker[j]
      OBVIOUS
    <3>2. m = <<h.work, h.cursor>> /\ m # <<h.work, r.next>>
      BY <2>5, <2>6, <2>8, <3>1
    <3>3. ASSUME NEW z \in 1 .. Zones
          PROVE  v.applied[h.work][z] = IF z <= r.next THEN 1 ELSE 0
      <4>1. v.applied[h.work][z] =
              IF z <= h.cursor \/ (z <= h.cursor + Budget /\ m = <<h.work, h.cursor>>) THEN 1 ELSE 0
        BY <1>5, <2>8, <3>1 DEF Run, Progress
      <4>2. z <= h.cursor => z <= h.cursor + Budget
        BY <2>6, Constants
      <4> QED BY <2>5, <3>2, <4>1, <4>2
    <3> QED BY <3>1, <3>2, <3>3 DEF Progress
  <2>9. Run(v, j, h.work, r.next)
    BY <1>5, <2>7, <2>8 DEF Run
  <2>10. EntryOK(v, j, e2)
    BY <1>4, <1>6, <2>1, <2>2, <2>6, <2>9 DEF EntryOK
  <2>11. JobOK(v, j, h2, e2)
    BY <1>1, <1>4, <1>6, <2>2, <2>9 DEF JobOK
  <2> QED BY <1>1, <1>4, <1>6, <1>8, <2>1, <2>2, <2>10, <2>11
<1>9. CASE r.outcome = "retryable"
  <2>1. r.outcome \notin Retired \cup {"more"} /\ r.outcome # "more"
    BY <1>9 DEF Retired
  <2>2. h2.work = h.work /\ h2.cursor = h.cursor /\ e2.request = e.request
    BY <1>1, <1>2, <1>6, <1>9, <2>1
  <2>3. EntryOK(v, j, e2)
    BY <1>4, <1>5, <1>6, <2>1, <2>2 DEF EntryOK
  <2>4. JobOK(v, j, h2, e2)
    BY <1>1, <1>4, <1>5, <1>6, <2>2 DEF JobOK
  <2> QED BY <1>1, <1>4, <1>6, <2>1, <2>2, <2>3, <2>4
<1> QED BY <1>3, <1>7, <1>8, <1>9 DEF Retired

-----------------------------------------------------------------------------
(***************************************************************************)
(* A pulse, first half: the results are applied, which makes s of b, and   *)
(* delivered, which makes v of the view.                                   *)
(***************************************************************************)
Drains(v, b, s) ==
  /\ ~stop /\ b \in States /\ s \in States /\ Settles(b, s, Len(completions))
  /\ b.durable = durable /\ b.refresh = refresh /\ b.catalog = catalog
  /\ \A j \in Jobs : Alike(b.health[j], health[j])
  /\ Grows(View, v)
  /\ \A i \in 1 .. Len(completions) : Moves(completions[i]) => Receipt(completions[i]) \in v.delivered
  /\ \A x \in v.delivered : x \in delivered \/ \E i \in 1 .. Len(completions) :
       Moves(completions[i]) /\ x = Receipt(completions[i])

\* A result of a scheduler that runs is that of its job's run.
LEMMA ResultFacts ==
  ASSUME Typed, IInv, ~stop, NEW i \in 1 .. Len(completions), NEW r, r = completions[i]
  PROVE  /\ r \in Result /\ r.job \in Jobs /\ r.work # NoWork /\ r.outcome # "cancelled"
         /\ HandedOK(health[r.job], durable[r.job], r)
         /\ health[r.job].work = r.work /\ durable[r.job].work = r.work
         /\ Moves(r) => /\ r = durable[r.job].completion /\ disk[r.job] = durable[r.job]
                        /\ Writing => worker.copy[r.job] = durable[r.job]
         /\ \A k \in 1 .. Len(completions) : completions[k].job = r.job => k = i
<1>1. r \in Result
  BY DEF Typed, GameTyped
<1>2. r.job \in Jobs /\ r.work # NoWork
  BY <1>1, NotNone DEF Result
<1>3. /\ HandedOK(health[r.job], durable[r.job], r)
      /\ r.outcome = "cancelled" => stop
      /\ Moves(r) => /\ r = durable[r.job].completion /\ disk[r.job] = durable[r.job]
                     /\ Writing => worker.copy[r.job] = durable[r.job]
  BY DEF IInv, Placed, Handed
<1>4. \A k \in 1 .. Len(completions) : completions[k].job = r.job => k = i
  BY DEF IInv, Placed, Alone
<1>5. health[r.job].work = r.work /\ durable[r.job].work = r.work
  BY <1>3 DEF HandedOK
<1> QED BY <1>1, <1>2, <1>3, <1>4, <1>5

\* The runs that end now are those a result says so of.
LEMMA NewlyGone ==
  ASSUME Typed, IInv, NEW v, NEW b, NEW s, Drains(v, b, s)
  PROVE  /\ ~Gone(v, NoWork)
         /\ \A j \in Jobs : \A x \in WorksOf(j) : Gone(v, x) =>
              \/ Gone(View, x)
              \/ \E i \in 1 .. Len(completions) :
                   completions[i].job = j /\ completions[i].work = x /\ completions[i].outcome \in Retired
<1>1. ASSUME NEW x, Gone(v, x)
      PROVE  \/ Gone(View, x)
             \/ \E i \in 1 .. Len(completions) : completions[i].work = x /\ completions[i].outcome \in Retired
  <2>1. PICK y \in v.delivered : y.work = x /\ y.outcome \in Retired
    BY <1>1 DEF Gone
  <2>2. CASE y \in delivered
    BY <2>1, <2>2 DEF Gone, View
  <2>3. CASE \E i \in 1 .. Len(completions) : Moves(completions[i]) /\ y = Receipt(completions[i])
    BY <2>1, <2>3 DEF Receipt
  <2> QED BY <2>2, <2>3 DEF Drains
<1>2. ~stop
  BY DEF Drains
<1>3. ~Gone(View, NoWork)
  <2>1. \A y \in delivered : y.work \in 1 .. MaxWorks
    BY DEF Typed, CountsTyped, Receipts
  <2> QED BY <2>1, Constants DEF Gone, View, NoWork
<1>4. ~Gone(v, NoWork)
  BY <1>1, <1>2, <1>3, ResultFacts
<1>5. ASSUME NEW j \in Jobs, NEW x \in WorksOf(j), NEW i \in 1 .. Len(completions),
             completions[i].work = x, x # NoWork
      PROVE  completions[i].job = j
  <2>1. PICK r : r = completions[i]
    OBVIOUS
  <2>2. r.job \in Jobs /\ health[r.job].work = x
    BY <1>2, <1>5, <2>1, ResultFacts
  <2>3. x \in WorksOf(r.job)
    BY <2>2 DEF WorksOf
  <2>4. r.job = j
    BY <1>5, <2>2, <2>3 DEF IInv, Runs, Distinct
  <2> QED BY <2>1, <2>4
<1> QED BY <1>1, <1>4, <1>5

\* What the results make of a job and of what is remembered of it
LEMMA DrainedJob ==
  ASSUME Typed, IInv, NEW v, NEW b, NEW s, Drains(v, b, s), NEW j \in Jobs
  PROVE  /\ EntryOK(v, j, s.durable[j]) /\ JobOK(v, j, s.health[j], s.durable[j])
         /\ ~Gone(v, s.health[j].work)
         /\ s.health[j].work \in {NoWork, health[j].work}
         /\ s.durable[j].work \in {NoWork, durable[j].work}
         /\ (\A i \in 1 .. Len(completions) : completions[i].job # j) =>
              Alike(s.health[j], health[j]) /\ s.durable[j] = durable[j]
         /\ (\E i \in 1 .. Len(completions) : completions[i].job = j) => ~s.health[j].active
         /\ \A i \in 1 .. Len(completions) : completions[i].job = j =>
              /\ completions[i].outcome \in Retired => s.health[j].cursor = 0
              /\ completions[i].outcome \notin Retired => s.durable[j].work = durable[j].work
              /\ completions[i].outcome = "more" => s.health[j].cursor = completions[i].next
              /\ completions[i].outcome = "retryable" => s.health[j].cursor = health[j].cursor
<1>1. PICK u, n, h, e, k, h2, e2 :
        /\ u = View /\ n = Len(completions) /\ h = health[j] /\ e = durable[j] /\ k = b.health[j]
        /\ h2 = s.health[j] /\ e2 = s.durable[j]
  OBVIOUS
<1>2. /\ ~stop /\ Settles(b, s, n) /\ b.durable[j] = e /\ Alike(k, h) /\ Grows(u, v)
      /\ b \in States
  BY <1>1 DEF Drains
<1>3. h \in Job /\ e \in Entry /\ k \in Job
  BY <1>1, <1>2 DEF Typed, GameTyped, FilesTyped, States
<1>4. EntryOK(u, j, e) /\ JobOK(u, j, h, e)
  BY <1>1 DEF IInv, Files, Entries, Healthy
<1>5. h.work \in WorksOf(j) /\ e.work \in WorksOf(j)
  BY <1>1 DEF WorksOf
<1>6. /\ ~Gone(v, NoWork)
      /\ \A x \in WorksOf(j) : Gone(v, x) =>
           Gone(u, x) \/ \E i \in 1 .. n : completions[i].job = j /\ completions[i].outcome \in Retired
  BY <1>1, NewlyGone
<1>7. Gone(u, h.work) => \E i \in 1 .. n : completions[i].job = j /\ completions[i].outcome \in Retired
  BY <1>1 DEF IInv, Files, Ending
<1>8. CASE \A i \in 1 .. n : completions[i].job # j
  <2>1. h2 = k /\ e2 = e
    BY <1>1, <1>2, <1>8 DEF Settles
  <2>2. ~Gone(v, h.work)
    BY <1>5, <1>6, <1>7, <1>8
  <2>3. ~Gone(v, e.work)
    BY <1>4, <1>6, <2>2 DEF JobOK
  <2>4. EntryOK(v, j, e) /\ JobOK(v, j, k, e)
    BY <1>2, <1>4, <2>3, GrowingKeeps
  <2>5. h2.work = h.work /\ Alike(h2, h)
    BY <1>2, <2>1 DEF Alike
  <2> QED BY <1>1, <1>8, <2>1, <2>2, <2>4, <2>5
<1>9. CASE \E i \in 1 .. n : completions[i].job = j
  <2>1. PICK i \in 1 .. n : completions[i].job = j
    BY <1>9
  <2>2. PICK r : r = completions[i]
    OBVIOUS
  <2>3. /\ r \in Result /\ r.outcome # "cancelled" /\ HandedOK(h, e, r) /\ r.job = j
        /\ Moves(r) => r = e.completion
        /\ \A m \in 1 .. n : completions[m].job = j => m = i
    BY <1>1, <1>2, <2>1, <2>2, ResultFacts
  <2>4. Moves(r) => Receipt(r) \in v.delivered
    BY <1>1, <2>1, <2>2 DEF Drains
  <2>5. r.outcome \notin Retired => ~Gone(v, h.work)
    BY <1>5, <1>6, <1>7, <2>2, <2>3
  <2>6. h2 = Settled(k, r) /\ e2 = Remembered(e, h2, r)
    BY <1>1, <1>2, <2>1, <2>2 DEF Settles
  <2>7. /\ EntryOK(v, j, e2) /\ JobOK(v, j, h2, e2) /\ ~Gone(v, h2.work) /\ ~h2.active
        /\ r.outcome \in Retired => h2.work = NoWork /\ e2.work = NoWork /\ h2.cursor = 0
        /\ r.outcome \notin Retired => h2.work = h.work /\ e2.work = e.work
        /\ r.outcome = "more" => h2.cursor = r.next
        /\ r.outcome = "retryable" => h2.cursor = h.cursor
    BY <1>2, <1>3, <1>4, <1>6, <2>3, <2>4, <2>5, <2>6, SettledOne
  <2>8. \A m \in 1 .. n : completions[m].job = j => completions[m] = r
    BY <2>2, <2>3
  <2> QED BY <1>1, <2>1, <2>7, <2>8
<1> QED BY <1>8, <1>9

\* What is on disk and in the copy being written still stands.
LEMMA DrainedFiles ==
  ASSUME Typed, IInv, NEW v, NEW b, NEW s, Drains(v, b, s), NEW j \in Jobs
  PROVE  EntryOK(v, j, disk[j]) /\ (Writing => EntryOK(v, j, worker.copy[j]))
<1>1. PICK u, n : u = View /\ n = Len(completions)
  OBVIOUS
<1>2. ~stop /\ Grows(u, v)
  BY <1>1 DEF Drains
<1>3. ASSUME NEW e, EntryOK(u, j, e), e.work \in WorksOf(j),
             \A i \in 1 .. n : completions[i].job = j /\ Moves(completions[i]) => e = durable[j]
      PROVE  EntryOK(v, j, e)
  <2>1. ASSUME Gone(v, e.work), ~Gone(u, e.work)
        PROVE  e.completion # None /\ e.completion.outcome \in Retired
    <3>1. PICK i \in 1 .. n : completions[i].job = j /\ completions[i].outcome \in Retired
      BY <1>1, <1>3, <2>1, NewlyGone
    <3>2. PICK r : r = completions[i]
      OBVIOUS
    <3>3. Moves(r) /\ r.job = j /\ r.outcome \in Retired
      BY <3>1, <3>2 DEF Moves
    <3>4. r = durable[j].completion /\ r \in Result
      BY <1>1, <1>2, <3>2, <3>3, ResultFacts
    <3>5. e = durable[j]
      BY <1>3, <3>1, <3>2, <3>3
    <3> QED BY <3>3, <3>4, <3>5, NotNone
  <2> QED BY <1>2, <1>3, <2>1, GrowingKeeps
<1>4. /\ EntryOK(u, j, disk[j]) /\ disk[j].work \in WorksOf(j)
      /\ \A i \in 1 .. n : completions[i].job = j /\ Moves(completions[i]) => disk[j] = durable[j]
  BY <1>1, <1>2, ResultFacts DEF WorksOf, IInv, Files, Entries
<1>5. ASSUME Writing
      PROVE  /\ EntryOK(u, j, worker.copy[j]) /\ worker.copy[j].work \in WorksOf(j)
             /\ \A i \in 1 .. n : completions[i].job = j /\ Moves(completions[i]) => worker.copy[j] = durable[j]
  BY <1>1, <1>2, <1>5, ResultFacts DEF WorksOf, IInv, Files, Entries
<1> QED BY <1>3, <1>4, <1>5

\* The requests that wait, and the one the worker holds, are of jobs without a result.
LEMMA DrainedPlaces ==
  ASSUME Typed, IInv, NEW v, NEW b, NEW s, Drains(v, b, s)
  PROVE  /\ \A i \in 1 .. Len(queue) :
              QueuedOK(v, s.health[queue[i].job], s.durable[queue[i].job], queue[i])
         /\ Holding => /\ Alike(s.health[worker.request.job], health[worker.request.job])
                       /\ s.durable[worker.request.job] = durable[worker.request.job]
         /\ \A j \in Jobs : s.health[j].active =>
              \/ \E i \in 1 .. Len(queue) : queue[i].job = j
              \/ Holding /\ worker.request.job = j
<1>1. ~stop /\ Grows(View, v)
  BY DEF Drains
<1>2. ASSUME NEW i \in 1 .. Len(queue)
      PROVE  QueuedOK(v, s.health[queue[i].job], s.durable[queue[i].job], queue[i])
  <2>1. PICK q, j : q = queue[i] /\ j = queue[i].job
    OBVIOUS
  <2>2. j \in Jobs
    <3>1. q \in Request
      BY <2>1 DEF Typed, GameTyped
    <3> QED BY <2>1, <3>1 DEF Request
  <2>3. \A k \in 1 .. Len(completions) : completions[k].job # j
    BY <2>1 DEF IInv, Placed, Alone
  <2>4. Alike(s.health[j], health[j]) /\ s.durable[j] = durable[j]
    BY <2>2, <2>3, DrainedJob
  <2>5. QueuedOK(View, health[j], durable[j], q)
    BY <2>1 DEF IInv, Placed, Queued
  <2> QED BY <1>1, <2>1, <2>4, <2>5, GrowingKeeps
<1>3. ASSUME Holding
      PROVE  /\ Alike(s.health[worker.request.job], health[worker.request.job])
             /\ s.durable[worker.request.job] = durable[worker.request.job]
  <2>1. worker.request.job \in Jobs
    BY <1>3, HeldLives
  <2>2. \A k \in 1 .. Len(completions) : completions[k].job # worker.request.job
    BY <1>3 DEF IInv, Placed, Alone
  <2> QED BY <2>1, <2>2, DrainedJob
<1>4. ASSUME NEW j \in Jobs, s.health[j].active
      PROVE  (\E i \in 1 .. Len(queue) : queue[i].job = j) \/ (Holding /\ worker.request.job = j)
  <2>1. \A k \in 1 .. Len(completions) : completions[k].job # j
    <3>1. (\E k \in 1 .. Len(completions) : completions[k].job = j) => ~s.health[j].active
      BY DrainedJob
    <3> QED BY <1>4, <3>1
  <2>2. health[j].active
    BY <1>4, <2>1, DrainedJob DEF Alike
  <2> QED BY <1>1, <2>1, <2>2 DEF IInv, Placed, Present
<1> QED BY <1>2, <1>3, <1>4

\* What changed zones is still remembered, and what was delivered is true.
LEMMA DrainedRuns ==
  ASSUME Typed, IInv, NEW v, NEW b, NEW s, Drains(v, b, s)
  PROVE  /\ \A w \in 1 .. MaxWorks : ~Untouched(v, w) /\ ~Gone(v, w) =>
              \E j \in Jobs \ {Catalog} : /\ s.durable[j].work = w /\ disk[j].work = w
                                          /\ Writing => worker.copy[j].work = w
         /\ \A x \in v.delivered : x.work \in 1 .. works
         /\ \A x \in v.delivered : x.outcome = "complete" => Untouched(v, x.work) \/ Full(v, x.work)
<1>1. PICK u, n : u = View /\ n = Len(completions)
  OBVIOUS
<1>2. ~stop /\ Grows(u, v)
  BY <1>1 DEF Drains
<1>3. ASSUME NEW w \in 1 .. MaxWorks, ~Untouched(v, w), ~Gone(v, w)
      PROVE  \E j \in Jobs \ {Catalog} : /\ s.durable[j].work = w /\ disk[j].work = w
                                         /\ Writing => worker.copy[j].work = w
  <2>1. ~Untouched(u, w) /\ ~Gone(u, w)
    BY <1>2, <1>3, GrowingKeeps
  <2>2. PICK j \in Jobs \ {Catalog} : /\ durable[j].work = w /\ disk[j].work = w
                                      /\ Writing => worker.copy[j].work = w
    BY <1>1, <2>1 DEF IInv, Runs, Touched, Carried
  <2>3. ASSUME NEW i \in 1 .. n, completions[i].job = j PROVE completions[i].outcome \notin Retired
    <3>1. PICK r : r = completions[i]
      OBVIOUS
    <3>2. durable[j].work = r.work
      BY <1>1, <1>2, <2>3, <3>1, ResultFacts
    <3>3. SUFFICES ASSUME r.outcome \in Retired PROVE FALSE
      BY <3>1
    <3>4. Moves(r)
      BY <3>3 DEF Moves
    <3>5. Receipt(r) \in v.delivered
      BY <1>1, <2>3, <3>1, <3>4 DEF Drains
    <3>6. Receipt(r).work = w /\ Receipt(r).outcome \in Retired
      BY <2>2, <3>2, <3>3 DEF Receipt
    <3> QED BY <1>3, <3>5, <3>6 DEF Gone
  <2>4. s.durable[j].work = durable[j].work
    BY <1>1, <2>3, DrainedJob
  <2> QED BY <2>2, <2>4
<1>4. ASSUME NEW i \in 1 .. n, Moves(completions[i]), NEW x, x = Receipt(completions[i])
      PROVE  /\ x.work \in 1 .. works
             /\ x.outcome = "complete" => Untouched(v, x.work) \/ Full(v, x.work)
  <2>1. PICK r, j, e : r = completions[i] /\ j = r.job /\ e = durable[j]
    OBVIOUS
  <2>2. /\ r \in Result /\ j \in Jobs /\ e.work = r.work /\ r = e.completion /\ r.work # NoWork
    BY <1>1, <1>2, <1>4, <2>1, ResultFacts
  <2>3. EntryOK(u, j, e)
    BY <1>1, <2>1, <2>2 DEF IInv, Files, Entries
  <2>4. Run(u, j, e.work, e.cursor) /\ Answers(u, j, e.work, e.cursor, r)
    BY <2>2, <2>3, NotNone DEF EntryOK
  <2>5. u.works = works
    BY <1>1 DEF View
  <2>6. r.work \in 1 .. works
    BY <2>2, <2>4, <2>5 DEF Run
  <2>7. r.outcome = "complete" => Untouched(u, r.work) \/ Full(u, r.work)
    BY <2>2, <2>4 DEF Run, Answers
  <2>8. x.work = r.work /\ x.outcome = r.outcome
    BY <1>4, <2>1 DEF Receipt
  <2> QED BY <1>2, <2>6, <2>7, <2>8, GrowingKeeps
<1>5. ASSUME NEW x \in delivered
      PROVE  /\ x.work \in 1 .. works
             /\ x.outcome = "complete" => Untouched(v, x.work) \/ Full(v, x.work)
  <2>1. x.work \in 1 .. MaxWorks /\ works \in 0 .. MaxWorks
    BY DEF Typed, GameTyped, CountsTyped, Receipts
  <2>2. x.work <= works
    BY DEF IInv, Runs, Fresh
  <2>3. x.outcome = "complete" => Untouched(u, x.work) \/ Full(u, x.work)
    BY <1>1 DEF IInv, Runs, Ended
  <2> QED BY <1>2, <2>1, <2>2, <2>3, Constants, GrowingKeeps
<1>6. \A x \in v.delivered : x \in delivered \/ \E i \in 1 .. n :
        Moves(completions[i]) /\ x = Receipt(completions[i])
  BY <1>1 DEF Drains
<1> QED BY <1>3, <1>4, <1>5, <1>6

\* The pages before cursor c and the page at c are those before the next cursor.
LEMMA PagesJoin ==
  ASSUME NEW c \in 0 .. Zones, NEW pages \in Pages, ~pages.invalid, pages.zones = First(c)
  PROVE  /\ c + Budget <= Zones => Extended(pages, Page(c)) = [zones |-> First(c + Budget), invalid |-> FALSE]
         /\ c + Budget > Zones => Extended(pages, Page(c)) = [zones |-> First(Zones), invalid |-> FALSE]
<1>1. PICK m : m = IF c + Budget <= Zones THEN c + Budget ELSE Zones
  OBVIOUS
<1>2. c \in Nat /\ m \in Nat /\ c <= m /\ m <= Zones
  BY <1>1, Constants
<1>3. PICK p, a, z : p = Page(c) /\ a = First(c) /\ z = a \o p
  OBVIOUS
<1>4. p \in Seq(1 .. Zones) /\ Len(p) = m - c /\ \A i \in 1 .. (m - c) : p[i] = c + i
  <2>1. /\ Page(c) \in Seq(1 .. Zones)
        /\ Len(Page(c)) = IF c + Budget <= Zones THEN Budget ELSE Zones - c
        /\ \A i \in 1 .. Len(Page(c)) : Page(c)[i] = c + i
    BY PageFacts
  <2>2. Len(p) = m - c
    BY <1>1, <1>2, <1>3, <2>1, Constants
  <2> QED BY <1>3, <2>1, <2>2
<1>5. a \in Seq(1 .. Zones) /\ Len(a) = c /\ \A i \in 1 .. c : a[i] = i
  <2>1. a \in [1 .. c -> 1 .. Zones]
    BY <1>2, <1>3, Constants DEF First
  <2> QED BY <1>2, <1>3, <2>1, Listed DEF First
<1>6. /\ z \in Seq(1 .. Zones) /\ Len(z) = m
      /\ \A i \in 1 .. m : z[i] = IF i <= c THEN a[i] ELSE p[i - c]
  <2>1. /\ z \in Seq(1 .. Zones) /\ Len(z) = Len(a) + Len(p)
        /\ \A i \in 1 .. (Len(a) + Len(p)) : z[i] = IF i <= Len(a) THEN a[i] ELSE p[i - Len(a)]
    BY <1>3, <1>4, <1>5, Concatenated
  <2>2. Len(a) + Len(p) = m
    BY <1>2, <1>4, <1>5
  <2> QED BY <1>5, <2>1, <2>2
<1>7. ASSUME NEW i \in 1 .. m PROVE z[i] = i
  <2>1. CASE i <= c
    BY <1>2, <1>5, <1>6, <2>1
  <2>2. CASE ~(i <= c)
    <3>1. i - c \in 1 .. (m - c) /\ c + (i - c) = i
      BY <1>2, <2>2
    <3> QED BY <1>4, <1>6, <2>2, <3>1
  <2> QED BY <2>1, <2>2
<1>8. z = First(m)
  <2>1. z \in [1 .. m -> 1 .. Zones]
    <3>1. z \in Seq(1 .. Zones) /\ Len(z) = m
      BY <1>6
    <3>2. z \in [1 .. Len(z) -> 1 .. Zones]
      BY <3>1, LenProperties
    <3> QED BY <3>1, <3>2, Zenon
  <2>2. PICK f : f = First(m)
    OBVIOUS
  <2>3. f = [i \in 1 .. m |-> i]
    BY <2>2 DEF First
  <2>4. z = f
    BY <1>7, <2>1, <2>3
  <2> QED BY <2>2, <2>4
<1>9. ~\E i \in 2 .. m : z[i - 1] >= z[i]
  <2>1. ASSUME NEW i \in 2 .. m PROVE ~(z[i - 1] >= z[i])
    <3>1. i \in 1 .. m /\ i - 1 \in 1 .. m /\ ~(i - 1 >= i)
      BY <1>2
    <3> QED BY <1>7, <3>1
  <2> QED BY <2>1
<1>10. Extended(pages, p) = [zones |-> z, invalid |-> FALSE]
  <2>1. PICK t : t = pages.zones \o p
    OBVIOUS
  <2>2. t = z
    BY <1>3, <2>1
  <2>3. PICK x, y : pages = [zones |-> x, invalid |-> y] /\ y = FALSE
    BY DEF Pages
  <2>4. ~\E i \in 2 .. Len(t) : t[i - 1] >= t[i]
    BY <1>6, <1>9, <2>2
  <2>5. Extended(pages, p) = [pages EXCEPT !.zones = t]
    BY <2>1, <2>4 DEF Extended
  <2>6. [pages EXCEPT !.zones = t] = [zones |-> t, invalid |-> y]
    BY <2>3
  <2> QED BY <2>2, <2>3, <2>5, <2>6, Zenon
<1>11. Extended(pages, Page(c)) = [zones |-> First(m), invalid |-> FALSE]
  BY <1>3, <1>8, <1>10, Zenon
<1>12. c + Budget > Zones => ~(c + Budget <= Zones)
  BY <1>2, Constants
<1>13. CASE c + Budget <= Zones
  BY <1>1, <1>11, <1>12, <1>13
<1>14. CASE ~(c + Budget <= Zones)
  BY <1>1, <1>11, <1>14
<1> QED BY <1>13, <1>14

LEMMA NoPagesAre == NoPages.zones = First(0) /\ ~NoPages.invalid
<1>1. PICK f, e : f = First(0) /\ e = <<>>
  OBVIOUS
<1>2. f \in [1 .. 0 -> 1 .. Zones]
  BY <1>1 DEF First
<1>3. f \in Seq(1 .. Zones) /\ Len(f) = 0
  BY <1>2, Listed
<1>4. f = e
  BY <1>1, <1>3
<1> QED BY <1>1, <1>4 DEF NoPages

\* The catalogue's pages follow its cursor through the results of a pulse.
LEMMA DrainedCatalog ==
  ASSUME Typed, IInv, NEW v, NEW b, NEW s, Drains(v, b, s)
  PROVE  /\ ~s.refresh.invalid /\ s.refresh.zones = First(s.health[Catalog].cursor)
         /\ s.catalog = <<>> \/ s.catalog = First(Zones)
<1>1. PICK n, c, p : n = Len(completions) /\ c = health[Catalog].cursor /\ p = refresh
  OBVIOUS
<1>2. /\ ~stop /\ Settles(b, s, n) /\ b.refresh = p /\ b.catalog = catalog /\ Catalog \in Jobs
  BY <1>1, Constants DEF Drains
<1>3. /\ ~p.invalid /\ p.zones = First(c) /\ (catalog = <<>> \/ catalog = First(Zones))
      /\ p \in Pages /\ c \in 0 .. Zones
  BY <1>1, <1>2 DEF IInv, CatalogOK, Typed, PagesTyped, Pages, GameTyped, Job
<1>4. CASE \A i \in 1 .. n : completions[i].job # Catalog
  <2>1. s.refresh = p /\ s.catalog = catalog
    BY <1>2, <1>4 DEF Settles
  <2>2. s.health[Catalog].cursor = c
    BY <1>1, <1>2, <1>4, DrainedJob DEF Alike
  <2> QED BY <1>3, <2>1, <2>2
<1>5. CASE \E i \in 1 .. n : completions[i].job = Catalog
  <2>1. PICK i \in 1 .. n : completions[i].job = Catalog
    BY <1>5
  <2>2. PICK r, h, e : r = completions[i] /\ h = s.health[Catalog] /\ e = durable[Catalog]
    OBVIOUS
  <2>3. /\ r \in Result /\ r.job = Catalog /\ r.outcome # "cancelled"
        /\ Moves(r) => r = e.completion
        /\ e.work = r.work /\ r.work # NoWork
    BY <1>1, <1>2, <2>1, <2>2, ResultFacts
  <2>4. s.refresh = Paged(p, r) /\ s.catalog = Published(p, catalog, r)
    BY <1>2, <2>1, <2>2 DEF Settles
  <2>5. /\ r.outcome \in Retired => h.cursor = 0
        /\ r.outcome = "more" => h.cursor = r.next
        /\ r.outcome = "retryable" => h.cursor = c
    BY <1>1, <1>2, <2>1, <2>2, DrainedJob
  <2>6. e.cursor = c
    BY <1>1, <1>2, <2>2, <2>3 DEF IInv, Files, Healthy, JobOK
  <2>7. Moves(r) => Answers(View, Catalog, e.work, c, r)
    <3>1. EntryOK(View, Catalog, e)
      BY <1>2, <2>2 DEF IInv, Files, Entries
    <3> QED BY <2>3, <2>6, <3>1, NotNone DEF EntryOK
  <2>8. r.outcome \in {"complete", "more", "retryable", "permanent"}
    BY <2>3 DEF Result, Outcomes
  <2>9. NoPages.zones = First(0) /\ ~NoPages.invalid
    BY NoPagesAre
  <2>10. CASE r.outcome = "retryable"
    <3>1. s.refresh = p /\ s.catalog = catalog
      BY <2>4, <2>10 DEF Paged, Published
    <3> QED BY <1>3, <2>2, <2>5, <2>10, <3>1
  <2>11. CASE r.outcome = "permanent"
    <3>1. s.refresh = NoPages /\ s.catalog = catalog
      BY <2>3, <2>4, <2>11 DEF Paged, Published
    <3>2. h.cursor = 0
      BY <2>5, <2>11 DEF Retired
    <3> QED BY <1>3, <2>2, <2>9, <3>1, <3>2
  <2>12. CASE r.outcome = "more"
    <3>1. r.rows = Page(c) /\ r.next = c + Budget /\ c + Budget <= Zones
      BY <2>7, <2>12 DEF Answers, Moves
    <3>2. s.refresh = Extended(p, Page(c)) /\ s.catalog = catalog
      BY <2>3, <2>4, <2>12, <3>1 DEF Paged, Published
    <3>3. Extended(p, Page(c)) = [zones |-> First(c + Budget), invalid |-> FALSE]
      BY <1>3, <3>1, PagesJoin
    <3>4. h.cursor = c + Budget
      BY <2>5, <2>12, <3>1
    <3> QED BY <1>3, <2>2, <3>2, <3>3, <3>4
  <2>13. CASE r.outcome = "complete"
    <3>1. r.rows = Page(c) /\ c + Budget > Zones
      BY <2>7, <2>13 DEF Answers, Moves, Retired
    <3>2. Extended(p, Page(c)) = [zones |-> First(Zones), invalid |-> FALSE]
      BY <1>3, <3>1, PagesJoin
    <3>3. s.refresh = NoPages /\ s.catalog \in {catalog, First(Zones)}
      BY <2>3, <2>4, <2>13, <3>1, <3>2 DEF Paged, Published
    <3>4. h.cursor = 0
      BY <2>5, <2>13 DEF Retired
    <3> QED BY <1>3, <2>2, <2>9, <3>3, <3>4
  <2> QED BY <2>8, <2>10, <2>11, <2>12, <2>13
<1> QED BY <1>4, <1>5

-----------------------------------------------------------------------------
(***************************************************************************)
(* A pulse, second half: a job is submitted.                               *)
(***************************************************************************)
LEMMA SubmittedOne ==
  ASSUME Typed, IInv, NEW v, NEW b, NEW s, Drains(v, b, s), NEW j \in Jobs, NEW w \in 1 .. MaxWorks,
         NEW q \in Request, Submits(s.health, s.durable, j, w, q),
         NEW t, Grows(v, t), t.delivered = v.delivered, t.works = works'
  PROVE  /\ JobOK(t, j, health'[j], s.durable[j]) /\ ~Gone(t, w) /\ health'[j].work = w
         /\ QueuedOK(t, health'[j], s.durable[j], q) /\ q.job = j
         /\ health'[j].cursor = s.health[j].cursor
         /\ \A i \in 1 .. Len(queue) : queue[i].job # j
         /\ ~(Holding /\ worker.request.job = j)
         /\ w \in {s.health[j].work, works + 1} /\ w \in 1 .. works'
<1>1. PICK h, e, k : h = s.health[j] /\ e = s.durable[j] /\ k = health'[j]
  OBVIOUS
<1>2. /\ EntryOK(v, j, e) /\ JobOK(v, j, h, e) /\ ~Gone(v, h.work) /\ ~h.active
      /\ k.work = w /\ k.cursor = h.cursor /\ k.active
  <2>1. k = [work |-> w, cursor |-> h.cursor, active |-> TRUE, due |-> FALSE] /\ ~h.active
    BY <1>1 DEF Submits
  <2>2. k.work = w /\ k.cursor = h.cursor /\ k.active
    BY <2>1
  <2> QED BY <1>1, <2>1, <2>2, DrainedJob
<1>3. e.work = h.work /\ e.completion = None
  BY <1>2 DEF JobOK
<1>4. Gone(t, w) <=> Gone(v, w)
  BY DEF Gone
<1>5. /\ \A x : Untouched(v, x) => Untouched(t, x)
      /\ \A i, x, c : Run(v, i, x, c) => Run(t, i, x, c)
      /\ \A i, x, c, y : Asks(v, i, x, c, y) => Asks(t, i, x, c, y)
  BY GrowingKeeps
<1>6. ASSUME NEW i \in 1 .. Len(queue) PROVE queue[i].job # j
  <2>1. s.health[queue[i].job].active
    BY DrainedPlaces DEF QueuedOK
  <2> QED BY <1>1, <1>2, <2>1
<1>7. ~(Holding /\ worker.request.job = j)
  <2>1. Holding => s.health[worker.request.job].active
    BY DrainedPlaces DEF Alike, IInv, Placed, Held
  <2> QED BY <1>1, <1>2, <2>1
<1>8. works \in Nat /\ w \in Nat /\ w # NoWork /\ works \in 0 .. MaxWorks
  BY Constants DEF Typed, GameTyped, NoWork
<1>9. \/ e.request # None /\ q = e.request
      \/ /\ e.request = None /\ q.job = j /\ q.work = w /\ q.cursor = h.cursor
         /\ ~q.elapsed => j # Catalog /\ h.cursor = 0
  BY <1>1 DEF Submits
<1>10. CASE h.work = NoWork
  <2>1. w = works + 1 /\ works' = w
    BY <1>1, <1>10 DEF Submits
  <2>2. h.cursor = 0 /\ e = Idle
    BY <1>2, <1>3, <1>10 DEF JobOK, EntryOK
  <2>3. e.request = None /\ e.work = NoWork
    BY <2>2, IdleTyped
  <2>4. q.job = j /\ q.work = w /\ q.cursor = 0 /\ (~q.elapsed => j # Catalog)
    BY <1>9, <2>2, <2>3
  <2>5. Untouched(t, w)
    <3>1. Untouched(View, w)
      BY <1>8, <2>1 DEF IInv, Runs, Fresh
    <3>2. Grows(View, v)
      BY DEF Drains
    <3> QED BY <1>5, <3>1, <3>2, GrowingKeeps
  <2>6. ~Gone(t, w)
    <3>1. \A x \in v.delivered : x.work \in 1 .. works
      BY DrainedRuns
    <3> QED BY <1>4, <1>8, <2>1, <3>1 DEF Gone
  <2>7. t.marker[j] # <<w, 0>>
    <3>1. t.marker = marker
      BY DEF Drains, Grows, View
    <3>2. PICK m : m = marker[j]
      OBVIOUS
    <3>3. m[1] \in 0 .. works
      BY <3>2 DEF IInv, Runs, Distinct
    <3>4. m[1] # w
      BY <1>8, <2>1, <3>3
    <3>5. m # <<w, 0>>
      BY <3>4
    <3> QED BY <3>1, <3>2, <3>5
  <2>8. Progress(t, j, w, 0)
    <3>1. ASSUME NEW z \in 1 .. Zones
          PROVE  t.applied[w][z] = IF z <= 0 \/ (z <= 0 + Budget /\ t.marker[j] = <<w, 0>>) THEN 1 ELSE 0
      <4>1. t.applied[w][z] = 0
        BY <2>5 DEF Untouched
      <4>2. ~(z <= 0)
        BY Constants
      <4> QED BY <2>7, <4>1, <4>2
    <3> QED BY <3>1 DEF Progress
  <2>9. w \in 1 .. t.works
    BY <1>8, <2>1
  <2>10. Run(t, j, w, 0)
    BY <2>5, <2>8, <2>9 DEF Run, Reached
  <2>11. JobOK(t, j, k, e)
    BY <1>2, <1>8, <2>2, <2>3, <2>10 DEF JobOK
  <2>12. Asks(t, j, w, 0, q)
    BY <2>4, <2>5 DEF Asks
  <2>13. QueuedOK(t, k, e, q)
    BY <1>2, <1>3, <2>2, <2>3, <2>4, <2>12 DEF QueuedOK
  <2> QED BY <1>1, <1>2, <1>6, <1>7, <2>1, <2>4, <2>6, <2>9, <2>11, <2>13
<1>11. CASE h.work # NoWork
  <2>1. w = h.work /\ works' = works
    BY <1>1, <1>11 DEF Submits
  <2>2. Run(v, j, w, h.cursor) /\ e.cursor = h.cursor /\ e.work = w
    BY <1>2, <1>3, <1>11, <2>1 DEF JobOK
  <2>3. Asks(t, j, w, h.cursor, q)
    <3>1. CASE e.request # None /\ q = e.request
      BY <1>2, <1>5, <2>2, <3>1 DEF EntryOK
    <3>2. CASE e.request = None /\ q.job = j /\ q.work = w /\ q.cursor = h.cursor
               /\ (~q.elapsed => h.cursor = 0)
      <4>1. h.cursor # 0
        BY <1>2, <1>8, <2>2, <3>2 DEF EntryOK
      <4> QED BY <3>2, <4>1 DEF Asks
    <3> QED BY <1>9, <3>1, <3>2
  <2>4. JobOK(t, j, k, e)
    BY <1>2, <1>3, <1>5, <1>8, <2>1, <2>2 DEF JobOK
  <2>5. q.job = j
    BY <2>3 DEF Asks
  <2>6. QueuedOK(t, k, e, q)
    BY <1>2, <1>3, <1>9, <2>3, <2>5 DEF QueuedOK
  <2>7. w \in 1 .. works'
    <3>1. w \in 1 .. v.works /\ v.works <= t.works /\ v.works \in Nat /\ t.works \in Nat
      BY <2>2 DEF Run, Grows
    <3> QED BY <3>1
  <2> QED BY <1>1, <1>2, <1>4, <1>6, <1>7, <2>1, <2>4, <2>5, <2>6, <2>7
<1> QED BY <1>10, <1>11

\* Whatever is submitted, the files, the worker, the runs and the catalogue are as before.
LEMMA PulseEnds ==
  ASSUME Typed, IInv, Typed', NEW v, NEW b, NEW s, Drains(v, b, s), NEW t, t = View', Grows(v, t),
         t.delivered = v.delivered, ~stop', Len(completions') = 0, UNCHANGED <<worker, disk, database>>,
         durable' = s.durable, refresh' = s.refresh, catalog' = s.catalog,
         \A k \in Jobs : ~Gone(t, health'[k].work) /\ health'[k].cursor = s.health[k].cursor,
         Holding => Alike(health'[worker.request.job], s.health[worker.request.job])
  PROVE  Entries' /\ Ending' /\ Handed' /\ Held' /\ Fresh' /\ Touched' /\ Ended' /\ CatalogOK'
<1>1. UNCHANGED <<marker, timer, applied>> /\ t.works = works' /\ t.delivered = delivered'
  BY DEF database, View
<1>2. (Writing' <=> Writing) /\ (Holding' <=> Holding)
  BY DEF Writing, Holding
<1>3. /\ \A x : Gone(t, x) <=> Gone(v, x)
      /\ \A x : (Untouched(t, x) <=> Untouched(v, x)) /\ (Full(t, x) <=> Full(v, x))
      /\ \A x : (Untouched(v, x) <=> Untouched(View, x)) /\ (Full(v, x) <=> Full(View, x))
  BY GrowingKeeps DEF Gone, Drains
<1>4. Entries'
  <2>1. ASSUME NEW k \in Jobs
        PROVE  /\ EntryOK(t, k, s.durable[k]) /\ EntryOK(t, k, disk[k])
               /\ Writing => EntryOK(t, k, worker.copy[k])
    <3>1. /\ EntryOK(v, k, s.durable[k]) /\ EntryOK(v, k, disk[k])
          /\ Writing => EntryOK(v, k, worker.copy[k])
      BY DrainedJob, DrainedFiles
    <3>2. \A e : EntryOK(v, k, e) => EntryOK(t, k, e)
      BY <1>3, GrowingKeeps
    <3> QED BY <3>1, <3>2
  <2> QED BY <1>2, <2>1 DEF Entries
<1>5. Ending'
  BY DEF Ending
<1>6. Handed'
  <2>1. \A i \in 1 .. 0 : FALSE
    OBVIOUS
  <2> QED BY <2>1, Zenon DEF Handed
<1>7. Held'
  <2>1. worker.request # None <=> Holding
    BY DEF IInv, Placed, Held
  <2>2. ASSUME Holding
        PROVE  /\ Alike(health'[worker.request.job], health[worker.request.job])
               /\ durable'[worker.request.job] = durable[worker.request.job]
    BY <2>2, DrainedPlaces DEF Alike
  <2> QED BY <1>2, <2>1, <2>2 DEF IInv, Placed, Held, Alike
<1>8. works \in Nat /\ works' \in Nat /\ works <= works'
  <2>1. v.works \in Nat /\ View.works = works /\ View.works \in Nat /\ View.works <= v.works
    BY DEF Drains, Grows, View
  <2> QED BY <1>1, <2>1 DEF Grows
<1>9. Fresh'
  <2>1. ASSUME NEW w \in 1 .. MaxWorks, w > works' PROVE Untouched(t, w)
    <3>1. w > works
      BY <1>8, <2>1, Constants
    <3>2. Untouched(View, w)
      BY <3>1 DEF IInv, Runs, Fresh
    <3> QED BY <1>3, <3>2
  <2>2. ASSUME NEW x \in t.delivered PROVE x.work <= works'
    <3>1. x.work \in 1 .. works
      BY <2>2, DrainedRuns
    <3> QED BY <1>8, <3>1
  <2> QED BY <1>1, <2>1, <2>2 DEF Fresh
<1>10. Touched'
  <2>1. ASSUME NEW w \in 1 .. MaxWorks, ~Untouched(t, w), ~Gone(t, w) PROVE Carried(w)'
    <3>1. ~Untouched(v, w) /\ ~Gone(v, w)
      BY <1>3, <2>1
    <3>2. PICK j \in Jobs \ {Catalog} : /\ s.durable[j].work = w /\ disk[j].work = w
                                        /\ Writing => worker.copy[j].work = w
      BY <3>1, DrainedRuns
    <3> QED BY <1>2, <3>2 DEF Carried
  <2> QED BY <2>1 DEF Touched
<1>11. Ended'
  <2>1. \A w \in 1 .. MaxWorks, z \in 1 .. Zones : applied'[w][z] \in {0, 1}
    BY <1>1 DEF IInv, Runs, Ended
  <2>2. \A j \in Jobs : timer'[j] # NoWork => Full(t, timer'[j])
    BY <1>1, <1>3 DEF IInv, Runs, Ended
  <2>3. \A x \in delivered' : x.outcome = "complete" => Untouched(t, x.work) \/ Full(t, x.work)
    BY <1>1, <1>3, DrainedRuns
  <2> QED BY <2>1, <2>2, <2>3 DEF Ended
<1>12. CatalogOK'
  <2>1. /\ ~s.refresh.invalid /\ s.refresh.zones = First(s.health[Catalog].cursor)
        /\ s.catalog = <<>> \/ s.catalog = First(Zones)
    BY DrainedCatalog
  <2>2. health'[Catalog].cursor = s.health[Catalog].cursor
    BY Constants
  <2> QED BY <2>1, <2>2 DEF CatalogOK
<1> QED BY <1>4, <1>5, <1>6, <1>7, <1>9, <1>10, <1>11, <1>12

\* A new work is given to one job.
LEMMA WorksStayDistinct ==
  ASSUME Distinct, works \in Nat, works' \in Nat, works <= works', marker' = marker, NEW j \in Jobs,
         \A k \in Jobs : \A x \in WorksOf(k)' :
           x \in WorksOf(k) \/ x = NoWork \/ (x = works + 1 /\ x <= works' /\ k = j)
  PROVE  Distinct'
<1>1. ASSUME NEW k \in Jobs, NEW x \in WorksOf(k)' PROVE x \in 0 .. works'
  <2>1. x \in WorksOf(k) => x \in 0 .. works
    BY DEF Distinct
  <2> QED BY <2>1 DEF NoWork
<1>2. ASSUME NEW k \in Jobs PROVE marker'[k][1] \in 0 .. works'
  <2>1. PICK m : m = marker[k][1]
    OBVIOUS
  <2>2. m \in 0 .. works
    BY <2>1 DEF Distinct
  <2>3. m \in 0 .. works'
    BY <2>2
  <2> QED BY <2>1, <2>3
<1>3. ASSUME NEW k \in Jobs, NEW l \in Jobs, k # l, NEW x \in WorksOf(k)', x \in WorksOf(l)'
      PROVE  x = NoWork
  <2>1. \A i \in Jobs : x \in WorksOf(i) => x \in 0 .. works
    BY DEF Distinct
  <2>2. CASE x = works + 1
    <3>1. x \notin 0 .. works /\ x # NoWork
      BY <2>2 DEF NoWork
    <3> QED BY <1>3, <2>1, <3>1
  <2>3. CASE x # works + 1
    BY <1>3, <2>3 DEF Distinct
  <2> QED BY <2>2, <2>3
<1>4. \A k \in Jobs : WorksOf(k)' \subseteq 0 .. works'
  BY <1>1
<1>5. \A k, l \in Jobs : k # l => WorksOf(k)' \cap WorksOf(l)' \subseteq {NoWork}
  BY <1>3
<1> QED BY <1>2, <1>4, <1>5 DEF Distinct

LEMMA PulseStep ==
  ASSUME Typed, IInv, NEW elapsed \in SUBSET Jobs, Pulse(elapsed)
  PROVE  Typed' /\ IInv'
<1>1. /\ Typed' /\ (\E b, s : Pulses(b, s))
      /\ ~stop /\ ~stop' /\ completions' = <<>> /\ Len(completions') = 0
      /\ UNCHANGED <<worker, disk, database>>
      /\ delivered \subseteq delivered'
      /\ \A i \in 1 .. Len(completions) : Moves(completions[i]) => Receipt(completions[i]) \in delivered'
      /\ \A x \in delivered' : x \in delivered \/ \E i \in 1 .. Len(completions) :
                                 Moves(completions[i]) /\ x = Receipt(completions[i])
  BY PulseFacts DEF IInv, Placed
<1>2. PICK b, s : Pulses(b, s)
  BY <1>1
<1>3. PICK v, t : /\ v = [applied |-> applied, marker |-> marker, delivered |-> delivered', works |-> works]
                  /\ t = View'
  OBVIOUS
<1>4. works \in Nat /\ works' \in Nat /\ UNCHANGED <<applied, marker, timer>>
  BY <1>1, Constants DEF Typed, GameTyped, database
<1>5. Grows(View, v)
  BY <1>1, <1>3, <1>4 DEF Grows, View
<1>6. v.delivered = delivered' /\ v.works = works
  BY <1>3
<1>7. Drains(v, b, s)
  BY <1>1, <1>2, <1>5, <1>6 DEF Drains, Pulses
<1>8. /\ durable' = s.durable /\ refresh' = s.refresh /\ catalog' = s.catalog
      /\ SubmitDue(s) /\ s \in States
  BY <1>2 DEF Pulses
<1>9. works <= works' => Grows(v, t) /\ t.delivered = v.delivered /\ t.works = works'
  BY <1>3, <1>4 DEF Grows, View
<1>10. /\ \A i, k \in 1 .. Len(queue) : queue[i].job = queue[k].job => i = k
       /\ Holding => \A i \in 1 .. Len(queue) : queue[i].job # worker.request.job
       /\ (Holding' <=> Holding) /\ queue \in Seq(Request) /\ Len(queue) \in Nat
       /\ \A i \in 1 .. Len(queue) : queue[i] \in Request /\ queue[i].job \in Jobs
  <2>1. queue \in Seq(Request) /\ \A i \in 1 .. Len(queue) : queue[i] \in Request
    BY DEF Typed, GameTyped
  <2>2. \A q \in Request : q.job \in Jobs
    BY DEF Request
  <2> QED BY <1>1, <2>1, <2>2 DEF IInv, Placed, Alone, Holding
<1>11. ASSUME NEW k \in Jobs
       PROVE  /\ JobOK(v, k, s.health[k], s.durable[k]) /\ ~Gone(v, s.health[k].work)
              /\ s.health[k].work \in WorksOf(k) \cup {NoWork}
              /\ s.durable[k].work \in WorksOf(k) \cup {NoWork}
  <2>1. /\ JobOK(v, k, s.health[k], s.durable[k]) /\ ~Gone(v, s.health[k].work)
        /\ s.health[k].work \in {NoWork, health[k].work}
        /\ s.durable[k].work \in {NoWork, durable[k].work}
    BY <1>7, DrainedJob
  <2> QED BY <2>1 DEF WorksOf
<1>12. ASSUME NEW k \in Jobs, NEW x \in WorksOf(k)'
       PROVE  x = health'[k].work \/ x = NoWork \/ x \in WorksOf(k)
  BY <1>1, <1>8, <1>11 DEF WorksOf
<1>13. \A i \in 1 .. 0 : FALSE
  OBVIOUS
<1>14. CASE /\ \A j \in Jobs : Alike(health'[j], s.health[j])
            /\ UNCHANGED <<queue, works>>
  <2>1. Grows(v, t) /\ t.delivered = v.delivered
    BY <1>4, <1>9, <1>14
  <2>2. \A x : Gone(t, x) <=> Gone(v, x)
    BY <2>1 DEF Gone
  <2>3. ASSUME NEW k \in Jobs
        PROVE  /\ JobOK(t, k, health'[k], s.durable[k]) /\ ~Gone(t, health'[k].work)
               /\ health'[k].cursor = s.health[k].cursor /\ health'[k].work = s.health[k].work
               /\ health'[k].active = s.health[k].active
    <3>1. Alike(health'[k], s.health[k])
      BY <1>14
    <3> QED BY <1>11, <2>1, <2>2, <3>1, GrowingKeeps DEF Alike
  <2>4. Holding => Alike(health'[worker.request.job], s.health[worker.request.job])
    BY <1>14, HeldLives
  <2>5. Entries' /\ Ending' /\ Handed' /\ Held' /\ Fresh' /\ Touched' /\ Ended' /\ CatalogOK'
    BY <1>1, <1>3, <1>7, <1>8, <2>1, <2>3, <2>4, PulseEnds
  <2>6. Healthy'
    BY <1>3, <1>8, <2>3 DEF Healthy
  <2>7. Queued'
    <3>1. ASSUME NEW i \in 1 .. Len(queue)
          PROVE  QueuedOK(t, health'[queue[i].job], s.durable[queue[i].job], queue[i])
      <4>1. QueuedOK(v, s.health[queue[i].job], s.durable[queue[i].job], queue[i])
        BY <1>7, DrainedPlaces
      <4>2. Alike(health'[queue[i].job], s.health[queue[i].job])
        BY <1>10, <1>14
      <4> QED BY <2>1, <4>1, <4>2, GrowingKeeps
    <3> QED BY <1>3, <1>8, <1>14, <3>1 DEF Queued
  <2>8. Alone'
    BY <1>1, <1>10, <1>13, <1>14 DEF Alone
  <2>9. Present'
    <3>1. \A j \in Jobs : s.health[j].active =>
              (\E i \in 1 .. Len(queue) : queue[i].job = j) \/ (Holding /\ worker.request.job = j)
      BY <1>7, DrainedPlaces
    <3> QED BY <1>1, <1>10, <1>14, <2>3, <3>1 DEF Present
  <2>10. Distinct'
    <3>1. \A k \in Jobs : \A x \in WorksOf(k)' : x \in WorksOf(k) \/ x = NoWork
      BY <1>11, <1>12, <2>3
    <3> QED BY <1>4, <1>14, <3>1, Constants, WorksStayDistinct DEF IInv, Runs
  <2> QED BY <1>1, <2>5, <2>6, <2>7, <2>8, <2>9, <2>10 DEF IInv, Files, Placed, Runs
<1>15. CASE \E j \in Jobs, w \in 1 .. MaxWorks, q \in Request : Submits(s.health, s.durable, j, w, q)
  <2>1. PICK j \in Jobs, w \in 1 .. MaxWorks, q \in Request : Submits(s.health, s.durable, j, w, q)
    BY <1>15
  <2>2. /\ queue' = Append(queue, q)
        /\ \A k \in Jobs \ {j} : Alike(health'[k], s.health[k])
        /\ works' \in {works, works + 1}
    BY <2>1 DEF Submits
  <2>3. Grows(v, t) /\ t.delivered = v.delivered /\ t.works = works' /\ works <= works'
    BY <1>4, <1>9, <2>2
  <2>4. \A x : Gone(t, x) <=> Gone(v, x)
    BY <2>3 DEF Gone
  <2>5. /\ JobOK(t, j, health'[j], s.durable[j]) /\ ~Gone(t, w) /\ health'[j].work = w
        /\ QueuedOK(t, health'[j], s.durable[j], q) /\ q.job = j
        /\ health'[j].cursor = s.health[j].cursor
        /\ \A i \in 1 .. Len(queue) : queue[i].job # j
        /\ ~(Holding /\ worker.request.job = j)
        /\ w \in {s.health[j].work, works + 1} /\ w \in 1 .. works'
    BY <1>7, <2>1, <2>3, SubmittedOne
  <2>6. ASSUME NEW k \in Jobs \ {j}
        PROVE  /\ JobOK(t, k, health'[k], s.durable[k]) /\ ~Gone(t, health'[k].work)
               /\ health'[k].cursor = s.health[k].cursor /\ health'[k].work = s.health[k].work
               /\ health'[k].active = s.health[k].active
    <3>1. Alike(health'[k], s.health[k])
      BY <2>2
    <3> QED BY <1>11, <2>3, <2>4, <3>1, GrowingKeeps DEF Alike
  <2>7. Holding => Alike(health'[worker.request.job], s.health[worker.request.job])
    BY <2>2, <2>5, HeldLives
  <2>8. Entries' /\ Ending' /\ Handed' /\ Held' /\ Fresh' /\ Touched' /\ Ended' /\ CatalogOK'
    <3>1. \A k \in Jobs : ~Gone(t, health'[k].work) /\ health'[k].cursor = s.health[k].cursor
      BY <2>5, <2>6
    <3> QED BY <1>1, <1>3, <1>7, <1>8, <2>3, <2>7, <3>1, PulseEnds
  <2>9. Healthy'
    BY <1>3, <1>8, <2>5, <2>6 DEF Healthy
  <2>10. PICK c : c = queue'
    OBVIOUS
  <2>11. /\ Len(c) = Len(queue) + 1
         /\ \A i \in 1 .. Len(queue) : i \in 1 .. Len(c) /\ c[i] = queue[i]
         /\ Len(queue) + 1 \in 1 .. Len(c) /\ c[Len(queue) + 1] = q
         /\ \A i \in 1 .. Len(c) : \/ i \in 1 .. Len(queue) /\ c[i] = queue[i]
                                   \/ i = Len(queue) + 1 /\ c[i] = q
    BY <1>10, <2>2, <2>10, Appended
  <2>12. Queued'
    <3>1. ASSUME NEW i \in 1 .. Len(c)
          PROVE  QueuedOK(t, health'[c[i].job], s.durable[c[i].job], c[i])
      <4>1. CASE c[i] = q
        BY <2>5, <4>1
      <4>2. CASE i \in 1 .. Len(queue) /\ c[i] = queue[i]
        <5>1. QueuedOK(v, s.health[queue[i].job], s.durable[queue[i].job], queue[i])
          BY <1>7, <4>2, DrainedPlaces
        <5>2. Alike(health'[queue[i].job], s.health[queue[i].job])
          BY <1>10, <2>2, <2>5, <4>2
        <5> QED BY <2>3, <4>2, <5>1, <5>2, GrowingKeeps
      <4> QED BY <2>11, <4>1, <4>2
    <3> QED BY <1>3, <1>8, <2>10, <3>1 DEF Queued
  <2>13. Alone'
    <3>1. \A i, k \in 1 .. Len(c) : c[i].job = c[k].job => i = k
      BY <1>10, <2>5, <2>11
    <3>2. Holding => \A i \in 1 .. Len(c) : c[i].job # worker.request.job
      BY <1>10, <2>5, <2>11
    <3> QED BY <1>1, <1>10, <1>13, <2>10, <3>1, <3>2 DEF Alone
  <2>14. Present'
    <3>1. ASSUME NEW k \in Jobs, health'[k].active
          PROVE  (\E i \in 1 .. Len(c) : c[i].job = k) \/ (Holding /\ worker.request.job = k)
      <4>1. CASE k = j
        BY <2>5, <2>11, <4>1
      <4>2. CASE k # j
        <5>1. s.health[k].active
          BY <2>6, <3>1, <4>2
        <5>2. (\E i \in 1 .. Len(queue) : queue[i].job = k) \/ (Holding /\ worker.request.job = k)
          BY <1>7, <5>1, DrainedPlaces
        <5> QED BY <2>11, <5>2
      <4> QED BY <4>1, <4>2
    <3> QED BY <1>1, <1>10, <2>10, <3>1 DEF Present
  <2>15. Distinct'
    <3>1. ASSUME NEW k \in Jobs, NEW x \in WorksOf(k)'
          PROVE  x \in WorksOf(k) \/ x = NoWork \/ (x = works + 1 /\ x <= works' /\ k = j)
      <4>1. CASE k = j
        BY <1>4, <1>11, <1>12, <2>5, <4>1
      <4>2. CASE k # j
        BY <1>11, <1>12, <2>6, <4>2
      <4> QED BY <4>1, <4>2
    <3> QED BY <1>4, <2>3, <3>1, WorksStayDistinct DEF IInv, Runs
  <2> QED BY <1>1, <2>8, <2>9, <2>12, <2>13, <2>14, <2>15 DEF IInv, Files, Placed, Runs
<1>16. GameTyped /\ failures \in 0 .. MaxFailures
  BY DEF Typed, CountsTyped
<1> QED BY <1>8, <1>14, <1>15, <1>16, SubmitFacts

-----------------------------------------------------------------------------
(***************************************************************************)
(* The theorems.                                                           *)
(***************************************************************************)
LEMMA InitIInv == Init => IInv
<1> SUFFICES ASSUME Init PROVE IInv
  OBVIOUS
<1>1. PICK v : v = View
  OBVIOUS
<1>2. /\ v.delivered = {} /\ v.works = 0 /\ works = 0 /\ delivered = {}
      /\ \A w \in 1 .. MaxWorks : \A z \in 1 .. Zones : v.applied[w][z] = 0 /\ applied[w][z] = 0
  BY <1>1 DEF Init, View
<1>3. \A w : ~Gone(v, w)
  BY <1>2 DEF Gone
<1>4. /\ \A i \in 1 .. 0 : FALSE
      /\ Len(queue) = 0 /\ Len(completions) = 0
  BY DEF Init
<1>5. \A j \in Jobs : /\ health[j].work = NoWork /\ health[j].cursor = 0 /\ ~health[j].active
                      /\ durable[j] = Idle /\ disk[j] = Idle /\ worker.copy[j] = Idle
                      /\ marker[j] = <<NoWork, 0>> /\ timer[j] = NoWork
  BY DEF Init, Waiting, At
<1>6. worker.stage = "waiting" /\ worker.request = None /\ ~Writing /\ ~Holding
  BY DEF Init, Waiting, At, Writing, Holding
<1>7. Entries
  <2>1. \A j : EntryOK(v, j, Idle)
    BY <1>3, IdleTyped DEF EntryOK
  <2> QED BY <1>1, <1>5, <1>6, <2>1 DEF Entries
<1>8. Healthy
  <2>1. ASSUME NEW j \in Jobs PROVE JobOK(v, j, health[j], Idle)
    BY <1>5, IdleTyped DEF JobOK
  <2> QED BY <1>1, <1>5, <2>1 DEF Healthy
<1>9. Ending
  BY <1>1, <1>3 DEF Ending
<1>10. Queued /\ Handed
  BY <1>4, Zenon DEF Queued, Handed
<1>11. Held /\ Present
  BY <1>5, <1>6 DEF Held, Present
<1>12. Alone
  BY <1>4, <1>6 DEF Alone
<1>13. Distinct
  <2>1. \A j \in Jobs : WorksOf(j) = {NoWork}
    BY <1>5, IdleTyped DEF WorksOf
  <2>2. \A j \in Jobs : marker[j][1] = NoWork
    BY <1>5
  <2>3. NoWork \in 0 .. works
    BY <1>2 DEF NoWork
  <2> QED BY <2>1, <2>2, <2>3 DEF Distinct
<1>14. Fresh /\ Touched /\ Ended
  <2>1. \A w \in 1 .. MaxWorks : Untouched(v, w)
    BY <1>2 DEF Untouched
  <2>2. \A w \in 1 .. MaxWorks, z \in 1 .. Zones : applied[w][z] \in {0, 1}
    BY <1>2
  <2> QED BY <1>1, <1>2, <1>5, <2>1, <2>2 DEF Fresh, Touched, Ended
<1>15. CatalogOK
  <2>1. refresh = NoPages /\ catalog = <<>> /\ health[Catalog].cursor = 0
    BY <1>5, Constants DEF Init
  <2>2. NoPages.zones = First(0) /\ ~NoPages.invalid
    BY NoPagesAre
  <2> QED BY <2>1, <2>2 DEF CatalogOK
<1> QED BY <1>7, <1>8, <1>9, <1>10, <1>11, <1>12, <1>13, <1>14, <1>15 DEF IInv, Files, Placed, Runs

LEMMA NextIInv ==
  ASSUME Typed, IInv, [Next]_vars
  PROVE  Typed' /\ IInv'
<1>1. CASE UNCHANGED vars
  <2>1. /\ UNCHANGED <<health, completions, refresh, catalog, delivered, works, marker, timer, applied>>
        /\ UNCHANGED <<queue, durable, dirty, stop, worker, disk, failures, restarts>>
    BY <1>1 DEF vars, game, database
  <2>2. Typed'
    BY <2>1 DEF Typed, GameTyped, PagesTyped, FilesTyped, DatabaseTyped, CountsTyped
  <2>3. View' = View /\ (Writing' <=> Writing) /\ (Holding' <=> Holding)
    BY <2>1 DEF View, Writing, Holding
  <2>4. Files'
    BY <2>1, <2>3 DEF IInv, Files, Entries, Healthy, Ending
  <2>5. Placed'
    BY <2>1, <2>3 DEF IInv, Placed, Queued, Handed, Held, Alone, Present
  <2>6. Runs'
    BY <2>1, <2>3 DEF IInv, Runs, Distinct, WorksOf, Fresh, Touched, Carried, Ended
  <2>7. CatalogOK'
    BY <2>1 DEF IInv, CatalogOK
  <2> QED BY <2>2, <2>4, <2>5, <2>6, <2>7 DEF IInv
<1>2. Held
  BY DEF IInv, Placed
<1>3. CASE TakeDirty
  BY <1>2, <1>3, TypedQuietSteps, TakeDirtyStep
<1>4. CASE Flush
  BY <1>2, <1>4, TypedQuietSteps, FlushStep
<1>5. CASE TakeRequest
  BY <1>2, <1>5, TypedQuietSteps, TakeRequestStep
<1>6. CASE RecordRequest
  BY <1>2, <1>6, TypedQuietSteps, RecordRequestStep
<1>7. CASE Execute
  BY <1>2, <1>7, TypedExecute, ExecuteStep
<1>8. CASE RecordResult
  BY <1>2, <1>8, TypedRecordResult, RecordResultStep
<1>9. CASE Leave
  BY <1>2, <1>9, TypedQuietSteps, LeaveStep
<1>10. ASSUME NEW elapsed \in SUBSET Jobs, Pulse(elapsed) PROVE Typed' /\ IInv'
  BY <1>10, PulseStep
<1>11. CASE Shutdown
  BY <1>11, ShutdownStep
<1>12. ASSUME Boot, restarts' \in 0 .. MaxRestarts PROVE Typed' /\ IInv'
  <2>1. Typed'
    BY <1>12, BootFacts DEF Typed, CountsTyped
  <2> QED BY <1>12, <2>1, BootStep
<1>13. CASE Reboot
  <2>1. Boot /\ restarts' = restarts
    BY <1>13 DEF Reboot
  <2> QED BY <1>12, <2>1 DEF Typed, CountsTyped
<1>14. CASE Crash
  <2>1. Boot /\ restarts < MaxRestarts /\ restarts' = restarts + 1
    BY <1>14 DEF Crash
  <2>2. restarts' \in 0 .. MaxRestarts
    BY <2>1, Constants DEF Typed, CountsTyped
  <2> QED BY <1>12, <2>1, <2>2
<1> QED BY <1>1, <1>3, <1>4, <1>5, <1>6, <1>7, <1>8, <1>9, <1>10, <1>11, <1>13, <1>14 DEF Next, Worker

(* What the code keeps true between two steps of the worker thread, a      *)
(* pulse, Shutdown and the boot: the files, the places, the runs and the   *)
(* catalogue's pages agree.                                                *)
THEOREM MaintenanceIsInductive == Spec => [](Typed /\ IInv)
<1>1. Init => Typed /\ IInv
  BY InitTyped, InitIInv
<1>2. Typed /\ IInv /\ [Next]_vars => (Typed /\ IInv)'
  BY NextIInv
<1> QED BY <1>1, <1>2, PTL DEF Spec

(* load_state accepts the state file whenever the process ends: pulse and  *)
(* worker_main never leave one on disk that contradicts itself.            *)
THEOREM StateFileAlwaysLoads == Spec => []StateFileLoads
<1>1. ASSUME IInv PROVE StateFileLoads
  <2>1. ASSUME NEW j \in Jobs, NEW e, e = disk[j]
        PROVE  /\ e.work = NoWork => e = Idle
               /\ e.request # None => e.request.work = e.work /\ e.request.cursor = e.cursor
               /\ e.completion # None => e.completion.work = e.work
    <3>1. EntryOK(View, j, e)
      BY <1>1, <2>1 DEF IInv, Files, Entries
    <3> QED BY <3>1 DEF EntryOK, Asks, Answers
  <2> QED BY <2>1 DEF StateFileLoads, Loads
<1> QED BY <1>1, MaintenanceIsInductive, PTL

(* Every run changes a zone at most once, and one that pulse was told is   *)
(* complete changed all of them or, at the first page's time check, none:  *)
(* lost COMMIT answers, failed writes of the file and crashes included.    *)
THEOREM ZonesChangeOnce == Spec => []EachZoneOnce
<1>1. ASSUME Typed, IInv PROVE EachZoneOnce
  <2>1. ASSUME NEW w \in 1 .. MaxWorks, NEW z \in 1 .. Zones PROVE applied[w][z] <= 1
    <3>1. PICK n : n = applied[w][z]
      OBVIOUS
    <3>2. n \in {0, 1}
      BY <1>1, <3>1 DEF IInv, Runs, Ended
    <3>3. n <= 1
      BY <3>2
    <3> QED BY <3>1, <3>3
  <2>2. ASSUME NEW w \in 1 .. MaxWorks, NEW r \in delivered, r.work = w, r.outcome = "complete",
               \E z \in 1 .. Zones : applied[w][z] # 0
        PROVE  \A z \in 1 .. Zones : applied[w][z] = 1
    <3>1. Untouched(View, w) \/ Full(View, w)
      BY <1>1, <2>2 DEF IInv, Runs, Ended
    <3> QED BY <2>2, <3>1 DEF Untouched, Full, View
  <2> QED BY <2>1, <2>2 DEF EachZoneOnce
<1> QED BY <1>1, MaintenanceIsInductive, PTL

(* The state file moves past a page, or drops a run that changed zones,    *)
(* only after pulse has handed that page's result to the game.             *)
THEOREM NothingForgottenEarly == Spec => []ForgottenIsDelivered
<1>1. ASSUME Typed, IInv PROVE ForgottenIsDelivered
  <2>1. ASSUME NEW j \in Jobs, disk[j].cursor # 0
        PROVE  \E r \in delivered : r.work = disk[j].work /\ r.outcome = "more" /\ r.next = disk[j].cursor
    <3>1. PICK e : e = disk[j]
      OBVIOUS
    <3>2. EntryOK(View, j, e)
      BY <1>1, <3>1 DEF IInv, Files, Entries
    <3>3. e.work # NoWork
      BY <2>1, <3>1, <3>2, IdleTyped DEF EntryOK
    <3>4. Reached(View, e.work, e.cursor)
      BY <3>2, <3>3 DEF EntryOK, Run
    <3>5. View.delivered = delivered
      BY DEF View
    <3> QED BY <2>1, <3>1, <3>4, <3>5 DEF Reached
  <2>2. ASSUME NEW w \in 1 .. MaxWorks, \E z \in 1 .. Zones : applied[w][z] # 0,
               \A j \in Jobs : disk[j].work # w
        PROVE  \E r \in delivered : r.work = w /\ r.outcome \in Retired
    <3>1. ~Untouched(View, w)
      BY <2>2 DEF Untouched, View
    <3>2. ~Carried(w)
      BY <2>2 DEF Carried
    <3>3. Gone(View, w)
      BY <1>1, <3>1, <3>2 DEF IInv, Runs, Touched
    <3> QED BY <3>3 DEF Gone, View
  <2> QED BY <2>1, <2>2 DEF ForgottenIsDelivered
<1> QED BY <1>1, MaintenanceIsInductive, PTL

(* epic_task_catalog_complete publishes every zone or nothing, although    *)
(* its pages are in memory while the cursor is in the state file.          *)
THEOREM CatalogAlwaysWhole == Spec => []CatalogIsWhole
<1>1. ASSUME IInv PROVE CatalogIsWhole
  BY <1>1 DEF IInv, CatalogOK, CatalogIsWhole, First
<1> QED BY <1>1, MaintenanceIsInductive, PTL

(* An active job is in exactly one of the queue, the worker and the        *)
(* results, under the work id that pulse waits for, and every variable has *)
(* its type.                                                               *)
THEOREM JobsHaveOneOwner == Spec => []SchedulerInv
<1>1. ASSUME Typed, IInv PROVE SchedulerInv
  <2>1. TypeOK
    <3>1. /\ worker.stage \in Stages /\ worker.request \in Request \cup {None}
          /\ worker.result \in Result \cup {None} /\ worker.copy \in [Jobs -> Entry]
      BY <1>1, WorkerTyped DEF Typed
    <3> QED BY <1>1, <3>1 DEF Typed, GameTyped, PagesTyped, FilesTyped, DatabaseTyped, CountsTyped,
                              TypeOK, Job, Stages
  <2>2. Held /\ Alone /\ Present /\ Queued /\ Handed
    BY <1>1 DEF IInv, Placed
  <2>3. /\ DOMAIN queue = 1 .. Len(queue) /\ DOMAIN completions = 1 .. Len(completions)
    BY <1>1 DEF Typed, GameTyped
  <2>4. Holding => worker.request \in Request /\ worker.request.job \in Jobs /\ worker.request # None
    BY <1>1, HeldLives, NotNone
  <2>5. ASSUME NEW j \in Jobs, NEW x \in Places(j)
        PROVE  \/ \E i \in 1 .. Len(queue) : queue[i].job = j /\ x = <<"queue", i>>
               \/ \E i \in 1 .. Len(completions) : completions[i].job = j /\ x = <<"completions", i>>
               \/ Holding /\ worker.request.job = j /\ x = <<"worker", 0>>
    BY <2>2, <2>5 DEF Places, Held
  <2>6. ASSUME NEW j \in Jobs, NEW x \in Places(j), NEW y \in Places(j) PROVE x = y
    BY <2>2, <2>5, <2>6 DEF Alone
  <2>7. ASSUME NEW j \in Jobs, ~stop, health[j].active PROVE Places(j) # {}
    <3>1. CASE \E i \in 1 .. Len(queue) : queue[i].job = j
      BY <3>1 DEF Places
    <3>2. CASE \E i \in 1 .. Len(completions) : completions[i].job = j
      BY <3>2 DEF Places
    <3>3. CASE Holding /\ worker.request.job = j
      BY <2>4, <3>3 DEF Places
    <3> QED BY <2>2, <2>7, <3>1, <3>2, <3>3 DEF Present
  <2>8. ASSUME NEW j \in Jobs, NEW x \in Places(j) PROVE health[j].active
    <3>1. \A i \in 1 .. Len(queue) : health[queue[i].job].active
      BY <2>2 DEF Queued, QueuedOK
    <3>2. \A i \in 1 .. Len(completions) : health[completions[i].job].active
      BY <2>2 DEF Handed, HandedOK
    <3>3. Holding => health[worker.request.job].active
      BY <2>2 DEF Held
    <3> QED BY <2>5, <2>8, <3>1, <3>2, <3>3
  <2>9. ASSUME NEW j \in Jobs,
               NEW r \in ToSet(queue) \cup ToSet(completions) \cup ({worker.request} \ {None}),
               r.job = j
        PROVE  r.work = health[j].work
    <3>1. CASE r \in ToSet(queue)
      <4>1. PICK i \in 1 .. Len(queue) : r = queue[i]
        BY <2>3, <3>1 DEF ToSet
      <4> QED BY <2>2, <2>9, <4>1 DEF Queued, QueuedOK, Asks
    <3>2. CASE r \in ToSet(completions)
      <4>1. PICK i \in 1 .. Len(completions) : r = completions[i]
        BY <2>3, <3>2 DEF ToSet
      <4> QED BY <2>2, <2>9, <4>1 DEF Handed, HandedOK
    <3>3. CASE r = worker.request /\ worker.request # None
      BY <2>2, <2>9, <3>3 DEF Held
    <3> QED BY <2>9, <3>1, <3>2, <3>3
  <2>10. OneOwner
    <3>1. ASSUME NEW j \in Jobs PROVE ~stop => (health[j].active <=> Places(j) # {})
      <4>1. Places(j) # {} => health[j].active
        BY <2>8
      <4>2. ~stop /\ health[j].active => Places(j) # {}
        BY <2>7
      <4>3. health[j].active \in BOOLEAN
        BY <1>1 DEF Typed, GameTyped, Job
      <4> QED BY <4>1, <4>2, <4>3
    <3> QED BY <2>6, <2>9, <3>1 DEF OneOwner
  <2> QED BY <2>1, <2>10 DEF SchedulerInv
<1> QED BY <1>1, MaintenanceIsInductive, PTL
=============================================================================
