---------------------- MODULE PlayerSaveJournalProofs ----------------------
(***************************************************************************)
(* The journal of player saves, whatever the players, revisions, limits,   *)
(* deaths, logins and number of crashes, as long as no failed append       *)
(* leaves a record that names its full length and misses part of it: a     *)
(* save that was handed off leaves the journal only on evidence, and a     *)
(* replay that ends has found it for all of them.                          *)
(* With such a record the scan loses the record after it, which the run    *)
(* save_journal_torn shows.                                                *)
(***************************************************************************)
EXTENDS PlayerSaveJournal, SequenceLemmas, TLAPS

\* The row of player p was once at revision n, or it is where it began.
Evidenced(p, n) == n = 0 \/ \E g \in committed : g[1] = p /\ g[2] = n

Whole(frame) == \E i \in 1 .. Len(file) : file[i].frame = frame /\ file[i].kind = "whole"

Held(frame) ==
  \E i \in 1 .. Len(file) : file[i].frame = frame /\ file[i].kind = "whole" /\ file[i].synced

\* No record reaches into the one after it.
Clean == \A i \in 1 .. Len(file) : file[i].kind # "long"

\* The writer works only once the replay has ended.
Idle == phase # "serving" => writer_jobs = {} /\ evidence = <<>>

\* What a checkpoint will be given is evidence, now and when it is given it: the
\* revision of the database, the one the writer found, and the ones the replay saw.
Evidence ==
  /\ \A p \in Pids : Evidenced(p, save_revision[p])
  /\ evidence # <<>> => Evidenced(evidence[1][1], evidence[2])
  /\ \A p \in Pids : Evidenced(p, acknowledged[p])

\* A save handed off is durable, or in the file where no crash can take it.
HandedOff == \A frame \in handed_off : Durable(frame) \/ Held(frame)

\* What the replay still has to do: a death leaves the file when it is replayed, and
\* what else was replayed is covered by what the replay saw.
Replaying ==
  phase = "replaying" =>
    \A frame \in Frames : Whole(frame) =>
      frame \in todo \/ (~Death(frame) /\ acknowledged[frame[1]] >= frame[2])

IInv == TypeOK /\ Clean /\ Idle /\ Evidence /\ HandedOff /\ Replaying

-----------------------------------------------------------------------------
(***************************************************************************)
(* The operators.                                                          *)
(***************************************************************************)
LEMMA MaxOfTwo ==
  ASSUME NEW a \in Int, NEW b \in Int
  PROVE  /\ Max({a, b}) \in {a, b}
         /\ a =< Max({a, b}) /\ b =< Max({a, b})
<1>1. \E x \in {a, b} : \A y \in {a, b} : x >= y
  <2>1. CASE a >= b
    BY <2>1
  <2>2. CASE b >= a
    BY <2>2
  <2> QED BY <2>1, <2>2
<1> DEFINE m == CHOOSE x \in {a, b} : \A y \in {a, b} : x >= y
<1>2. m \in {a, b} /\ \A y \in {a, b} : m >= y
  BY <1>1
<1>3. Max({a, b}) = m
  BY DEF Max
<1> HIDE DEF m
<1> QED BY <1>2, <1>3

LEMMA NoneSwallowed ==
  ASSUME NEW records \in Seq(Record), \A i \in 1 .. Len(records) : records[i].kind # "long"
  PROVE  Swallowed(records) = {}
<1> DEFINE row(i) == {j \in 1 .. i - 1 : \A k \in j .. i - 1 : records[k].kind = "long"}
<1>1. DOMAIN records = 1 .. Len(records) /\ Len(records) \in Nat
  OBVIOUS
<1>2. ASSUME NEW i \in DOMAIN records PROVE Cardinality(row(i)) = 0
  <2>1. ASSUME NEW j \in 1 .. i - 1 PROVE ~\A k \in j .. i - 1 : records[k].kind = "long"
    <3>1. j \in j .. i - 1 /\ j \in 1 .. Len(records)
      BY <1>1
    <3> QED BY <3>1
  <2>2. row(i) = {}
    BY <2>1
  <2> QED BY <2>2, FS_EmptySet
<1>3. Swallowed(records) = {i \in DOMAIN records : Cardinality(row(i)) % 2 = 1}
  BY DEF Swallowed
<1> HIDE DEF row
<1>4. 0 % 2 # 1
  OBVIOUS
<1> QED BY <1>2, <1>3, <1>4

\* The scan of a file without long records finds exactly the whole ones.
LEMMA ReadableOnes ==
  ASSUME TypeOK, Clean, NEW t, t = Readable(file)
  PROVE  /\ t \in Seq(Record) /\ Len(t) \in Nat
         /\ \A i \in 1 .. Len(t) : \E a \in 1 .. Len(file) : t[i] = file[a] /\ file[a].kind = "whole"
         /\ \A a \in 1 .. Len(file) : file[a].kind = "whole" => \E i \in 1 .. Len(t) : t[i] = file[a]
<1>1. file \in Seq(Record) /\ DOMAIN file = 1 .. Len(file)
  BY DEF TypeOK
<1> DEFINE K == {i \in 1 .. Len(file) : file[i].kind = "whole"}
<1>2. Swallowed(file) = {}
  BY <1>1, NoneSwallowed DEF Clean
<1>3. t = Kept(file, K)
  BY <1>1, <1>2 DEF Readable
<1>4. K \subseteq 1 .. Len(file)
  OBVIOUS
<1>5. \A a : a \in K <=> a \in 1 .. Len(file) /\ file[a].kind = "whole"
  OBVIOUS
<1> HIDE DEF K
<1>6. t \in Seq(Record) /\ Len(t) \in Nat /\ Comes(file, K, t) /\ Stays(file, K, t)
  BY <1>1, <1>3, <1>4, KeptOnes
<1> QED BY <1>5, <1>6 DEF Comes, Stays

LEMMA SyncedOnes ==
  ASSUME NEW records \in Seq(Record), NEW t, t = Synced(records)
  PROVE  /\ t \in Seq(Record) /\ Len(t) = Len(records)
         /\ \A i \in 1 .. Len(records) : /\ t[i].frame = records[i].frame
                                         /\ t[i].kind = records[i].kind /\ t[i].synced
<1>1. DOMAIN records = 1 .. Len(records) /\ Len(records) \in Nat
      /\ \A i \in 1 .. Len(records) : records[i] \in Record
  OBVIOUS
<1>2. \A i \in 1 .. Len(records) : /\ [records[i] EXCEPT !.synced = TRUE] \in Record
                                   /\ [records[i] EXCEPT !.synced = TRUE].frame = records[i].frame
                                   /\ [records[i] EXCEPT !.synced = TRUE].kind = records[i].kind
                                   /\ [records[i] EXCEPT !.synced = TRUE].synced
  BY <1>1 DEF Record
<1>3. t = [i \in 1 .. Len(records) |-> [records[i] EXCEPT !.synced = TRUE]]
  BY <1>1 DEF Synced
<1>4. t \in [1 .. Len(records) -> Record]
  BY <1>2, <1>3
<1>5. t \in Seq(Record) /\ Len(t) = Len(records)
  BY <1>1, <1>4, Listed
<1> QED BY <1>2, <1>3, <1>5

\* A rewritten file holds the whole records of the frames that are not released, synced.
LEMMA RewrittenOnes ==
  ASSUME TypeOK, Clean, NEW released, NEW t, t = Rewritten(released)
  PROVE  /\ t \in Seq(Record)
         /\ \A i \in 1 .. Len(t) : /\ t[i].kind = "whole" /\ t[i].synced
                                   /\ t[i].frame \notin released /\ Whole(t[i].frame)
         /\ \A frame : Whole(frame) /\ frame \notin released =>
              \E i \in 1 .. Len(t) : t[i].frame = frame /\ t[i].kind = "whole" /\ t[i].synced
<1>1. PICK r : r = Readable(file)
  OBVIOUS
<1>2. PICK s : s = Synced(r)
  OBVIOUS
<1>3. /\ r \in Seq(Record) /\ Len(r) \in Nat
      /\ \A i \in 1 .. Len(r) : \E a \in 1 .. Len(file) : r[i] = file[a] /\ file[a].kind = "whole"
      /\ \A a \in 1 .. Len(file) : file[a].kind = "whole" => \E i \in 1 .. Len(r) : r[i] = file[a]
  BY <1>1, ReadableOnes
<1>4. /\ s \in Seq(Record) /\ Len(s) = Len(r)
      /\ \A i \in 1 .. Len(r) : /\ s[i].frame = r[i].frame
                                /\ s[i].kind = r[i].kind /\ s[i].synced
  BY <1>2, <1>3, SyncedOnes
<1>5. DOMAIN s = 1 .. Len(s)
  BY <1>4
<1> DEFINE K == {i \in 1 .. Len(s) : s[i].frame \notin released}
<1>6. t = Kept(s, K)
  BY <1>1, <1>2, <1>5 DEF Rewritten
<1>7. /\ K \subseteq 1 .. Len(s)
      /\ \A i : i \in K <=> i \in 1 .. Len(s) /\ s[i].frame \notin released
  OBVIOUS
<1> HIDE DEF K
<1>8. /\ t \in Seq(Record)
      /\ \A i \in 1 .. Len(t) : \E a \in K : t[i] = s[a]
      /\ \A a \in K : \E i \in 1 .. Len(t) : t[i] = s[a]
  <2>1. t \in Seq(Record) /\ Comes(s, K, t) /\ Stays(s, K, t)
    BY <1>4, <1>6, <1>7, KeptOnes
  <2> QED BY <2>1 DEF Comes, Stays
<1>9. ASSUME NEW i \in 1 .. Len(t)
      PROVE  /\ t[i].kind = "whole" /\ t[i].synced
             /\ t[i].frame \notin released /\ Whole(t[i].frame)
  <2>1. PICK a \in K : t[i] = s[a]
    BY <1>8
  <2>2. a \in 1 .. Len(r) /\ s[a].frame \notin released
    BY <1>4, <1>7
  <2>3. PICK b \in 1 .. Len(file) : r[a] = file[b] /\ file[b].kind = "whole"
    BY <1>3, <2>2
  <2> QED BY <1>4, <2>1, <2>2, <2>3 DEF Whole
<1>10. ASSUME NEW frame, Whole(frame), frame \notin released
       PROVE  \E i \in 1 .. Len(t) : t[i].frame = frame /\ t[i].kind = "whole" /\ t[i].synced
  <2>1. PICK b \in 1 .. Len(file) : file[b].frame = frame /\ file[b].kind = "whole"
    BY <1>10 DEF Whole
  <2>2. PICK a \in 1 .. Len(r) : r[a] = file[b]
    BY <1>3, <2>1
  <2>3. a \in K
    BY <1>4, <1>7, <1>10, <2>1, <2>2
  <2>4. PICK i \in 1 .. Len(t) : t[i] = s[a]
    BY <1>8, <2>3
  <2> QED BY <1>4, <2>1, <2>2, <2>4
<1> QED BY <1>8, <1>9, <1>10

-----------------------------------------------------------------------------
(***************************************************************************)
(* What the database was once at stays evidence.                           *)
(***************************************************************************)
Forward ==
  /\ save_revision' \in [Pids -> Nat]
  /\ committed \subseteq committed' /\ committed' \subseteq Frames

LEMMA FrameFacts ==
  ASSUME NEW frame \in Frames
  PROVE  /\ frame[1] \in Pids /\ frame[2] \in Nat /\ frame[2] \in Int /\ frame[2] > 0
         /\ frame[2] =< MaxRevision[frame[1]]
<1>1. PICK p \in Pids : frame \in {p} \X (1 .. MaxRevision[p]) \X BOOLEAN
  BY DEF Frames
<1>2. MaxRevision[p] \in Nat
  BY JournalAssumption
<1> QED BY <1>1, <1>2

LEMMA EvidenceStays ==
  ASSUME Forward, NEW p \in Pids, NEW n \in Nat, Evidenced(p, n)
  PROVE  Evidenced(p, n)'
BY DEF Evidenced, Forward

LEMMA DurableStays ==
  ASSUME Forward, NEW frame \in Frames, Durable(frame)
  PROVE  Durable(frame)'
BY DEF Durable, Forward

\* What a checkpoint releases on such evidence is durable.
LEMMA SupersededIsDurable ==
  ASSUME NEW p \in Pids, NEW n \in Nat, Evidenced(p, n)',
         NEW frame \in Frames, Superseded(frame, p, n)
  PROVE  Durable(frame)'
<1>1. /\ frame[1] = p /\ frame[2] =< n /\ (Death(frame) => frame[2] = n)
      /\ frame[2] \in Int /\ frame[2] > 0
  BY FrameFacts DEF Superseded
<1>2. n # 0
  BY <1>1
<1>3. PICK g \in committed' : g[1] = p /\ g[2] = n
  BY <1>2 DEF Evidenced
<1> QED BY <1>1, <1>3 DEF Durable

\* An application moves the database forward, to a revision it then has evidence for.
LEMMA Applied ==
  ASSUME IInv, NEW frame \in Frames, Apply(frame), NEW d, d = DurableAfter(frame)
  PROVE  /\ Forward
         /\ d \in Nat /\ frame[2] =< d /\ d \in {save_revision[frame[1]], frame[2]}
         /\ Evidenced(frame[1], d)'
         /\ (\A p \in Pids : Evidenced(p, save_revision[p]))'
<1> DEFINE p == frame[1]
           n == frame[2]
<1>1. /\ p \in Pids /\ n \in Nat /\ n \in Int
      /\ save_revision \in [Pids -> Nat] /\ committed \subseteq Frames
      /\ \A q \in Pids : save_revision[q] \in Int /\ save_revision[q] \in Nat
  <2>1. TypeOK
    BY DEF IInv
  <2> QED BY <2>1, FrameFacts DEF TypeOK
<1>2. /\ d \in {save_revision[p], n} /\ save_revision[p] =< d /\ n =< d
  BY <1>1, MaxOfTwo DEF DurableAfter
<1>3. d \in Nat /\ d \in Int
  BY <1>1, <1>2
<1>4. /\ save_revision' = [save_revision EXCEPT ![p] = d]
      /\ committed' = IF save_revision[p] < n THEN committed \cup {frame} ELSE committed
  BY DEF Apply
<1>5. frame[1] = p /\ frame[2] = n
  OBVIOUS
<1> HIDE DEF p, n
<1>6. /\ save_revision'[p] = d /\ save_revision' \in [Pids -> Nat]
      /\ \A q \in Pids : q # p => save_revision'[q] = save_revision[q]
  BY <1>1, <1>3, <1>4
<1>7. Forward
  BY <1>1, <1>4, <1>6 DEF Forward
<1>8. Evidenced(p, d)'
  <2>1. CASE d = save_revision[p]
    BY <1>1, <1>7, <2>1 DEF IInv, Evidence, Evidenced, Forward
  <2>2. CASE d = n /\ d # save_revision[p]
    <3>1. save_revision[p] < n
      BY <1>1, <1>2, <2>2
    <3>2. frame \in committed'
      BY <1>4, <3>1
    <3> QED BY <1>5, <2>2, <3>2 DEF Evidenced
  <2> QED BY <1>2, <2>1, <2>2
<1>9. (\A q \in Pids : Evidenced(q, save_revision[q]))'
  <2> SUFFICES ASSUME NEW q \in Pids, NEW r, r = save_revision'[q] PROVE Evidenced(q, r)'
    BY DEF Evidenced
  <2>1. CASE q = p
    <3>1. r = d
      BY <1>6, <2>1
    <3> QED BY <1>8, <2>1, <3>1 DEF Evidenced
  <2>2. CASE q # p
    <3>1. r = save_revision[q]
      BY <1>6, <2>2
    <3> QED BY <1>7, <3>1 DEF IInv, Evidence, Evidenced, Forward
  <2> QED BY <2>1, <2>2
<1> QED BY <1>2, <1>3, <1>5, <1>7, <1>8, <1>9

-----------------------------------------------------------------------------
(***************************************************************************)
(* The steps.                                                              *)
(***************************************************************************)
LEMMA StandingStill == ASSUME TypeOK, UNCHANGED <<save_revision, committed>> PROVE Forward
BY DEF TypeOK, Forward

LEMMA EvidenceKept ==
  ASSUME IInv, UNCHANGED <<save_revision, committed>>,
         evidence' = evidence \/ evidence' = <<>>,
         acknowledged' = acknowledged \/ acknowledged' = [p \in Pids |-> 0]
  PROVE  Evidence'
<1>1. Evidence /\ TypeOK
  BY DEF IInv
<1>2. (\A p \in Pids : Evidenced(p, acknowledged[p]))'
  <2>1. CASE acknowledged' = acknowledged
    BY <1>1, <2>1 DEF Evidence, Evidenced
  <2>2. CASE acknowledged' = [p \in Pids |-> 0]
    BY <2>2 DEF Evidenced
  <2> QED BY <2>1, <2>2
<1>3. (evidence # <<>> => Evidenced(evidence[1][1], evidence[2]))'
  BY <1>1 DEF Evidence, Evidenced
<1> QED BY <1>1, <1>2, <1>3 DEF Evidence, Evidenced

LEMMA SameFile ==
  ASSUME IInv, Forward, UNCHANGED <<file, handed_off>>
  PROVE  Clean' /\ HandedOff'
<1>1. TypeOK /\ Clean /\ HandedOff /\ handed_off \subseteq Frames
  BY DEF IInv, TypeOK
<1>2. Clean'
  BY <1>1 DEF Clean
<1>3. ASSUME NEW frame \in handed_off PROVE Durable(frame)' \/ Held(frame)'
  <2>1. CASE Durable(frame)
    BY <1>1, <2>1, DurableStays
  <2>2. CASE Held(frame)
    BY <2>2 DEF Held
  <2> QED BY <1>1, <1>3, <2>1, <2>2 DEF HandedOff
<1> QED BY <1>2, <1>3 DEF HandedOff

LEMMA RewriteKeeps ==
  ASSUME IInv, Forward, handed_off' = handed_off, NEW released, file' = Rewritten(released),
         \A frame \in Frames : frame \in released => Durable(frame)'
  PROVE  /\ file' \in Seq(Record) /\ Clean' /\ HandedOff'
         /\ \A frame : Whole(frame)' => Whole(frame) /\ frame \notin released
<1>1. TypeOK /\ Clean /\ HandedOff /\ handed_off \subseteq Frames
  BY DEF IInv, TypeOK
<1>2. PICK t : t = Rewritten(released)
  OBVIOUS
<1>3. /\ t \in Seq(Record)
      /\ \A i \in 1 .. Len(t) : /\ t[i].kind = "whole" /\ t[i].synced
                                /\ t[i].frame \notin released /\ Whole(t[i].frame)
      /\ \A frame : Whole(frame) /\ frame \notin released =>
           \E i \in 1 .. Len(t) : t[i].frame = frame /\ t[i].kind = "whole" /\ t[i].synced
  BY <1>1, <1>2, RewrittenOnes
<1>4. file' = t
  BY <1>2
<1>5. Clean'
  BY <1>3, <1>4 DEF Clean
<1>6. \A frame : Whole(frame)' => Whole(frame) /\ frame \notin released
  <2> SUFFICES ASSUME NEW frame, NEW i \in 1 .. Len(t), t[i].frame = frame
               PROVE  Whole(frame) /\ frame \notin released
    BY <1>4 DEF Whole
  <2> QED BY <1>3
<1>7. ASSUME NEW frame \in handed_off PROVE Durable(frame)' \/ Held(frame)'
  <2>1. CASE Durable(frame)
    BY <1>1, <2>1, DurableStays
  <2>2. CASE frame \in released
    BY <1>1, <2>2
  <2>3. CASE Held(frame) /\ frame \notin released
    <3>1. Whole(frame)
      BY <2>3 DEF Held, Whole
    <3> QED BY <1>3, <1>4, <2>3, <3>1 DEF Held
  <2> QED BY <1>1, <1>7, <2>1, <2>2, <2>3 DEF HandedOff
<1> QED BY <1>3, <1>4, <1>5, <1>6, <1>7 DEF HandedOff

LEMMA CompactKeeps ==
  ASSUME IInv, Forward, handed_off' = handed_off, NEW p \in Pids, NEW n \in Nat,
         Evidenced(p, n)', file' = Compacted(p, n)
  PROVE  /\ file' \in Seq(Record) /\ Clean' /\ HandedOff'
         /\ \A frame \in Frames : Whole(frame)' => Whole(frame) /\ ~Superseded(frame, p, n)
<1> DEFINE released == {frame \in Frames : Superseded(frame, p, n)}
<1>1. \A frame \in Frames : frame \in released => Durable(frame)'
  BY SupersededIsDurable
<1>2. file' = Rewritten(released)
  BY DEF Compacted
<1>3. \A frame \in Frames : frame \in released <=> Superseded(frame, p, n)
  OBVIOUS
<1> HIDE DEF released
<1> QED BY <1>1, <1>2, <1>3, RewriteKeeps

LEMMA BootKeeps == ASSUME IInv, Boot PROVE IInv'
<1>1. TypeOK /\ Clean /\ HandedOff /\ Idle /\ handed_off \subseteq Frames
  BY DEF IInv, TypeOK
<1>2. /\ UNCHANGED <<save_revision, committed, current_revision, captured, writer_jobs, evidence, acknowledged,
                     handed_off, crashes>>
      /\ todo' = ReadableFrames /\ phase = "down" /\ phase' = "replaying"
  BY DEF Boot, database, game
<1>3. PICK r : r = Readable(file)
  OBVIOUS
<1>4. PICK s : s = Synced(r)
  OBVIOUS
<1>5. file' = s \/ file' = file
  BY <1>3, <1>4 DEF Boot
<1>6. /\ r \in Seq(Record) /\ Len(r) \in Nat /\ DOMAIN r = 1 .. Len(r)
      /\ \A i \in 1 .. Len(r) : \E a \in 1 .. Len(file) : r[i] = file[a] /\ file[a].kind = "whole"
      /\ \A a \in 1 .. Len(file) : file[a].kind = "whole" => \E i \in 1 .. Len(r) : r[i] = file[a]
  BY <1>1, <1>3, ReadableOnes
<1>7. /\ s \in Seq(Record) /\ Len(s) = Len(r)
      /\ \A i \in 1 .. Len(r) : /\ s[i].frame = r[i].frame
                                /\ s[i].kind = r[i].kind /\ s[i].synced
  BY <1>4, <1>6, SyncedOnes
<1>8. \A frame : Whole(frame) <=> frame \in ReadableFrames
  <2>1. ASSUME NEW frame, Whole(frame) PROVE frame \in ReadableFrames
    <3>1. PICK a \in 1 .. Len(file) : file[a].frame = frame /\ file[a].kind = "whole"
      BY <2>1 DEF Whole
    <3>2. PICK i \in 1 .. Len(r) : r[i] = file[a]
      BY <1>6, <3>1
    <3> QED BY <1>3, <1>6, <3>1, <3>2 DEF ReadableFrames
  <2>2. ASSUME NEW frame \in ReadableFrames PROVE Whole(frame)
    <3>1. PICK i \in 1 .. Len(r) : r[i].frame = frame
      BY <1>3, <1>6 DEF ReadableFrames
    <3>2. PICK a \in 1 .. Len(file) : r[i] = file[a] /\ file[a].kind = "whole"
      BY <1>6
    <3> QED BY <3>1, <3>2 DEF Whole
  <2> QED BY <2>1, <2>2
<1>9. ReadableFrames \subseteq Frames
  <2> SUFFICES ASSUME NEW frame, Whole(frame) PROVE frame \in Frames
    BY <1>8
  <2>1. PICK a \in 1 .. Len(file) : file[a].frame = frame
    BY DEF Whole
  <2>2. file[a] \in Record
    BY <1>1, <2>1 DEF TypeOK
  <2> QED BY <2>1, <2>2 DEF Record
<1>10. Forward
  BY <1>1, <1>2, StandingStill
<1>11. Evidence'
  BY <1>2, EvidenceKept
<1>12. CASE file' = file
  <2>1. Clean' /\ HandedOff'
    BY <1>2, <1>10, <1>12, SameFile
  <2>2. Replaying'
    BY <1>2, <1>8, <1>12 DEF Replaying, Whole
  <2>3. TypeOK'
    BY <1>1, <1>2, <1>9, <1>12 DEF TypeOK
  <2>4. Idle'
    BY <1>1, <1>2 DEF Idle
  <2> QED BY <1>11, <2>1, <2>2, <2>3, <2>4 DEF IInv
<1>13. CASE file' = s
  <2>1. Clean'
    <3> SUFFICES ASSUME NEW i \in 1 .. Len(r) PROVE s[i].kind # "long"
      BY <1>7, <1>13 DEF Clean
    <3>1. PICK a \in 1 .. Len(file) : r[i] = file[a] /\ file[a].kind = "whole"
      BY <1>6
    <3> QED BY <1>7, <3>1
  <2>2. ASSUME NEW frame, Whole(frame)' PROVE frame \in ReadableFrames
    <3>1. PICK i \in 1 .. Len(r) : s[i].frame = frame
      BY <1>7, <1>13, <2>2 DEF Whole
    <3>2. PICK a \in 1 .. Len(file) : r[i] = file[a] /\ file[a].kind = "whole"
      BY <1>6
    <3>3. Whole(frame)
      BY <1>7, <3>1, <3>2 DEF Whole
    <3> QED BY <1>8, <3>3
  <2>3. ASSUME NEW frame \in handed_off PROVE Durable(frame)' \/ Held(frame)'
    <3>1. CASE Durable(frame)
      BY <1>1, <1>10, <3>1, DurableStays
    <3>2. CASE Held(frame)
      <4>1. PICK a \in 1 .. Len(file) : file[a].frame = frame /\ file[a].kind = "whole"
        BY <3>2 DEF Held
      <4>2. PICK i \in 1 .. Len(r) : r[i] = file[a]
        BY <1>6, <4>1
      <4> QED BY <1>7, <1>13, <4>1, <4>2 DEF Held
    <3> QED BY <1>1, <2>3, <3>1, <3>2 DEF HandedOff
  <2>4. HandedOff'
    BY <1>2, <2>3 DEF HandedOff
  <2>5. Replaying'
    BY <1>2, <2>2 DEF Replaying
  <2>6. TypeOK'
    BY <1>1, <1>2, <1>7, <1>9, <1>13 DEF TypeOK
  <2>7. Idle'
    BY <1>1, <1>2 DEF Idle
  <2> QED BY <1>11, <2>1, <2>4, <2>5, <2>6, <2>7 DEF IInv
<1> QED BY <1>5, <1>12, <1>13

LEMMA AppendOKKeeps == ASSUME IInv, NEW frame \in Frames, AppendOK(frame) PROVE IInv'
<1>1. TypeOK /\ Clean /\ HandedOff /\ handed_off \subseteq Frames /\ file \in Seq(Record)
  BY DEF IInv, TypeOK
<1> DEFINE new == [frame |-> frame, kind |-> "whole", synced |-> TRUE]
<1>2. new \in Record /\ new.frame = frame /\ new.kind = "whole" /\ new.synced
  BY DEF Record
<1>3. /\ UNCHANGED <<save_revision, committed, phase, current_revision, evidence, todo, acknowledged,
                     crashes>>
      /\ captured' \subseteq captured
      /\ file' = Synced(Append(file, new)) /\ phase = "serving"
      /\ handed_off' = handed_off \cup {frame} /\ writer_jobs' = writer_jobs \cup {frame}
  BY DEF AppendOK, MayAppend, database
<1> HIDE DEF new
<1>4. PICK a : a = Append(file, new)
  OBVIOUS
<1>5. /\ a \in Seq(Record) /\ Len(file) \in Nat /\ Len(a) = Len(file) + 1
      /\ \A i \in 1 .. Len(file) : i \in 1 .. Len(a) /\ a[i] = file[i]
      /\ Len(file) + 1 \in 1 .. Len(a) /\ a[Len(file) + 1] = new
      /\ \A i \in 1 .. Len(a) : \/ i \in 1 .. Len(file) /\ a[i] = file[i]
                                \/ i = Len(file) + 1 /\ a[i] = new
  BY <1>1, <1>2, <1>4, Appended
<1>6. /\ file' \in Seq(Record) /\ Len(file') = Len(a)
      /\ \A i \in 1 .. Len(a) : /\ file'[i].frame = a[i].frame
                                /\ file'[i].kind = a[i].kind /\ file'[i].synced
  <2>1. PICK t : t = Synced(a)
    OBVIOUS
  <2>2. /\ t \in Seq(Record) /\ Len(t) = Len(a)
        /\ \A i \in 1 .. Len(a) : t[i].frame = a[i].frame /\ t[i].kind = a[i].kind /\ t[i].synced
    BY <1>5, <2>1, SyncedOnes
  <2>3. file' = t
    BY <1>3, <1>4, <2>1
  <2> QED BY <2>2, <2>3
<1>7. Clean'
  BY <1>1, <1>2, <1>5, <1>6 DEF Clean
<1>8. Forward
  BY <1>1, <1>3, StandingStill
<1>9. ASSUME NEW g \in handed_off' PROVE Durable(g)' \/ Held(g)'
  <2>1. CASE g = frame
    BY <1>2, <1>5, <1>6, <2>1 DEF Held
  <2>2. CASE g \in handed_off /\ Durable(g)
    BY <1>1, <1>8, <2>2, DurableStays
  <2>3. CASE Held(g)
    BY <1>5, <1>6, <2>3 DEF Held
  <2> QED BY <1>1, <1>3, <2>1, <2>2, <2>3 DEF HandedOff
<1>10. HandedOff'
  BY <1>9 DEF HandedOff
<1>11. Evidence'
  BY <1>3, EvidenceKept
<1>12. TypeOK'
  BY <1>1, <1>3, <1>6 DEF TypeOK
<1>13. Idle' /\ Replaying'
  BY <1>3 DEF Idle, Replaying
<1> QED BY <1>7, <1>10, <1>11, <1>12, <1>13 DEF IInv

LEMMA AppendFailsKeeps ==
  ASSUME "long" \notin Leavings, IInv, NEW frame \in Frames, NEW left \in Leavings,
         AppendFails(frame, left)
  PROVE  IInv'
<1>1. TypeOK /\ Clean /\ HandedOff /\ handed_off \subseteq Frames /\ file \in Seq(Record)
  BY DEF IInv, TypeOK
<1>2. PICK new : new = [frame |-> frame, synced |-> FALSE,
                        kind |-> IF left = "unsynced" THEN "whole" ELSE left]
  OBVIOUS
<1>3. /\ UNCHANGED <<save_revision, committed, current_revision, captured, phase, writer_jobs, evidence, todo,
                     acknowledged, handed_off, crashes>>
      /\ file' = Append(file, new) /\ phase = "serving" /\ left # "nothing"
  BY <1>2 DEF AppendFails, MayAppend, database, game
<1>4. new \in Record /\ new.kind # "long"
  <2>1. left \in {"short", "unsynced"}
    BY <1>3, JournalAssumption
  <2> QED BY <1>2, <2>1 DEF Record
<1>5. /\ file' \in Seq(Record) /\ Len(file) \in Nat
      /\ \A i \in 1 .. Len(file) : i \in 1 .. Len(file') /\ file'[i] = file[i]
      /\ \A i \in 1 .. Len(file') : \/ i \in 1 .. Len(file) /\ file'[i] = file[i]
                                    \/ i = Len(file) + 1 /\ file'[i] = new
  BY <1>1, <1>3, <1>4, Appended
<1>6. Clean'
  BY <1>1, <1>4, <1>5 DEF Clean
<1>7. Forward
  BY <1>1, <1>3, StandingStill
<1>8. ASSUME NEW g \in handed_off PROVE Durable(g)' \/ Held(g)'
  <2>1. CASE Durable(g)
    BY <1>1, <1>7, <2>1, DurableStays
  <2>2. CASE Held(g)
    BY <1>5, <2>2 DEF Held
  <2> QED BY <1>1, <1>8, <2>1, <2>2 DEF HandedOff
<1>9. HandedOff'
  BY <1>3, <1>8 DEF HandedOff
<1>10. Evidence'
  BY <1>3, EvidenceKept
<1>11. TypeOK'
  BY <1>1, <1>3, <1>5 DEF TypeOK
<1>12. Idle' /\ Replaying'
  BY <1>3 DEF Idle, Replaying
<1> QED BY <1>6, <1>9, <1>10, <1>11, <1>12 DEF IInv

\* The writer's evidence names a player and a revision.
LEMMA EvidenceFacts ==
  ASSUME IInv, evidence # <<>>
  PROVE  /\ evidence[1] \in Frames /\ evidence[1][1] \in Pids /\ evidence[2] \in Nat
         /\ Evidenced(evidence[1][1], evidence[2]) /\ phase = "serving"
<1>1. evidence \in Frames \X Nat
  BY DEF IInv, TypeOK
<1>2. evidence[1] \in Frames /\ evidence[2] \in Nat
  BY <1>1
<1> QED BY <1>2, FrameFacts DEF IInv, Evidence, Idle

LEMMA CheckpointKeeps ==
  ASSUME IInv, evidence # <<>>, evidence' = <<>>, writer_jobs' \subseteq writer_jobs,
         file' = file \/ file' = Compacted(evidence[1][1], evidence[2]),
         UNCHANGED <<save_revision, committed, current_revision, captured, phase, todo, acknowledged, handed_off,
                     crashes>>
  PROVE  IInv'
<1>1. TypeOK /\ Forward
  BY StandingStill DEF IInv
<1>2. PICK p \in Pids, n \in Nat : p = evidence[1][1] /\ n = evidence[2]
  BY EvidenceFacts
<1>3. Evidenced(p, n)' /\ phase = "serving"
  <2>1. Evidenced(p, n) /\ phase = "serving"
    BY <1>2, EvidenceFacts
  <2> QED BY <1>1, <2>1, EvidenceStays
<1>4. file' \in Seq(Record) /\ Clean' /\ HandedOff'
  <2>1. CASE file' = file
    BY <1>1, <2>1, SameFile DEF TypeOK
  <2>2. CASE file' = Compacted(p, n)
    BY <1>1, <1>3, <2>2, CompactKeeps
  <2> QED BY <1>2, <2>1, <2>2
<1>5. Evidence'
  BY EvidenceKept
<1>6. TypeOK'
  BY <1>1, <1>4 DEF TypeOK
<1>7. Idle' /\ Replaying'
  BY <1>3 DEF Idle, Replaying
<1> QED BY <1>4, <1>5, <1>6, <1>7 DEF IInv

LEMMA WriterApplyKeeps == ASSUME IInv, NEW frame \in Frames, WriterApply(frame) PROVE IInv'
<1>1. TypeOK /\ Idle /\ Evidence
  BY DEF IInv
<1>2. PICK d : d = DurableAfter(frame)
  OBVIOUS
<1>3. /\ Apply(frame) /\ evidence' = <<frame, d>> /\ frame \in writer_jobs
      /\ UNCHANGED <<file, phase, current_revision, captured, writer_jobs, todo, acknowledged,
                     handed_off, crashes>>
  BY <1>2 DEF WriterApply, game
<1>4. /\ Forward /\ d \in Nat
      /\ Evidenced(frame[1], d)'
      /\ (\A p \in Pids : Evidenced(p, save_revision[p]))'
  BY <1>2, <1>3, Applied
<1>5. Clean' /\ HandedOff'
  BY <1>3, <1>4, SameFile
<1>6. (\A p \in Pids : Evidenced(p, acknowledged[p]))'
  <2>1. ASSUME NEW p \in Pids, NEW n \in Nat, Evidenced(p, n) PROVE Evidenced(p, n)'
    BY <1>1, <1>4, <2>1, EvidenceStays
  <2>2. \A p \in Pids : acknowledged[p] \in Nat /\ Evidenced(p, acknowledged[p])
    BY <1>1 DEF TypeOK, Evidence
  <2> QED BY <1>3, <2>1, <2>2 DEF Evidenced
<1>7. (evidence # <<>> => Evidenced(evidence[1][1], evidence[2]))'
  BY <1>3, <1>4 DEF Evidenced
<1>8. Evidence'
  BY <1>4, <1>6, <1>7 DEF Evidence
<1>9. TypeOK'
  BY <1>1, <1>3, <1>4 DEF TypeOK, Forward
<1>10. Idle' /\ Replaying'
  BY <1>1, <1>3 DEF Idle, Replaying
<1> QED BY <1>5, <1>8, <1>9, <1>10 DEF IInv

\* A save beside the journal, or the last one of a replay that is given up.
LEMMA ApplyBesideKeeps ==
  ASSUME IInv, NEW frame \in Frames, Apply(frame),
         UNCHANGED <<file, captured, writer_jobs, evidence, handed_off, crashes>>,
         current_revision' \in [Pids -> Nat \cup {NoEntry}],
         \/ UNCHANGED <<phase, todo, acknowledged>>
         \/ phase' = "serving" /\ todo' = {} /\ acknowledged' = [p \in Pids |-> 0]
  PROVE  IInv'
<1>1. TypeOK /\ Idle /\ Evidence /\ Replaying
  BY DEF IInv
<1>2. PICK d : d = DurableAfter(frame)
  OBVIOUS
<1>3. UNCHANGED <<file, captured, writer_jobs, evidence, handed_off, crashes>>
  OBVIOUS
<1>4. /\ Forward
      /\ (\A p \in Pids : Evidenced(p, save_revision[p]))'
  BY <1>2, Applied
<1>5. Clean' /\ HandedOff'
  BY <1>3, <1>4, SameFile
<1>6. ASSUME NEW p \in Pids, NEW n \in Nat, Evidenced(p, n) PROVE Evidenced(p, n)'
  BY <1>1, <1>4, <1>6, EvidenceStays
<1>7. (\A p \in Pids : Evidenced(p, acknowledged[p]))'
  <2>1. \A p \in Pids : acknowledged[p] \in Nat /\ Evidenced(p, acknowledged[p])
    BY <1>1 DEF TypeOK, Evidence
  <2>2. CASE acknowledged' = acknowledged
    BY <1>6, <2>1, <2>2 DEF Evidenced
  <2>3. CASE acknowledged' = [p \in Pids |-> 0]
    BY <2>3 DEF Evidenced
  <2> QED BY <2>2, <2>3
<1>8. (evidence # <<>> => Evidenced(evidence[1][1], evidence[2]))'
  <2> SUFFICES ASSUME evidence # <<>> PROVE Evidenced(evidence[1][1], evidence[2])'
    BY <1>3
  <2>1. PICK p \in Pids, n \in Nat : p = evidence[1][1] /\ n = evidence[2]
    BY EvidenceFacts
  <2>2. Evidenced(p, n)'
    BY <1>6, <2>1, EvidenceFacts
  <2> QED BY <1>3, <2>1, <2>2 DEF Evidenced
<1>9. Evidence'
  BY <1>4, <1>7, <1>8 DEF Evidence
<1>10. TypeOK'
  BY <1>1, <1>3, <1>4 DEF TypeOK, Forward
<1>11. Idle'
  BY <1>1, <1>3 DEF Idle
<1>12. Replaying'
  <2>1. CASE UNCHANGED <<phase, todo, acknowledged>>
    BY <1>1, <1>3, <2>1 DEF Replaying, Whole
  <2>2. CASE phase' = "serving"
    BY <2>2 DEF Replaying
  <2> QED BY <2>1, <2>2
<1> QED BY <1>5, <1>9, <1>10, <1>11, <1>12 DEF IInv

LEMMA SynchronousSaveKeeps == ASSUME IInv, NEW p \in Pids, SynchronousSave(p) PROVE IInv'
<1>1. PICK n : n = current_revision[p] + 1
  OBVIOUS
<1>2. /\ current_revision[p] \in Nat /\ current_revision[p] < MaxRevision[p]
      /\ MaxRevision[p] \in Nat /\ current_revision \in [Pids -> Nat \cup {NoEntry}]
  BY JournalAssumption DEF SynchronousSave, IInv, TypeOK
<1>3. n \in Nat /\ n \in 1 .. MaxRevision[p]
  BY <1>1, <1>2
<1>4. <<p, n, FALSE>> \in Frames
  <2>1. <<p, n, FALSE>> \in {p} \X (1 .. MaxRevision[p]) \X BOOLEAN
    BY <1>3
  <2> QED BY <2>1, Zenon DEF Frames
<1>5. /\ Apply(<<p, n, FALSE>>)
      /\ current_revision' = [current_revision EXCEPT ![p] = n]
      /\ UNCHANGED <<file, phase, captured, writer_jobs, evidence, todo, acknowledged, handed_off, crashes>>
  BY <1>1 DEF SynchronousSave
<1>6. current_revision' \in [Pids -> Nat \cup {NoEntry}]
  BY <1>2, <1>3, <1>5
<1> QED BY <1>4, <1>5, <1>6, ApplyBesideKeeps

\* A step of the game that only the table and the captures see.
LEMMA GameKeeps ==
  ASSUME IInv, current_revision' \in [Pids -> Nat \cup {NoEntry}], captured' \subseteq Frames,
         UNCHANGED <<file, save_revision, committed, phase, writer_jobs, evidence, todo, acknowledged,
                     handed_off, crashes>>
  PROVE  IInv'
BY DEF IInv, TypeOK, Clean, Idle, Evidence, Evidenced, HandedOff, Durable, Held, Replaying, Whole

LEMMA LoginKeeps == ASSUME IInv, NEW p \in Pids, Login(p) PROVE IInv'
<1>1. current_revision' \in [Pids -> Nat \cup {NoEntry}] /\ captured' \subseteq Frames
  BY DEF IInv, TypeOK, Login
<1> QED BY <1>1, GameKeeps DEF Login, database

LEMMA CaptureKeeps == ASSUME IInv, NEW frame \in Frames, Capture(frame) PROVE IInv'
<1>1. /\ current_revision' = [current_revision EXCEPT ![frame[1]] = frame[2]]
      /\ captured' = captured \cup {frame}
      /\ UNCHANGED <<file, save_revision, committed, phase, writer_jobs, evidence, todo, acknowledged,
                     handed_off, crashes>>
  BY DEF Capture, database
<1>2. current_revision' \in [Pids -> Nat \cup {NoEntry}] /\ captured' \subseteq Frames
  BY <1>1, FrameFacts DEF IInv, TypeOK
<1> QED BY <1>1, <1>2, GameKeeps

LEMMA ReplayFrameKeeps == ASSUME IInv, NEW frame \in Frames, ReplayFrame(frame) PROVE IInv'
<1>1. TypeOK /\ Idle /\ Evidence /\ Replaying
  BY DEF IInv
<1>2. PICK d : d = DurableAfter(frame)
  OBVIOUS
<1>3. /\ phase = "replaying" /\ frame \in todo /\ ~StaleDeath(frame) /\ Apply(frame)
      /\ file' = IF Death(frame) THEN Compacted(frame[1], frame[2]) ELSE file
      /\ acknowledged' = [acknowledged EXCEPT ![frame[1]] = Max({@, d})]
      /\ todo' = todo \ {frame}
      /\ UNCHANGED <<phase, current_revision, captured, writer_jobs, evidence, handed_off, crashes>>
  BY <1>2 DEF ReplayFrame, NextToReplay, game
<1>4. /\ Forward /\ d \in Nat /\ frame[2] =< d /\ d \in {save_revision[frame[1]], frame[2]}
      /\ Evidenced(frame[1], d)'
      /\ (\A p \in Pids : Evidenced(p, save_revision[p]))'
  BY <1>2, <1>3, Applied
<1>5. frame[1] \in Pids /\ frame[2] \in Nat /\ frame[2] \in Int
  BY FrameFacts
<1>6. \A p \in Pids : /\ acknowledged[p] \in Nat /\ acknowledged[p] \in Int
                      /\ save_revision[p] \in Nat /\ save_revision[p] \in Int
  BY <1>1, JournalAssumption DEF TypeOK
<1>7. d \in Int
  BY <1>4, JournalAssumption
<1>8. PICK m : m = Max({acknowledged[frame[1]], d})
  OBVIOUS
<1>9. m \in {acknowledged[frame[1]], d} /\ acknowledged[frame[1]] =< m /\ d =< m
  BY <1>5, <1>6, <1>7, <1>8, MaxOfTwo
<1>10. /\ acknowledged' \in [Pids -> Nat] /\ acknowledged'[frame[1]] = m
       /\ \A p \in Pids : p # frame[1] => acknowledged'[p] = acknowledged[p]
  BY <1>1, <1>3, <1>4, <1>5, <1>6, <1>8, <1>9 DEF TypeOK
<1>11. \A p \in Pids : acknowledged[p] =< acknowledged'[p]
  BY <1>5, <1>6, <1>9, <1>10
<1>12. ASSUME NEW p \in Pids, NEW n \in Nat, Evidenced(p, n) PROVE Evidenced(p, n)'
  BY <1>1, <1>4, <1>12, EvidenceStays
<1>13. ASSUME NEW p \in Pids, NEW n, n = acknowledged'[p] PROVE Evidenced(p, n)'
  <2>1. CASE n = acknowledged[p]
    BY <1>1, <1>6, <1>12, <2>1 DEF Evidence
  <2>2. CASE n = d /\ p = frame[1]
    BY <1>4, <2>2 DEF Evidenced
  <2> QED BY <1>9, <1>10, <1>13, <2>1, <2>2
<1>14. Evidence'
  <2>1. (\A p \in Pids : Evidenced(p, acknowledged[p]))'
    BY <1>13 DEF Evidenced
  <2>2. (evidence # <<>> => Evidenced(evidence[1][1], evidence[2]))'
    BY <1>1, <1>3 DEF Idle
  <2> QED BY <1>4, <2>1, <2>2 DEF Evidence
<1>15. Death(frame) => d = frame[2]
  BY <1>3, <1>4, <1>5, <1>6, <1>7 DEF StaleDeath
<1>16. /\ file' \in Seq(Record) /\ Clean' /\ HandedOff'
       /\ \A g \in Frames : Whole(g)' => Whole(g) /\ (Death(frame) => g # frame)
  <2>1. CASE ~Death(frame)
    <3>1. file' = file
      BY <1>3, <2>1
    <3>2. Clean' /\ HandedOff'
      BY <1>3, <1>4, <3>1, SameFile
    <3> QED BY <1>1, <2>1, <3>1, <3>2 DEF TypeOK, Whole
  <2>2. CASE Death(frame)
    <3>1. Evidenced(frame[1], frame[2])' /\ file' = Compacted(frame[1], frame[2])
      BY <1>3, <1>4, <1>15, <2>2
    <3>2. PICK p \in Pids, n \in Nat : p = frame[1] /\ n = frame[2]
      BY <1>5
    <3>3. /\ file' \in Seq(Record) /\ Clean' /\ HandedOff'
          /\ \A g \in Frames : Whole(g)' => Whole(g) /\ ~Superseded(g, p, n)
      BY <1>3, <1>4, <3>1, <3>2, CompactKeeps
    <3>4. Superseded(frame, p, n)
      BY <1>5, <3>2 DEF Superseded
    <3> QED BY <3>3, <3>4
  <2> QED BY <2>1, <2>2
<1>17. TypeOK'
  BY <1>1, <1>3, <1>4, <1>10, <1>16 DEF TypeOK, Forward
<1>18. Replaying'
  <2> SUFFICES ASSUME NEW g \in Frames, Whole(g)'
               PROVE  g \in todo' \/ (~Death(g) /\ acknowledged'[g[1]] >= g[2])
    BY DEF Replaying
  <2>1. Whole(g) /\ (Death(frame) => g # frame)
    BY <1>16
  <2>2. g[1] \in Pids /\ g[2] \in Int
    BY FrameFacts
  <2>3. CASE g = frame
    BY <1>4, <1>5, <1>6, <1>7, <1>9, <1>10, <2>1, <2>3
  <2>4. CASE g # frame /\ g \in todo
    BY <1>3, <2>4
  <2>5. CASE ~Death(g) /\ acknowledged[g[1]] >= g[2]
    <3>1. acknowledged[g[1]] \in Int /\ acknowledged'[g[1]] \in Int /\ acknowledged[g[1]] =< acknowledged'[g[1]]
      <4>1. acknowledged'[g[1]] \in Nat
        BY <1>10, <2>2
      <4>2. acknowledged'[g[1]] \in Int
        BY <4>1, JournalAssumption
      <4> QED BY <1>6, <1>11, <2>2, <4>2
    <3> QED BY <2>2, <2>5, <3>1
  <2> QED BY <1>1, <1>3, <2>1, <2>3, <2>4, <2>5 DEF Replaying
<1>19. Idle'
  BY <1>1, <1>3 DEF Idle
<1> QED BY <1>14, <1>16, <1>17, <1>18, <1>19 DEF IInv

LEMMA ReplayBlockedKeeps ==
  ASSUME IInv, NEW frame \in Frames, NEW effective \in BOOLEAN, ReplayBlocked(frame, effective)
  PROVE  IInv'
<1>1. /\ UNCHANGED <<file, current_revision, captured, writer_jobs, evidence, handed_off, crashes>>
      /\ phase' = "serving" /\ todo' = {} /\ acknowledged' = [p \in Pids |-> 0]
      /\ Apply(frame) \/ UNCHANGED <<save_revision, committed>>
  BY DEF ReplayBlocked, database, game
<1>2. CASE Apply(frame)
  <2>1. current_revision' \in [Pids -> Nat \cup {NoEntry}]
    BY <1>1 DEF IInv, TypeOK
  <2> QED BY <1>1, <1>2, <2>1, ApplyBesideKeeps
<1>3. CASE UNCHANGED <<save_revision, committed>>
  <2>1. TypeOK /\ Forward
    BY <1>3, StandingStill DEF IInv
  <2>2. Clean' /\ HandedOff'
    BY <1>1, <2>1, SameFile
  <2>3. Evidence'
    BY <1>1, <1>3, EvidenceKept
  <2>4. TypeOK'
    BY <1>1, <1>3, <2>1 DEF TypeOK
  <2>5. Idle' /\ Replaying'
    BY <1>1 DEF Idle, Replaying
  <2> QED BY <2>2, <2>3, <2>4, <2>5 DEF IInv
<1> QED BY <1>1, <1>2, <1>3

\* What the end of a replay releases is covered by what the replay saw.
LEMMA ReplayEndsKeeps ==
  ASSUME IInv, NEW last \in Pids \cup {0}, ReplayEnds(last)
  PROVE  /\ IInv'
         /\ last # 0 => \A frame \in Frames : Whole(frame)' =>
              /\ Whole(frame)
              /\ frame[1] =< last => ~Superseded(frame, frame[1], acknowledged[frame[1]])
<1>1. /\ UNCHANGED <<save_revision, committed, current_revision, captured, writer_jobs, evidence, todo, handed_off,
                     crashes>>
      /\ acknowledged' = [p \in Pids |-> 0]
      /\ phase' = "serving" /\ file' = IF last > 0 THEN Drained(last) ELSE file
  BY DEF ReplayEnds, database, game
<1>2. TypeOK /\ Forward /\ Evidence
  BY <1>1, StandingStill DEF IInv
<1> DEFINE released == {frame \in Frames : /\ frame[1] <= last
                                           /\ Superseded(frame, frame[1], acknowledged[frame[1]])}
<1>3. ASSUME NEW frame \in Frames, frame \in released PROVE Durable(frame)'
  <2>1. PICK p \in Pids, n \in Nat : p = frame[1] /\ n = acknowledged[frame[1]]
    BY <1>2, FrameFacts DEF TypeOK
  <2>2. Evidenced(p, n)'
    BY <1>2, <2>1, EvidenceStays DEF Evidence
  <2>3. Superseded(frame, p, n)
    BY <1>3, <2>1
  <2> QED BY <1>2, <2>2, <2>3, SupersededIsDurable
<1>4. \A frame \in Frames : frame \in released <=>
         frame[1] <= last /\ Superseded(frame, frame[1], acknowledged[frame[1]])
  OBVIOUS
<1>5. Drained(last) = Rewritten(released)
  BY DEF Drained
<1> HIDE DEF released
<1>6. /\ file' \in Seq(Record) /\ Clean' /\ HandedOff'
      /\ last > 0 => \A frame \in Frames : Whole(frame)' => Whole(frame) /\ frame \notin released
  <2>1. CASE last > 0
    <3>1. file' = Rewritten(released)
      BY <1>1, <1>5, <2>1
    <3> QED BY <1>1, <1>2, <1>3, <3>1, RewriteKeeps
  <2>2. CASE ~(last > 0)
    <3>1. file' = file
      BY <1>1, <2>2
    <3> QED BY <1>1, <1>2, <2>2, <3>1, SameFile DEF TypeOK
  <2> QED BY <2>1, <2>2
<1>7. Evidence'
  BY <1>1, EvidenceKept
<1>8. TypeOK'
  BY <1>1, <1>2, <1>6 DEF TypeOK
<1>9. Idle' /\ Replaying'
  BY <1>1 DEF Idle, Replaying
<1>10. last # 0 => last > 0
  BY JournalAssumption
<1> QED BY <1>4, <1>6, <1>7, <1>8, <1>9, <1>10 DEF IInv

LEMMA CrashKeeps == ASSUME IInv, NEW kept \in 0 .. Quota, Crash(kept) PROVE IInv'
<1>1. TypeOK /\ Clean /\ HandedOff /\ handed_off \subseteq Frames
      /\ file \in Seq(Record) /\ Len(file) \in Nat
  BY DEF IInv, TypeOK
<1>2. /\ UNCHANGED <<save_revision, committed, handed_off>>
      /\ current_revision' = [p \in Pids |-> NoEntry] /\ captured' = {} /\ acknowledged' = [p \in Pids |-> 0]
      /\ kept \in 0 .. Len(file) /\ file' = SubSeq(file, 1, kept)
      /\ \A i \in kept + 1 .. Len(file) : ~file[i].synced
      /\ phase' = "down" /\ writer_jobs' = {} /\ evidence' = <<>> /\ todo' = {}
      /\ crashes < MaxCrashes /\ crashes' = crashes + 1
  BY DEF Crash, database
<1>3. /\ file' \in Seq(Record) /\ Len(file') = kept
      /\ \A i \in 1 .. kept : i \in 1 .. Len(file) /\ file'[i] = file[i]
  <2>1. \A i \in 1 .. kept : i \in 1 .. Len(file) /\ file[i] \in Record
    BY <1>1, <1>2
  <2>2. /\ file' \in Seq(Record) /\ Len(file') = IF 1 <= kept THEN kept - 1 + 1 ELSE 0
        /\ \A i \in 1 .. kept - 1 + 1 : file'[i] = file[1 + i - 1]
    BY <1>2, <2>1, SubSeqProperties
  <2> QED BY <1>2, <2>1, <2>2
<1>4. Clean'
  BY <1>1, <1>3 DEF Clean
<1>5. Forward
  BY <1>1, <1>2, StandingStill
<1>6. ASSUME NEW frame \in handed_off PROVE Durable(frame)' \/ Held(frame)'
  <2>1. CASE Durable(frame)
    BY <1>1, <1>5, <2>1, DurableStays
  <2>2. CASE Held(frame)
    <3>1. PICK i \in 1 .. Len(file) : file[i].frame = frame /\ file[i].kind = "whole" /\ file[i].synced
      BY <2>2 DEF Held
    <3>2. i \in 1 .. kept
      BY <1>1, <1>2, <3>1
    <3> QED BY <1>3, <3>1, <3>2 DEF Held
  <2> QED BY <1>1, <1>6, <2>1, <2>2 DEF HandedOff
<1>7. HandedOff'
  BY <1>2, <1>6 DEF HandedOff
<1>8. Evidence'
  BY <1>2, EvidenceKept
<1>9. TypeOK'
  <2>1. crashes' \in 0 .. MaxCrashes
    BY <1>1, <1>2, JournalAssumption DEF TypeOK
  <2> QED BY <1>1, <1>2, <1>3, <2>1 DEF TypeOK
<1>10. Idle' /\ Replaying'
  BY <1>2 DEF Idle, Replaying
<1> QED BY <1>4, <1>7, <1>8, <1>9, <1>10 DEF IInv

LEMMA InitIInv == Init => IInv
<1> SUFFICES ASSUME Init PROVE IInv
  OBVIOUS
<1>1. file = <<>> /\ Len(file) = 0
  BY DEF Init
<1>2. TypeOK
  BY <1>1, JournalAssumption DEF Init, TypeOK
<1>3. Clean /\ HandedOff /\ Idle /\ Replaying
  BY <1>1 DEF Init, Clean, HandedOff, Idle, Replaying
<1>4. Evidence
  BY DEF Init, Evidence, Evidenced
<1> QED BY <1>2, <1>3, <1>4 DEF IInv

LEMMA StepIInv ==
  ASSUME "long" \notin Leavings, IInv, [Next]_vars
  PROVE  IInv'
<1>1. CASE UNCHANGED vars
  BY <1>1 DEF vars, database, game, IInv, TypeOK, Clean, Idle, Evidence, Evidenced, HandedOff, Durable,
              Held, Replaying, Whole
<1>2. CASE Boot
  BY <1>2, BootKeeps
<1>3. CASE \E frame \in Frames : AppendOK(frame)
  BY <1>3, AppendOKKeeps
<1>4. CASE \E frame \in Frames, left \in Leavings : AppendFails(frame, left)
  BY <1>4, AppendFailsKeeps
<1>5. CASE Checkpoint
  <2>1. /\ evidence # <<>> /\ evidence' = <<>> /\ writer_jobs' \subseteq writer_jobs
        /\ file' = Compacted(evidence[1][1], evidence[2])
        /\ UNCHANGED <<save_revision, committed, current_revision, captured, phase, todo, acknowledged, handed_off,
                       crashes>>
    BY <1>5 DEF Checkpoint, database, game
  <2> QED BY <2>1, CheckpointKeeps
<1>6. CASE \E replaced \in BOOLEAN : CheckpointFails(replaced)
  <2>1. /\ evidence # <<>> /\ evidence' = <<>> /\ writer_jobs' \subseteq writer_jobs
        /\ file' = file \/ file' = Compacted(evidence[1][1], evidence[2])
        /\ UNCHANGED <<save_revision, committed, current_revision, captured, phase, todo, acknowledged, handed_off,
                       crashes>>
    BY <1>6 DEF CheckpointFails, database, game
  <2> QED BY <2>1, CheckpointKeeps
<1>7. CASE \E frame \in Frames : WriterApply(frame)
  BY <1>7, WriterApplyKeeps
<1>8. CASE \E p \in Pids : SynchronousSave(p)
  BY <1>8, SynchronousSaveKeeps
<1>9. CASE \E frame \in Frames : ReplayFrame(frame)
  BY <1>9, ReplayFrameKeeps
<1>10. CASE \E frame \in Frames, effective \in BOOLEAN : ReplayBlocked(frame, effective)
  BY <1>10, ReplayBlockedKeeps
<1>11. CASE \E last \in Pids \cup {0} : ReplayEnds(last)
  BY <1>11, ReplayEndsKeeps
<1>12. CASE \E kept \in 0 .. Quota : Crash(kept)
  BY <1>12, CrashKeeps
<1>13. CASE \E p \in Pids : Login(p)
  BY <1>13, LoginKeeps
<1>14. CASE \E frame \in Frames : Capture(frame)
  BY <1>14, CaptureKeeps
<1> QED BY <1>1, <1>2, <1>3, <1>4, <1>5, <1>6, <1>7, <1>8, <1>9, <1>10, <1>11, <1>12, <1>13, <1>14
        DEF Next

-----------------------------------------------------------------------------
\* The invariant along which the journal's promises are proved is inductive.
THEOREM JournalIsInductive ==
  ASSUME "long" \notin Leavings
  PROVE  Spec => []IInv
<1>1. IInv /\ [Next]_vars => IInv'
  BY StepIInv
<1> QED BY <1>1, InitIInv, PTL DEF Spec

\* No save that was handed to the journal is dropped early, through failed appends
\* and checkpoints, replays that are blocked, logins and synchronous saves before,
\* during and after the replay, and crashes: its record is readable until the row is
\* at its revision or past it, and a death's until the row was at exactly its revision.
THEOREM HandedOffIsKept ==
  ASSUME "long" \notin Leavings
  PROVE  Spec => []JournalInv
<1>1. IInv => JournalInv
  <2> SUFFICES ASSUME IInv, NEW frame \in handed_off, ~Durable(frame) PROVE frame \in ReadableFrames
    BY DEF IInv, JournalInv, JournaledUntilDurable
  <2>1. PICK r : r = Readable(file)
    OBVIOUS
  <2>2. /\ r \in Seq(Record)
        /\ \A a \in 1 .. Len(file) : file[a].kind = "whole" => \E i \in 1 .. Len(r) : r[i] = file[a]
    BY <2>1, ReadableOnes DEF IInv
  <2>3. PICK a \in 1 .. Len(file) : file[a].frame = frame /\ file[a].kind = "whole"
    BY DEF IInv, HandedOff, Held
  <2>4. PICK i \in 1 .. Len(r) : r[i] = file[a]
    BY <2>2, <2>3
  <2>5. i \in DOMAIN r
    BY <2>2
  <2> QED BY <2>1, <2>3, <2>4, <2>5 DEF ReadableFrames
<1> QED BY <1>1, JournalIsInductive, PTL

\* A replay that drains the journal of its last player leaves it empty, with
\* evidence in the database for every save that was ever handed off.
THEOREM ReplayRecoversAll ==
  ASSUME "long" \notin Leavings
  PROVE  Spec => ReplayRecovers
<1>1. ASSUME IInv, NEW last \in Pids, \A p \in Pids : p <= last, ReplayEnds(last)
      PROVE  (\A frame \in handed_off : Durable(frame)) /\ file' = <<>>
  <2>1. /\ TypeOK /\ todo = {} /\ phase = "replaying" /\ last # 0 /\ handed_off \subseteq Frames
    BY <1>1, JournalAssumption DEF IInv, TypeOK, ReplayEnds
  <2>2. ASSUME NEW frame \in Frames, Whole(frame)
        PROVE  ~Death(frame) /\ acknowledged[frame[1]] >= frame[2] /\ acknowledged[frame[1]] \in Nat
    BY <1>1, <2>1, <2>2, FrameFacts DEF IInv, Replaying, TypeOK
  <2>3. ASSUME NEW frame \in handed_off PROVE Durable(frame)
    <3>1. frame \in Frames
      BY <2>1
    <3>2. CASE Whole(frame)
      <4>1. /\ ~Death(frame) /\ acknowledged[frame[1]] >= frame[2] /\ acknowledged[frame[1]] \in Nat
            /\ frame[1] \in Pids /\ frame[2] \in Int /\ frame[2] > 0
        BY <2>2, <3>1, <3>2, FrameFacts
      <4>2. Evidenced(frame[1], acknowledged[frame[1]]) /\ acknowledged[frame[1]] # 0
        BY <1>1, <4>1 DEF IInv, Evidence
      <4>3. PICK g \in committed : g[1] = frame[1] /\ g[2] = acknowledged[frame[1]]
        BY <4>2 DEF Evidenced
      <4> QED BY <4>1, <4>3 DEF Durable
    <3>3. CASE Durable(frame)
      BY <3>3
    <3> QED BY <1>1, <3>2, <3>3 DEF IInv, HandedOff, Held, Whole
  <2>4. /\ IInv'
        /\ \A frame \in Frames : Whole(frame)' =>
             /\ Whole(frame)
             /\ frame[1] =< last => ~Superseded(frame, frame[1], acknowledged[frame[1]])
    BY <1>1, <2>1, ReplayEndsKeeps
  <2>5. ASSUME NEW i \in 1 .. Len(file') PROVE FALSE
    <3>1. file'[i] \in Record /\ file'[i].kind = "whole"
      <4>1. PICK t : t = Rewritten({frame \in Frames : /\ frame[1] <= last
                                        /\ Superseded(frame, frame[1], acknowledged[frame[1]])})
        OBVIOUS
      <4>2. t \in Seq(Record) /\ \A k \in 1 .. Len(t) : t[k].kind = "whole"
        BY <1>1, <4>1, RewrittenOnes DEF IInv
      <4>3. file' = t
        <5>1. last > 0
          BY JournalAssumption
        <5> QED BY <1>1, <4>1, <5>1 DEF ReplayEnds, Drained
      <4> QED BY <2>5, <4>2, <4>3
    <3>2. PICK frame \in Frames : frame = file'[i].frame
      BY <3>1 DEF Record
    <3>3. Whole(frame)'
      BY <2>5, <3>1, <3>2 DEF Whole
    <3>4. Whole(frame) /\ (frame[1] =< last => ~Superseded(frame, frame[1], acknowledged[frame[1]]))
      BY <2>4, <3>3
    <3>5. frame[1] \in Pids /\ frame[2] \in Int /\ frame[1] =< last
      BY <1>1, FrameFacts
    <3>6. ~Death(frame) /\ acknowledged[frame[1]] >= frame[2] /\ acknowledged[frame[1]] \in Nat
      BY <2>2, <3>4
    <3> QED BY <3>4, <3>5, <3>6 DEF Superseded
  <2>6. file' = <<>>
    <3>1. file' \in Seq(Record)
      BY <2>4 DEF IInv, TypeOK
    <3>2. Len(file') = 0
      <4>1. Len(file') \in Nat
        BY <3>1
      <4> QED BY <2>5, <4>1
    <3> QED BY <3>1, <3>2, EmptySeq
  <2> QED BY <2>3, <2>6
<1>2. IInv /\ [Next]_vars =>
        [\A last \in Pids : (\A p \in Pids : p <= last) /\ ReplayEnds(last) =>
           (\A frame \in handed_off : Durable(frame)) /\ file' = <<>>]_vars
  BY <1>1
<1> QED BY <1>2, JournalIsInductive, PTL DEF Spec, ReplayRecovers
=============================================================================
