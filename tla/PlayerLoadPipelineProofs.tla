---------------------- MODULE PlayerLoadPipelineProofs ----------------------
(***************************************************************************)
(* The connection pool and the player load pipeline, whatever the number   *)
(* of threads, slots, connections, sessions and requests.  First the pool: *)
(* its invariant relates four places a connection can be in: a slot, the   *)
(* hands of its borrower, the hands of a thread that opened it as a        *)
(* replacement, and the closed ones.  Then the pipeline: it uses the pool  *)
(* as the pool's specification allows, so that what is proved of the pool  *)
(* holds with the pipeline; no request leaks; and what a closed session    *)
(* asked for is cancelled.                                                 *)
(***************************************************************************)
EXTENDS PlayerLoadPipeline, SequenceLemmas, FiniteSetTheorems, TLAPS

\* A pool that is open has a connection in every slot, all different and none of
\* them closed; one that was closed has none.
SlotsAreLive ==
  /\ closing => open
  /\ \A i \in Slots : IF open THEN conn[i] # NoConnection ELSE conn[i] = NoConnection
  /\ \A i \in Slots : conn[i] # NoConnection => conn[i] \notin closed /\ conn[i] =< opened
  /\ \A i, j \in Slots : conn[i] = conn[j] /\ conn[i] # NoConnection => i = j

\* A thread works with a connection exactly while it is past the scan of the slots,
\* and that is the connection of a slot that is marked.
BorrowersAreMarked ==
  /\ \A t \in Threads : held[t] # NoConnection <=> at[t] \notin Absent
  /\ \A t \in Threads : held[t] # NoConnection =>
       \E i \in Slots : i \in in_use /\ conn[i] = held[t]
  /\ \A t, u \in Threads : held[t] = held[u] /\ held[t] # NoConnection => t = u

\* A mark belongs to a borrower.
MarksAreBorrowed ==
  \A i \in in_use : conn[i] # NoConnection /\ \E t \in Threads : held[t] = conn[i]

\* A replacement is in its opener's hands only.
FreshIsApart ==
  /\ \A t \in Threads : at[t] = "opening" => slot[t] \in Slots
  /\ \A t \in Threads : fresh[t] # NoConnection =>
       /\ at[t] = "swapping" /\ slot[t] \in Slots
       /\ fresh[t] \notin closed /\ fresh[t] =< opened
       /\ \A i \in Slots : conn[i] # fresh[t]
  /\ \A t, u \in Threads : fresh[t] = fresh[u] /\ fresh[t] # NoConnection => t = u

ClosedWereOpened == \A c \in closed : c =< opened

Lending ==
  /\ SlotsAreLive
  /\ BorrowersAreMarked
  /\ MarksAreBorrowed
  /\ FreshIsApart
  /\ ClosedWereOpened

\* Every step of a thread, as the proofs split it.
ThreadNext(t) ==
  \/ Acquire(t) \/ Woken(t) \/ TimesOut(t) \/ Probe(t) \/ Decide(t)
  \/ Mark(t) \/ Open(t) \/ Swap(t) \/ Release(t) \/ Break(t)

LEMMA NextSplits ==
  PoolNext => (\E t \in Threads : ThreadNext(t)) \/ CloseBegin \/ CloseEnd \/ LoseLock
BY DEF PoolNext, PoolStep, ThreadNext

----------------------------------------------------------------------------
(***************************************************************************)
(* Types                                                                   *)
(***************************************************************************)
LEMMA TypeInit == PoolInit => PoolTypeOK
<1> SUFFICES ASSUME PoolInit PROVE PoolTypeOK
  OBVIOUS
<1>1. /\ conn \in [Slots -> Connections \cup {NoConnection}]
      /\ opened \in PoolSize .. MaxConnections
  BY PoolAssumption DEF PoolInit, Slots, Connections
<1>2. /\ at \in [Threads -> Stages]
      /\ held \in [Threads -> Connections \cup {NoConnection}]
      /\ slot \in [Threads -> Slots \cup {NoSlot}]
      /\ fresh \in [Threads -> Connections \cup {NoConnection}]
  BY DEF PoolInit, Stages, Absent
<1>3. /\ open \in BOOLEAN /\ closing \in BOOLEAN
      /\ owner \in BOOLEAN /\ lost \in BOOLEAN
      /\ in_use \subseteq Slots /\ needs \subseteq Slots
      /\ closed \subseteq Connections /\ late \subseteq Threads
  BY DEF PoolInit
<1> QED BY <1>1, <1>2, <1>3 DEF PoolTypeOK

LEMMA TypeScan ==
  ASSUME PoolTypeOK, NEW t \in Threads, Scan(t)
  PROVE  /\ in_use' \subseteq Slots
         /\ at' \in [Threads -> Stages]
         /\ held' \in [Threads -> Connections \cup {NoConnection}]
BY DEF PoolTypeOK, Scan, Borrow, Stages, Absent

LEMMA TypeBack ==
  ASSUME PoolTypeOK, NEW t \in Threads, GivesBack(t)
  PROVE  /\ in_use' \subseteq Slots
         /\ at' \in [Threads -> Stages]
         /\ held' \in [Threads -> Connections \cup {NoConnection}]
         /\ late' \subseteq Threads
BY DEF PoolTypeOK, GivesBack, Leaves, Freed, Stages, Absent

LEMMA TypeThread ==
  ASSUME PoolTypeOK, Lending, NEW t \in Threads, ThreadNext(t)
  PROVE  PoolTypeOK'
<1>1. CASE Acquire(t)
  BY <1>1, TypeScan DEF Acquire, PoolTypeOK, guard
<1>2. CASE Woken(t)
  BY <1>2, TypeScan DEF Woken, PoolTypeOK, guard
<1>3. CASE TimesOut(t)
  BY <1>3 DEF TimesOut, Leaves, PoolTypeOK, shared, guard, Stages, Absent
<1>4. CASE Probe(t)
  BY <1>4 DEF Probe, PoolTypeOK, shared, guard, Stages, Absent
<1>5. CASE Decide(t)
  BY <1>5, TypeBack DEF Decide, PoolTypeOK, guard, Stages, Absent
<1>6. CASE Mark(t)
  BY <1>6 DEF Mark, PoolTypeOK, guard, Stages, Absent, SlotsOf
<1>7. CASE Open(t)
  <2>1. /\ opened' \in PoolSize .. MaxConnections
        /\ fresh' \in [Threads -> Connections \cup {NoConnection}]
    BY <1>7, PoolAssumption DEF Open, PoolTypeOK, Connections
  <2>2. at' \in [Threads -> Stages]
    BY <1>7 DEF Open, PoolTypeOK, Stages, Absent
  <2>3. lost' \in BOOLEAN /\ owner' \in BOOLEAN
    BY <1>7 DEF Open, PoolTypeOK
  <2> QED BY <1>7, <2>1, <2>2, <2>3 DEF Open, PoolTypeOK, shared
<1>8. CASE Swap(t)
  <2>1. CASE Swapped(t)
    <3>1. held[t] \in Connections
      BY <1>8 DEF Swap, PoolTypeOK, Lending, BorrowersAreMarked, Absent
    <3>2. /\ conn' \in [Slots -> Connections \cup {NoConnection}]
          /\ held' \in [Threads -> Connections \cup {NoConnection}]
          /\ fresh' \in [Threads -> Connections \cup {NoConnection}]
          /\ slot' \in [Threads -> Slots \cup {NoSlot}]
      BY <1>8, <2>1 DEF Swap, Swapped, PoolTypeOK
    <3>3. at' \in [Threads -> Stages]
      BY <2>1 DEF Swapped, PoolTypeOK, Stages, Absent
    <3>4. needs' \subseteq Slots /\ closed' \subseteq Connections
      BY <2>1, <3>1 DEF Swapped, PoolTypeOK
    <3> QED BY <1>8, <2>1, <3>2, <3>3, <3>4 DEF Swap, Swapped, PoolTypeOK, guard
  <2>2. CASE NotSwapped(t)
    BY <1>8, <2>2, TypeBack DEF Swap, NotSwapped, PoolTypeOK, guard, Connections, NoConnection,
         NoSlot
  <2> QED BY <1>8, <2>1, <2>2 DEF Swap
<1>9. CASE Release(t)
  BY <1>9, TypeBack DEF Release, PoolTypeOK, guard
<1>10. CASE Break(t)
  BY <1>10 DEF Break, PoolTypeOK, shared, guard, Stages, Absent
<1> QED BY <1>1, <1>2, <1>3, <1>4, <1>5, <1>6, <1>7, <1>8, <1>9, <1>10 DEF ThreadNext

LEMMA TypeClose ==
  ASSUME PoolTypeOK, Lending, CloseBegin \/ CloseEnd \/ LoseLock
  PROVE  PoolTypeOK'
<1>1. CASE CloseBegin
  BY <1>1 DEF CloseBegin, PoolTypeOK, guard, local
<1>2. CASE CloseEnd
  <2>1. \A i \in Slots : conn[i] \in Connections
    BY <1>2 DEF CloseEnd, PoolTypeOK, Lending, SlotsAreLive
  <2>2. closed' \subseteq Connections /\ conn' \in [Slots -> Connections \cup {NoConnection}]
    BY <1>2, <2>1 DEF CloseEnd, PoolTypeOK
  <2> QED BY <1>2, <2>2 DEF CloseEnd, PoolTypeOK, guard, local
<1>3. CASE LoseLock
  BY <1>3 DEF LoseLock, PoolTypeOK, shared, local
<1> QED BY <1>1, <1>2, <1>3

----------------------------------------------------------------------------
(***************************************************************************)
(* Lending                                                                 *)
(***************************************************************************)
LEMMA LendingInit == PoolInit => Lending
<1> SUFFICES ASSUME PoolInit PROVE Lending
  OBVIOUS
<1>1. SlotsAreLive
  BY PoolAssumption DEF PoolInit, SlotsAreLive, Slots, NoConnection
<1>2. BorrowersAreMarked /\ MarksAreBorrowed
  BY DEF PoolInit, BorrowersAreMarked, MarksAreBorrowed, Absent
<1>3. FreshIsApart /\ ClosedWereOpened
  BY DEF PoolInit, FreshIsApart, ClosedWereOpened
<1> QED BY <1>1, <1>2, <1>3 DEF Lending

\* A scan marks the slot of the connection it gives out, or gives out none.
LEMMA LendingScan ==
  ASSUME PoolTypeOK, Lending, NEW t \in Threads, at[t] \in {"out", "waiting"}, Scan(t),
         UNCHANGED <<open, closing, conn, slot, fresh, opened, closed>>
  PROVE  Lending'
<1>1. SlotsAreLive' /\ ClosedWereOpened'
  BY DEF Lending, SlotsAreLive, ClosedWereOpened
<1>2. held[t] = NoConnection
  BY DEF Lending, BorrowersAreMarked, Absent
<1>3. CASE ~\E i \in Slots : Borrow(t, i)
  <2>1. in_use' = in_use /\ held' = held /\ at' \in {[at EXCEPT ![t] = "out"], [at EXCEPT ![t] = "waiting"]}
    BY <1>3 DEF Scan
  <2>2. \A u \in Threads : at'[u] \in Absent <=> at[u] \in Absent
    BY <2>1 DEF PoolTypeOK, Absent
  <2>3. BorrowersAreMarked' /\ MarksAreBorrowed'
    BY <2>1, <2>2 DEF Lending, BorrowersAreMarked, MarksAreBorrowed
  <2>4. FreshIsApart'
    BY <2>1 DEF Lending, FreshIsApart, PoolTypeOK
  <2> QED BY <1>1, <2>3, <2>4 DEF Lending
<1>4. CASE \E i \in Slots : Borrow(t, i)
  <2>1. PICK i \in Slots : Borrow(t, i)
    BY <1>4
  <2>2. /\ i \notin in_use /\ conn[i] # NoConnection
        /\ in_use' = in_use \cup {i}
        /\ held' = [held EXCEPT ![t] = conn[i]]
        /\ at'[t] \in {"probing", "deciding"}
        /\ \A u \in Threads : u # t => at'[u] = at[u]
    BY <2>1 DEF Borrow, IsFirstFree, Free, PoolTypeOK
  <2>3. \A u \in Threads : held[u] # conn[i]
    BY <2>2 DEF Lending, BorrowersAreMarked, SlotsAreLive
  <2>4. BorrowersAreMarked'
    <3>1. \A u \in Threads : (held[u] # NoConnection <=> at[u] \notin Absent)'
      BY <2>2 DEF Lending, BorrowersAreMarked, Absent, PoolTypeOK
    <3>2. \A u \in Threads : (held[u] # NoConnection =>
            \E j \in Slots : j \in in_use /\ conn[j] = held[u])'
      BY <2>2 DEF Lending, BorrowersAreMarked, PoolTypeOK
    <3>3. \A u, v \in Threads : (held[u] = held[v] /\ held[u] # NoConnection => u = v)'
      BY <2>2, <2>3 DEF Lending, BorrowersAreMarked, PoolTypeOK
    <3> QED BY <3>1, <3>2, <3>3 DEF BorrowersAreMarked
  <2>5. MarksAreBorrowed'
    BY <1>2, <2>2 DEF Lending, MarksAreBorrowed, PoolTypeOK
  <2>6. FreshIsApart'
    BY <2>2 DEF Lending, FreshIsApart, PoolTypeOK
  <2> QED BY <1>1, <2>4, <2>5, <2>6 DEF Lending
<1> QED BY <1>3, <1>4

\* Giving a connection back unmarks its slot and no other.
LEMMA LendingBack ==
  ASSUME PoolTypeOK, Lending, NEW t \in Threads, held[t] # NoConnection, GivesBack(t),
         UNCHANGED <<open, closing, conn>>
  PROVE  BorrowersAreMarked' /\ MarksAreBorrowed'
<1>1. PICK i \in Slots : i \in in_use /\ conn[i] = held[t]
  BY DEF Lending, BorrowersAreMarked
<1>2. open
  BY <1>1 DEF Lending, SlotsAreLive
<1>3. in_use' = in_use \ {i}
  BY <1>1, <1>2 DEF GivesBack, Freed, SlotsOf, Lending, SlotsAreLive, PoolTypeOK
<1>4. /\ held' = [held EXCEPT ![t] = NoConnection]
      /\ at'[t] \in Absent
      /\ \A u \in Threads : u # t => at'[u] = at[u] /\ held'[u] = held[u] /\ held[u] # conn[i]
  BY <1>1 DEF GivesBack, Leaves, Absent, PoolTypeOK, Lending, BorrowersAreMarked
<1>5. BorrowersAreMarked'
  <2>1. \A u \in Threads : (held[u] # NoConnection <=> at[u] \notin Absent)'
    BY <1>4 DEF Lending, BorrowersAreMarked, PoolTypeOK
  <2>2. \A u \in Threads : (held[u] # NoConnection =>
          \E j \in Slots : j \in in_use /\ conn[j] = held[u])'
    BY <1>3, <1>4 DEF Lending, BorrowersAreMarked, PoolTypeOK
  <2>3. \A u, v \in Threads : (held[u] = held[v] /\ held[u] # NoConnection => u = v)'
    BY <1>4 DEF Lending, BorrowersAreMarked, PoolTypeOK
  <2> QED BY <2>1, <2>2, <2>3 DEF BorrowersAreMarked
<1>6. MarksAreBorrowed'
  <2> SUFFICES ASSUME NEW j \in in_use'
               PROVE  conn'[j] # NoConnection /\ \E u \in Threads : held'[u] = conn'[j]
    BY DEF MarksAreBorrowed
  <2>1. j \in in_use /\ j # i /\ j \in Slots /\ conn[j] # NoConnection
    BY <1>3 DEF Lending, MarksAreBorrowed, PoolTypeOK
  <2>2. PICK u \in Threads : held[u] = conn[j]
    BY <2>1 DEF Lending, MarksAreBorrowed
  <2>3. u # t
    BY <1>1, <2>1, <2>2 DEF Lending, SlotsAreLive
  <2> QED BY <1>4, <2>1, <2>2, <2>3
<1> QED BY <1>5, <1>6

LEMMA LendingLeaves ==
  ASSUME PoolTypeOK, Lending, NEW t \in Threads, at[t] \notin Absent, at[t] # "swapping",
         GivesBack(t),
         UNCHANGED <<open, closing, conn, slot, fresh, opened, closed>>
  PROVE  Lending'
<1>1. held[t] # NoConnection
  BY DEF Lending, BorrowersAreMarked
<1>2. BorrowersAreMarked' /\ MarksAreBorrowed'
  BY <1>1, LendingBack
<1>3. SlotsAreLive' /\ ClosedWereOpened'
  BY DEF Lending, SlotsAreLive, ClosedWereOpened
<1>4. FreshIsApart'
  BY DEF GivesBack, Leaves, Lending, FreshIsApart, PoolTypeOK
<1> QED BY <1>2, <1>3, <1>4 DEF Lending

\* A step that leaves the slots alone, and with it the connections in hand, keeps
\* the invariant as long as the thread stays past the scan and opens nothing.
LEMMA LendingStays ==
  ASSUME PoolTypeOK, Lending, NEW t \in Threads, NEW stage \in Stages \ Absent,
         at[t] \notin Absent, at' = [at EXCEPT ![t] = stage],
         at[t] # "swapping", stage = "opening" => slot'[t] \in Slots,
         \A u \in Threads : u # t => slot'[u] = slot[u],
         UNCHANGED <<open, closing, conn, in_use, held, fresh, opened, closed>>
  PROVE  Lending'
<1>1. SlotsAreLive' /\ MarksAreBorrowed' /\ ClosedWereOpened'
  BY DEF Lending, SlotsAreLive, MarksAreBorrowed, ClosedWereOpened
<1>2. \A u \in Threads : at'[u] \in Absent <=> at[u] \in Absent
  BY DEF PoolTypeOK
<1>3. BorrowersAreMarked'
  BY <1>2 DEF Lending, BorrowersAreMarked
<1>4. FreshIsApart'
  BY DEF Lending, FreshIsApart, PoolTypeOK
<1> QED BY <1>1, <1>3, <1>4 DEF Lending

LEMMA LendingOpen ==
  ASSUME PoolTypeOK, Lending, NEW t \in Threads, Open(t)
  PROVE  Lending'
<1>1. /\ at[t] = "opening" /\ at' = [at EXCEPT ![t] = "swapping"]
      /\ UNCHANGED <<open, closing, conn, in_use, held, slot, closed>>
      /\ opened' \in Nat /\ opened \in Nat /\ opened =< opened'
      /\ fresh[t] = NoConnection
  BY PoolAssumption DEF Open, shared, PoolTypeOK, Lending, FreshIsApart
<1>2. SlotsAreLive' /\ ClosedWereOpened'
  BY <1>1, PoolAssumption DEF Lending, SlotsAreLive, ClosedWereOpened, PoolTypeOK, Connections,
       NoConnection
<1>3. \A u \in Threads : at'[u] \in Absent <=> at[u] \in Absent
  BY <1>1 DEF PoolTypeOK, Absent
<1>4. BorrowersAreMarked' /\ MarksAreBorrowed'
  BY <1>1, <1>3 DEF Lending, BorrowersAreMarked, MarksAreBorrowed
<1>5. FreshIsApart'
  <2>1. CASE fresh' = fresh
    BY <1>1, <2>1, PoolAssumption DEF Lending, FreshIsApart, PoolTypeOK, Connections, NoConnection
  <2>2. CASE opened' = opened + 1 /\ fresh' = [fresh EXCEPT ![t] = opened + 1]
    <3>1. \A u \in Threads : u # t => fresh'[u] = fresh[u] /\ fresh[u] # opened + 1
      BY <1>1, <2>2, PoolAssumption DEF Lending, FreshIsApart, PoolTypeOK, Connections,
           NoConnection
    <3>2. fresh'[t] = opened + 1 /\ opened + 1 \notin closed
      BY <1>1, <2>2 DEF Lending, ClosedWereOpened, PoolTypeOK
    <3>3. \A i \in Slots : conn[i] # opened + 1
      BY <1>1, PoolAssumption DEF Lending, SlotsAreLive, PoolTypeOK, Connections, NoConnection
    <3>4. slot[t] \in Slots
      BY <1>1 DEF Lending, FreshIsApart
    <3>5. \A u \in Threads : (at[u] = "opening" => slot[u] \in Slots)'
      BY <1>1 DEF Lending, FreshIsApart, PoolTypeOK
    <3>6. \A u \in Threads : (fresh[u] # NoConnection =>
            /\ at[u] = "swapping" /\ slot[u] \in Slots
            /\ fresh[u] \notin closed /\ fresh[u] =< opened
            /\ \A i \in Slots : conn[i] # fresh[u])'
      <4> TAKE u \in Threads
      <4>1. CASE u = t
        BY <1>1, <2>2, <3>2, <3>3, <3>4, <4>1 DEF PoolTypeOK
      <4>2. CASE u # t
        BY <1>1, <2>2, <3>1, <4>2, PoolAssumption DEF Lending, FreshIsApart, PoolTypeOK,
             Connections, NoConnection
      <4> QED BY <4>1, <4>2
    <3>7. \A u, v \in Threads : (fresh[u] = fresh[v] /\ fresh[u] # NoConnection => u = v)'
      BY <3>1, <3>2 DEF Lending, FreshIsApart
    <3> QED BY <3>5, <3>6, <3>7 DEF FreshIsApart
  <2> QED BY <2>1, <2>2 DEF Open
<1> QED BY <1>2, <1>4, <1>5 DEF Lending

\* The replacement takes the place of the connection it replaces, in the slot and in
\* the borrower's hands, and that one is closed.
LEMMA LendingSwapped ==
  ASSUME PoolTypeOK, Lending, NEW t \in Threads, Swap(t), Swapped(t)
  PROVE  Lending'
<1> DEFINE k == slot[t]
<1>1. /\ at[t] = "swapping" /\ fresh[t] # NoConnection /\ k \in Slots
      /\ open /\ ~closing /\ conn[k] = held[t]
      /\ held[t] # NoConnection /\ fresh[t] # held[t]
      /\ fresh[t] \notin closed /\ \A i \in Slots : conn[i] # fresh[t]
  BY DEF Swap, Swapped, MaySwap, Refuses, Lending, FreshIsApart, BorrowersAreMarked, Absent
<1>2. /\ conn' = [conn EXCEPT ![k] = fresh[t]]
      /\ closed' = closed \cup {held[t]}
      /\ held' = [held EXCEPT ![t] = fresh[t]]
      /\ at' = [at EXCEPT ![t] = "holding"]
      /\ slot' = [slot EXCEPT ![t] = NoSlot]
      /\ fresh' = [fresh EXCEPT ![t] = NoConnection]
      /\ UNCHANGED <<in_use, open, closing, opened>>
  BY DEF Swap, Swapped
<1>3. k \in in_use
  BY <1>1 DEF Lending, BorrowersAreMarked, SlotsAreLive
<1>4. \A u \in Threads : u # t => held[u] # held[t] /\ held[u] # fresh[t] /\ fresh[u] # held[t]
  BY <1>1 DEF Lending, BorrowersAreMarked, FreshIsApart
<1>5. \A i \in Slots : i # k => conn[i] # held[t]
  BY <1>1 DEF Lending, SlotsAreLive
<1>6. SlotsAreLive'
  <2>1. \A i \in Slots : conn'[i] # NoConnection
    BY <1>1, <1>2 DEF Lending, SlotsAreLive, PoolTypeOK
  <2>2. \A i \in Slots : conn'[i] \notin closed' /\ conn'[i] =< opened'
    BY <1>1, <1>2, <1>5 DEF Lending, SlotsAreLive, FreshIsApart, PoolTypeOK
  <2>3. \A i, j \in Slots : conn'[i] = conn'[j] => i = j
    BY <1>1, <1>2 DEF Lending, SlotsAreLive, PoolTypeOK
  <2> QED BY <1>1, <1>2, <2>1, <2>2, <2>3 DEF SlotsAreLive
<1>7. BorrowersAreMarked'
  <2>1. \A u \in Threads : (held[u] # NoConnection <=> at[u] \notin Absent)'
    BY <1>1, <1>2 DEF Lending, BorrowersAreMarked, PoolTypeOK, Absent
  <2>2. \A u \in Threads : (held[u] # NoConnection =>
          \E i \in Slots : i \in in_use /\ conn[i] = held[u])'
    <3> TAKE u \in Threads
    <3>1. CASE u = t
      BY <1>1, <1>2, <1>3, <3>1 DEF PoolTypeOK
    <3>2. CASE u # t
      BY <1>1, <1>2, <1>4, <3>2 DEF Lending, BorrowersAreMarked, PoolTypeOK
    <3> QED BY <3>1, <3>2
  <2>3. \A u, v \in Threads : (held[u] = held[v] /\ held[u] # NoConnection => u = v)'
    BY <1>2, <1>4 DEF Lending, BorrowersAreMarked, PoolTypeOK
  <2> QED BY <2>1, <2>2, <2>3 DEF BorrowersAreMarked
<1>8. MarksAreBorrowed'
  <2> SUFFICES ASSUME NEW i \in in_use
               PROVE  conn'[i] # NoConnection /\ \E u \in Threads : held'[u] = conn'[i]
    BY <1>2 DEF MarksAreBorrowed
  <2>1. CASE i = k
    BY <1>1, <1>2, <2>1 DEF PoolTypeOK
  <2>2. CASE i # k
    <3>1. PICK u \in Threads : held[u] = conn[i]
      BY DEF Lending, MarksAreBorrowed
    <3>2. u # t /\ i \in Slots
      BY <1>5, <2>2, <3>1 DEF PoolTypeOK
    <3> QED BY <1>2, <2>2, <3>1, <3>2 DEF Lending, MarksAreBorrowed, PoolTypeOK
  <2> QED BY <2>1, <2>2
<1>9. FreshIsApart'
  <2>1. \A u \in Threads : (at[u] = "opening" => slot[u] \in Slots)'
    BY <1>2 DEF Lending, FreshIsApart, PoolTypeOK
  <2>2. \A u \in Threads : fresh'[u] # NoConnection =>
          u # t /\ fresh'[u] = fresh[u] /\ at'[u] = at[u] /\ slot'[u] = slot[u]
    BY <1>2 DEF PoolTypeOK
  <2>3. \A u \in Threads : u # t /\ fresh[u] # NoConnection => fresh[u] # fresh[t]
    BY DEF Lending, FreshIsApart
  <2>4. \A u \in Threads : fresh'[u] # NoConnection =>
          /\ at'[u] = "swapping" /\ slot'[u] \in Slots
          /\ fresh'[u] \notin closed' /\ fresh'[u] =< opened'
          /\ \A i \in Slots : conn'[i] # fresh'[u]
    BY <1>2, <1>4, <2>2, <2>3 DEF Lending, FreshIsApart, PoolTypeOK
  <2>5. \A u, v \in Threads : (fresh[u] = fresh[v] /\ fresh[u] # NoConnection => u = v)'
    BY <2>2 DEF Lending, FreshIsApart
  <2> QED BY <2>1, <2>4, <2>5 DEF FreshIsApart
<1>10. ClosedWereOpened'
  BY <1>1, <1>2 DEF Lending, ClosedWereOpened, SlotsAreLive
<1> QED BY <1>6, <1>7, <1>8, <1>9, <1>10 DEF Lending

LEMMA LendingNotSwapped ==
  ASSUME PoolTypeOK, Lending, NEW t \in Threads, Swap(t), NotSwapped(t)
  PROVE  Lending'
<1>1. /\ at[t] = "swapping" /\ held[t] # NoConnection
      /\ GivesBack(t)
      /\ closed' = closed \cup ({fresh[t]} \ {NoConnection})
      /\ slot' = [slot EXCEPT ![t] = NoSlot]
      /\ fresh' = [fresh EXCEPT ![t] = NoConnection]
      /\ UNCHANGED <<open, closing, conn, opened>>
  BY DEF Swap, NotSwapped, Lending, BorrowersAreMarked, Absent
<1>2. BorrowersAreMarked' /\ MarksAreBorrowed'
  BY <1>1, LendingBack
<1>3. SlotsAreLive' /\ ClosedWereOpened'
  BY <1>1 DEF Lending, SlotsAreLive, FreshIsApart, ClosedWereOpened
<1>4. at' = [at EXCEPT ![t] = "out"]
  BY <1>1 DEF GivesBack, Leaves
<1>5. FreshIsApart'
  <2>1. \A u \in Threads : (at[u] = "opening" => slot[u] \in Slots)'
    BY <1>1, <1>4 DEF Lending, FreshIsApart, PoolTypeOK
  <2>2. \A u \in Threads : fresh'[u] # NoConnection =>
          u # t /\ fresh'[u] = fresh[u] /\ at'[u] = at[u] /\ slot'[u] = slot[u]
    BY <1>1, <1>4 DEF PoolTypeOK
  <2>3. \A u \in Threads : u # t /\ fresh[u] # NoConnection => fresh[u] # fresh[t]
    BY DEF Lending, FreshIsApart
  <2>4. \A u \in Threads : fresh'[u] # NoConnection =>
          /\ at'[u] = "swapping" /\ slot'[u] \in Slots
          /\ fresh'[u] \notin closed' /\ fresh'[u] =< opened'
          /\ \A i \in Slots : conn'[i] # fresh'[u]
    BY <1>1, <2>2, <2>3 DEF Lending, FreshIsApart
  <2>5. \A u, v \in Threads : (fresh[u] = fresh[v] /\ fresh[u] # NoConnection => u = v)'
    BY <2>2 DEF Lending, FreshIsApart
  <2> QED BY <2>1, <2>4, <2>5 DEF FreshIsApart
<1> QED BY <1>2, <1>3, <1>5 DEF Lending

LEMMA LendingThread ==
  ASSUME PoolTypeOK, Lending, NEW t \in Threads, ThreadNext(t)
  PROVE  Lending'
<1>1. CASE Acquire(t)
  BY <1>1, LendingScan DEF Acquire
<1>2. CASE Woken(t)
  BY <1>2, LendingScan DEF Woken
<1>3. CASE TimesOut(t)
  <2>1. held[t] = NoConnection /\ at[t] \in Absent
    BY <1>3 DEF TimesOut, Lending, BorrowersAreMarked, Absent
  <2>2. /\ held' = held
        /\ at' = [at EXCEPT ![t] = "out"]
        /\ UNCHANGED <<open, closing, conn, in_use, slot, fresh, opened, closed>>
    BY <1>3, <2>1 DEF TimesOut, Leaves, shared, PoolTypeOK
  <2>3. \A u \in Threads : at'[u] \in Absent <=> at[u] \in Absent
    BY <2>1, <2>2 DEF PoolTypeOK, Absent
  <2>4. SlotsAreLive' /\ BorrowersAreMarked' /\ MarksAreBorrowed' /\ ClosedWereOpened'
    BY <2>2, <2>3 DEF Lending, SlotsAreLive, BorrowersAreMarked, MarksAreBorrowed, ClosedWereOpened
  <2>5. FreshIsApart'
    BY <1>3, <2>2 DEF TimesOut, Lending, FreshIsApart, PoolTypeOK
  <2> QED BY <2>4, <2>5 DEF Lending
<1>4. CASE Probe(t)
  <2>1. PICK stage \in {"holding", "deciding"} : at' = [at EXCEPT ![t] = stage]
    BY <1>4 DEF Probe
  <2> QED BY <1>4, <2>1, LendingStays DEF Probe, shared, Stages, Absent
<1>5. CASE Decide(t)
  <2>1. CASE GivesBack(t)
    BY <1>5, <2>1, LendingLeaves DEF Decide, Absent
  <2>2. CASE at' = [at EXCEPT ![t] = "marking"] /\ UNCHANGED <<in_use, held, late>>
    BY <1>5, <2>2, LendingStays DEF Decide, Stages, Absent
  <2> QED BY <1>5, <2>1, <2>2 DEF Decide
<1>6. CASE Mark(t)
  <2>1. CASE at' = [at EXCEPT ![t] = "opening"]
    <3>1. slot'[t] \in Slots /\ \A u \in Threads : u # t => slot'[u] = slot[u]
      <4>1. at'[t] = "opening"
        BY <2>1 DEF PoolTypeOK
      <4>2. at' # [at EXCEPT ![t] = "swapping"]
        BY <4>1 DEF PoolTypeOK
      <4> QED BY <1>6, <4>2 DEF Mark, SlotsOf, PoolTypeOK
    <3> QED BY <1>6, <2>1, <3>1, LendingStays DEF Mark, Stages, Absent
  <2>2. CASE at' = [at EXCEPT ![t] = "swapping"] /\ slot' = slot
    BY <1>6, <2>2, LendingStays DEF Mark, Stages, Absent
  <2> QED BY <1>6, <2>1, <2>2 DEF Mark
<1>7. CASE Open(t)
  BY <1>7, LendingOpen
<1>8. CASE Swap(t)
  BY <1>8, LendingSwapped, LendingNotSwapped DEF Swap
<1>9. CASE Release(t)
  BY <1>9, LendingLeaves DEF Release, Absent
<1>10. CASE Break(t)
  BY <1>10, LendingStays DEF Break, shared, Stages, Absent
<1> QED BY <1>1, <1>2, <1>3, <1>4, <1>5, <1>6, <1>7, <1>8, <1>9, <1>10 DEF ThreadNext

LEMMA LendingClose ==
  ASSUME PoolTypeOK, Lending, CloseBegin \/ CloseEnd \/ LoseLock
  PROVE  Lending'
<1>1. CASE CloseBegin
  BY <1>1 DEF CloseBegin, local, Lending, SlotsAreLive, BorrowersAreMarked, MarksAreBorrowed,
       FreshIsApart, ClosedWereOpened
<1>2. CASE CloseEnd
  <2>1. \A t \in Threads : held[t] = NoConnection
    BY <1>2 DEF CloseEnd, NoneBorrowed, Lending, BorrowersAreMarked
  <2>2. /\ open /\ ~open' /\ ~closing'
        /\ conn' = [i \in Slots |-> NoConnection] /\ in_use' = {}
        /\ closed' = closed \cup {conn[i] : i \in Slots}
        /\ UNCHANGED <<at, held, slot, fresh, opened>>
    BY <1>2 DEF CloseEnd, local, Lending, SlotsAreLive
  <2>3. SlotsAreLive' /\ MarksAreBorrowed'
    BY <2>2 DEF SlotsAreLive, MarksAreBorrowed
  <2>4. BorrowersAreMarked'
    BY <2>1, <2>2 DEF Lending, BorrowersAreMarked
  <2>5. FreshIsApart'
    BY <2>2 DEF Lending, FreshIsApart, NoConnection
  <2>6. ClosedWereOpened'
    BY <2>2 DEF Lending, ClosedWereOpened, SlotsAreLive
  <2> QED BY <2>3, <2>4, <2>5, <2>6 DEF Lending
<1>3. CASE LoseLock
  BY <1>3 DEF LoseLock, shared, local, Lending, SlotsAreLive, BorrowersAreMarked,
       MarksAreBorrowed, FreshIsApart, ClosedWereOpened
<1> QED BY <1>1, <1>2, <1>3

LEMMA LendingStutters ==
  ASSUME Lending, PoolTypeOK, UNCHANGED poolVars
  PROVE  Lending' /\ PoolTypeOK'
BY DEF poolVars, shared, guard, local, Lending, SlotsAreLive, BorrowersAreMarked,
     MarksAreBorrowed, FreshIsApart, ClosedWereOpened, PoolTypeOK

\* Every variable of the pool keeps its type, and the invariant holds.
THEOREM LendingHolds == PoolSpec => [](PoolTypeOK /\ Lending)
<1>1. PoolInit => PoolTypeOK /\ Lending
  BY TypeInit, LendingInit
<1>2. (PoolTypeOK /\ Lending) /\ [PoolNext]_poolVars => (PoolTypeOK /\ Lending)'
  BY NextSplits, TypeThread, TypeClose, LendingThread, LendingClose, LendingStutters
<1> QED BY <1>1, <1>2, PTL DEF PoolSpec

\* Types of the pool's variables: what sql_pool.c keeps in its slots and hands out.
THEOREM PoolIsTyped == PoolSpec => []PoolTypeOK
BY LendingHolds, PTL

\* Two threads never work with one connection, and none works with a closed one.
THEOREM ConnectionsAreExclusive == PoolSpec => []LentToOne
<1>1. PoolTypeOK /\ Lending => LentToOne
  BY DEF Lending, LentToOne, BorrowersAreMarked, SlotsAreLive
<1> QED BY <1>1, LendingHolds, PTL

\* The marks of the slots are exactly the borrowers: no path of acquire, replace,
\* release or shutdown leaves one behind.
THEOREM MarksAreExact == PoolSpec => []BorrowedIsExact
<1>1. PoolTypeOK /\ Lending => BorrowedIsExact
  <2> SUFFICES ASSUME PoolTypeOK, Lending
               PROVE  BorrowedIsExact
    OBVIOUS
  <2>1. ASSUME NEW i \in Slots, conn[i] # NoConnection, NEW t \in Threads, held[t] = conn[i]
        PROVE  i \in in_use
    BY <2>1 DEF Lending, BorrowersAreMarked, SlotsAreLive
  <2> QED BY <2>1 DEF BorrowedIsExact, Lending, MarksAreBorrowed, PoolTypeOK
<1> QED BY <1>1, LendingHolds, PTL

----------------------------------------------------------------------------
(***************************************************************************)
(* Leaks, broken connections and the lost lock                             *)
(***************************************************************************)
\* Nothing but a thread's own step moves its replacement or its slot's connection.
LEMMA LeakStep ==
  ASSUME PoolTypeOK, Lending, NoneLeaked, NEW t \in Threads, ThreadNext(t)
  PROVE  NoneLeaked'
<1>1. CASE UNCHANGED <<opened, closed, conn, fresh>>
  BY <1>1 DEF NoneLeaked
<1>2. CASE Open(t)
  <2>1. fresh[t] = NoConnection /\ UNCHANGED <<closed, conn>> /\ opened \in Nat
    BY <1>2, PoolAssumption DEF Open, shared, Lending, FreshIsApart, PoolTypeOK
  <2>2. CASE UNCHANGED <<opened, fresh>>
    BY <2>1, <2>2 DEF NoneLeaked
  <2>3. CASE opened' = opened + 1 /\ fresh' = [fresh EXCEPT ![t] = opened + 1]
    BY <2>1, <2>3 DEF NoneLeaked, PoolTypeOK, NoConnection
  <2> QED BY <1>2, <2>2, <2>3 DEF Open
<1>3. CASE Swap(t)
  <2>1. opened' = opened /\ fresh' = [fresh EXCEPT ![t] = NoConnection]
    BY <1>3 DEF Swap
  <2>2. CASE Swapped(t)
    <3>1. /\ slot[t] \in Slots /\ conn[slot[t]] = held[t]
          /\ conn' = [conn EXCEPT ![slot[t]] = fresh[t]]
          /\ closed' = closed \cup {held[t]}
      BY <2>2 DEF Swapped, MaySwap, Lending, FreshIsApart
    <3> QED BY <2>1, <3>1 DEF NoneLeaked, PoolTypeOK
  <2>3. CASE NotSwapped(t)
    BY <2>1, <2>3 DEF NotSwapped, NoneLeaked, PoolTypeOK, NoConnection
  <2> QED BY <1>3, <2>2, <2>3 DEF Swap
<1> QED BY <1>1, <1>2, <1>3 DEF ThreadNext, Acquire, Woken, TimesOut, Probe, Decide, Mark, Release,
         Break, shared

LEMMA LeakClose ==
  ASSUME PoolTypeOK, Lending, NoneLeaked, CloseBegin \/ CloseEnd \/ LoseLock
  PROVE  NoneLeaked'
<1>1. CASE CloseEnd
  BY <1>1 DEF CloseEnd, local, NoneLeaked
<1>2. CASE UNCHANGED <<opened, closed, conn, fresh>>
  BY <1>2 DEF NoneLeaked
<1> QED BY <1>1, <1>2 DEF CloseBegin, LoseLock, shared, local

\* No connection is lost: each one opened is in a slot, in its opener's hands or closed.
THEOREM ConnectionsAreAccountedFor == PoolSpec => []NoneLeaked
<1>1. PoolInit => NoneLeaked
  BY DEF PoolInit, NoneLeaked, Slots
<1>2. PoolTypeOK /\ Lending /\ NoneLeaked /\ [PoolNext]_poolVars => NoneLeaked'
  <2>1. ASSUME NoneLeaked, UNCHANGED poolVars
        PROVE  NoneLeaked'
    BY <2>1 DEF poolVars, shared, local, NoneLeaked
  <2> QED BY <2>1, NextSplits, LeakStep, LeakClose
<1> QED BY <1>1, <1>2, LendingHolds, PTL DEF PoolSpec

\* What a thread was lent, or is about to be, is not of a slot that needs repair.
Sound ==
  \A t \in Threads, i \in Slots :
    at[t] \in {"probing", "holding"} /\ conn[i] = held[t] => i \notin needs

LEMMA SoundStep ==
  ASSUME PoolTypeOK, Lending, Sound, NEW t \in Threads, ThreadNext(t)
  PROVE  Sound'
<1>1. ASSUME Scan(t), UNCHANGED <<conn, needs>>
      PROVE  Sound'
  <2>1. CASE \E i \in Slots : Borrow(t, i)
    <3>1. PICK i \in Slots : Borrow(t, i)
      BY <2>1
    <3>2. /\ conn[i] # NoConnection
          /\ held' = [held EXCEPT ![t] = conn[i]]
          /\ at' = [at EXCEPT ![t] = IF i \in needs THEN "deciding" ELSE "probing"]
      BY <3>1 DEF Borrow, IsFirstFree, Free
    <3>3. \A j \in Slots : conn[j] = conn[i] => j = i
      BY <3>2 DEF Lending, SlotsAreLive
    <3> QED BY <1>1, <3>2, <3>3 DEF Sound, PoolTypeOK
  <2>2. CASE held' = held /\ at' \in {[at EXCEPT ![t] = "out"], [at EXCEPT ![t] = "waiting"]}
    BY <1>1, <2>2 DEF Sound, PoolTypeOK
  <2> QED BY <1>1, <2>1, <2>2 DEF Scan
<1>2. ASSUME Leaves(t), UNCHANGED <<conn, needs>>
      PROVE  Sound'
  BY <1>2 DEF Leaves, Sound, PoolTypeOK
<1>3. CASE Acquire(t) \/ Woken(t)
  BY <1>1, <1>3 DEF Acquire, Woken
<1>4. CASE TimesOut(t) \/ Release(t)
  BY <1>2, <1>4 DEF TimesOut, Release, GivesBack, shared
<1>5. CASE Probe(t)
  BY <1>5 DEF Probe, shared, Sound, PoolTypeOK
<1>6. CASE Decide(t)
  <2>1. CASE GivesBack(t)
    BY <1>2, <1>6, <2>1 DEF Decide, GivesBack
  <2>2. CASE at' = [at EXCEPT ![t] = "marking"] /\ held' = held
    BY <1>6, <2>2 DEF Decide, Sound, PoolTypeOK
  <2> QED BY <1>6, <2>1, <2>2 DEF Decide
<1>7. CASE Mark(t)
  <2>1. /\ conn' = conn /\ held' = held
        /\ \A u \in Threads : at'[u] \in {"probing", "holding"} => u # t /\ at[u] = at'[u]
        /\ \A i \in needs' : i \in needs \/ conn[i] = held[t]
        /\ held[t] # NoConnection
    BY <1>7 DEF Mark, PoolTypeOK, SlotsOf, Lending, BorrowersAreMarked, Absent
  <2> QED BY <2>1 DEF Sound, Lending, BorrowersAreMarked
<1>8. CASE Open(t) \/ Break(t)
  BY <1>8 DEF Open, Break, shared, Sound, PoolTypeOK
<1>9. CASE Swap(t)
  <2>1. CASE NotSwapped(t)
    BY <1>2, <2>1 DEF NotSwapped, GivesBack
  <2>2. CASE Swapped(t)
    <3>1. /\ slot[t] \in Slots /\ fresh[t] # NoConnection
          /\ conn' = [conn EXCEPT ![slot[t]] = fresh[t]]
          /\ needs' = needs \ {slot[t]}
          /\ held' = [held EXCEPT ![t] = fresh[t]]
          /\ at' = [at EXCEPT ![t] = "holding"]
          /\ \A i \in Slots : conn[i] # fresh[t]
      BY <2>2 DEF Swapped, MaySwap, Lending, FreshIsApart
    <3> QED BY <3>1 DEF Sound, PoolTypeOK
  <2> QED BY <1>9, <2>1, <2>2 DEF Swap
<1> QED BY <1>3, <1>4, <1>5, <1>6, <1>7, <1>8, <1>9 DEF ThreadNext

LEMMA SoundClose ==
  ASSUME PoolTypeOK, Lending, Sound, CloseBegin \/ CloseEnd \/ LoseLock
  PROVE  Sound'
<1>1. CASE CloseEnd
  <2>1. \A t \in Threads : held[t] = NoConnection
    BY <1>1 DEF CloseEnd, NoneBorrowed, Lending, BorrowersAreMarked
  <2>2. \A t \in Threads : at'[t] \in Absent
    BY <1>1, <2>1 DEF CloseEnd, local, Lending, BorrowersAreMarked
  <2> QED BY <2>2 DEF Sound, Absent
<1>2. CASE UNCHANGED <<conn, needs, at, held>>
  BY <1>2 DEF Sound
<1> QED BY <1>1, <1>2 DEF CloseBegin, LoseLock, shared, local

\* A borrower never gets a connection whose repair failed.
THEOREM BrokenIsNeverLent == PoolSpec => []BrokenNotLent
<1>1. PoolInit => Sound
  BY DEF PoolInit, Sound
<1>2. PoolTypeOK /\ Lending /\ Sound /\ [PoolNext]_poolVars => Sound'
  <2>1. ASSUME Sound, UNCHANGED poolVars
        PROVE  Sound'
    BY <2>1 DEF poolVars, shared, local, Sound
  <2> QED BY <2>1, NextSplits, SoundStep, SoundClose
<1>3. Sound => BrokenNotLent
  BY DEF Sound, BrokenNotLent
<1> QED BY <1>1, <1>2, <1>3, LendingHolds, PTL DEF PoolSpec

\* A thread that came after the loss finds the latch set, and gets no further than
\* the decision about its probe.
LateIsRefused ==
  \A t \in late : lost /\ at[t] \in {"waiting", "probing", "deciding"}

LEMMA LateStep ==
  ASSUME PoolTypeOK, LateIsRefused, NEW t \in Threads, ThreadNext(t)
  PROVE  LateIsRefused'
<1>1. ASSUME Scan(t)
      PROVE  /\ \A u \in Threads : u # t => at'[u] = at[u]
             /\ ~Refuses => at'[t] \in {"waiting", "probing", "deciding"}
  BY <1>1 DEF Scan, Borrow, PoolTypeOK
<1>2. CASE Acquire(t)
  BY <1>1, <1>2 DEF Acquire, guard, LateIsRefused, PoolTypeOK
<1>3. CASE Woken(t)
  BY <1>1, <1>3 DEF Woken, guard, LateIsRefused, PoolTypeOK
<1>4. CASE Probe(t)
  BY <1>4 DEF Probe, Allows, LateIsRefused, PoolTypeOK
<1>5. CASE Decide(t)
  BY <1>5 DEF Decide, GivesBack, Leaves, guard, LateIsRefused, PoolTypeOK
<1>6. CASE TimesOut(t) \/ Release(t)
  BY <1>6 DEF TimesOut, Release, GivesBack, Leaves, guard, LateIsRefused, PoolTypeOK
<1>7. CASE Mark(t) \/ Break(t)
  BY <1>7 DEF Mark, Break, guard, LateIsRefused, PoolTypeOK
<1>8. CASE Open(t)
  BY <1>8 DEF Open, LateIsRefused, PoolTypeOK
<1>9. CASE Swap(t)
  BY <1>9 DEF Swap, Swapped, NotSwapped, GivesBack, Leaves, guard, LateIsRefused, PoolTypeOK
<1> QED BY <1>2, <1>3, <1>4, <1>5, <1>6, <1>7, <1>8, <1>9 DEF ThreadNext

\* After a confirmed loss of the lock no later acquire succeeds.
THEOREM LossIsForGood == PoolSpec => []LossIsFinal
<1>1. PoolInit => LateIsRefused
  BY DEF PoolInit, LateIsRefused
<1>2. PoolTypeOK /\ LateIsRefused /\ [PoolNext]_poolVars => LateIsRefused'
  <2>1. ASSUME LateIsRefused, UNCHANGED <<late, lost, at>>
        PROVE  LateIsRefused'
    BY <2>1 DEF LateIsRefused
  <2>2. CloseBegin \/ CloseEnd \/ LoseLock \/ UNCHANGED poolVars => UNCHANGED <<late, lost, at>>
    BY DEF CloseBegin, CloseEnd, LoseLock, poolVars, guard, local
  <2> QED BY <2>1, <2>2, NextSplits, LateStep
<1>3. LateIsRefused => LossIsFinal
  BY DEF LateIsRefused, LossIsFinal
<1> QED BY <1>1, <1>2, <1>3, LendingHolds, PTL DEF PoolSpec

\* The marks of the slots and the connections opened are accounted for on every path of
\* acquire, replace and shutdown, whatever the number of threads and slots.
THEOREM PoolIsAccountedFor == PoolSpec => []Accounted
BY MarksAreExact, ConnectionsAreAccountedFor, PTL DEF Accounted

\* No borrower gets a connection it must not use, whether broken or after the lock's loss.
THEOREM LentConnectionsAreUsable == PoolSpec => []LentIsUsable
BY BrokenIsNeverLent, LossIsForGood, PTL DEF LentIsUsable

-----------------------------------------------------------------------------
LEMMA ReadsIsPoolStep ==
  ASSUME NEW t \in Threads, NEW outcome, Reads(t, outcome)
  PROVE  PoolNext \/ UNCHANGED poolVars
BY DEF Reads, Finish, PoolNext

LEMMA LoaderStep == LoaderNext => PoolNext \/ UNCHANGED poolVars
<1> SUFFICES ASSUME LoaderNext PROVE PoolNext \/ UNCHANGED poolVars
  OBVIOUS
<1>1. CASE LoaderAcquires
  BY <1>1, LoadAssumption DEF LoaderAcquires, PoolNext
<1>2. CASE LoaderReads
  BY <1>2, LoadAssumption, ReadsIsPoolStep DEF LoaderReads
<1>3. CASE Start \/ Take \/ Check \/ Publish \/ Leave
  BY <1>3 DEF Start, Take, Check, Publish, Leave
<1> QED BY <1>1, <1>2, <1>3 DEF LoaderNext

LEMMA GameStep == GameNext => PoolNext \/ UNCHANGED poolVars
<1> SUFFICES ASSUME GameNext PROVE PoolNext \/ UNCHANGED poolVars
  OBVIOUS
<1>1. CASE GameAcquires
  BY <1>1, LoadAssumption DEF GameAcquires, PoolNext
<1>2. CASE GameReads
  BY <1>2, LoadAssumption, ReadsIsPoolStep DEF GameReads
<1>3. CASE \E s \in Sessions : Select(s) \/ SelectAndWait(s) \/ Close(s)
  BY <1>3 DEF Select, SelectAndWait, Close
<1>4. CASE WaitFound \/ WaitEnds \/ GameCannotRead \/ Pulse \/ Deliver \/ Shutdown \/ Join
  BY <1>4 DEF WaitFound, WaitEnds, GameCannotRead, Pulse, Deliver, Shutdown, Join
<1>5. CASE ClosePool
  BY <1>5 DEF ClosePool, PoolNext
<1> QED BY <1>1, <1>2, <1>3, <1>4, <1>5 DEF GameNext

LEMMA InPoolStep == InPool => PoolNext
BY DEF InPool, Others, PoolNext

\* Every step of the loader, of the game thread and of the other borrowers is a step
\* of the pool or leaves the pool alone: execute_repository returns what it acquired,
\* once, and nobody closes the pool while the pipeline runs.
THEOREM LoadsUseThePool == Spec => ImplementsPool
<1>1. Init => PoolInit
  BY DEF Init
<1>2. [Next]_vars => [PoolNext]_poolVars
  BY LoaderStep, GameStep, InPoolStep DEF Next, vars
<1> QED BY <1>1, <1>2, PTL DEF Spec, ImplementsPool, PoolSpec

\* With the pipeline running, the loader and the game thread never read over the same
\* connection, nor over one that a replacement or the shutdown closed.
THEOREM LoadsAreExclusive == Spec => []LentToOne
BY LoadsUseThePool, ConnectionsAreExclusive, PTL DEF ImplementsPool

-----------------------------------------------------------------------------
(***************************************************************************)
(* The inductive invariant of the queues.                                  *)
(***************************************************************************)
Results == [id : Requests, outcome : Outcomes]
\* The stages in which the game thread loads a character itself.
Working == {"sync", "reading", "retry", "rereading"}
Holding == {"taken", "executing", "reading", "read"}

Typed ==
  /\ jobs \in Seq(Requests) /\ completions \in Seq(Results)
  /\ active \subseteq Requests /\ cancelled \subseteq active
  /\ inflight \in Requests \cup {NoRequest}
  /\ loader \in [stage : {"starting", "idle", "gone"} \cup Holding,
                 result : [id : Requests \cup {NoRequest}, outcome : Outcomes]]
  /\ game.stage \in {"loop", "waiting", "joining", "stopped"} \cup Working
  /\ state \in [Sessions -> {"menu", "loading", "playing", "closed"}]
  /\ awaits \in [Sessions -> Requests \cup {NoRequest}]
  /\ requests \in 0 .. MaxRequests

\* What the loader holds is in flight, and nothing else is.
HeldIsInFlight ==
  IF loader.stage \in Holding
  THEN inflight = loader.result.id /\ inflight # NoRequest
  ELSE inflight = NoRequest

\* No request is in two places, ...
Apart ==
  /\ \A i, j \in 1 .. Len(jobs) : jobs[i] = jobs[j] => i = j
  /\ \A i, j \in 1 .. Len(completions) : completions[i].id = completions[j].id => i = j
  /\ \A i \in 1 .. Len(jobs), j \in 1 .. Len(completions) : jobs[i] # completions[j].id
  /\ \A i \in 1 .. Len(jobs) : jobs[i] # inflight
  /\ \A i \in 1 .. Len(completions) : completions[i].id # inflight

\* ... the active ones are those in some place, ...
Owned ==
  \A id : id \in active <=>
    \/ \E i \in 1 .. Len(jobs) : jobs[i] = id
    \/ \E i \in 1 .. Len(completions) : completions[i].id = id
    \/ id = inflight /\ id # NoRequest

\* ... there is room for them, and their ids were given out.
Bounded ==
  /\ Cardinality(active) =< MaxPending
  /\ \A id \in active : id =< requests

\* A request belongs to one session, or to the wait of the game thread.
Waits(s) == state[s] \in {"loading", "closed"}

Issued ==
  /\ \A s \in Sessions : awaits[s] =< requests
  /\ \A s \in Sessions : Waits(s) => awaits[s] # NoRequest
  /\ \A s, t \in Sessions : Waits(s) /\ Waits(t) /\ awaits[s] = awaits[t] => s = t
  /\ game.stage = "waiting" =>
       /\ game.id \in active /\ game.id \notin cancelled
       /\ \A s \in Sessions : Waits(s) => awaits[s] # game.id

\* A request that a session waits for is not cancelled before the shutdown, ...
LoadingIsWanted ==
  game.stage \notin {"joining", "stopped"} =>
    \A s \in Sessions : state[s] = "loading" => awaits[s] \notin cancelled

\* ... and one whose session closed is, until its result says so.
ClosedIsMarked ==
  \A s \in Sessions : state[s] = "closed" =>
    /\ awaits[s] \in active =>
         \/ awaits[s] \in cancelled
         \/ \E i \in 1 .. Len(completions) : completions[i].id = awaits[s]
    /\ \A i \in 1 .. Len(completions) :
         completions[i].id = awaits[s] => completions[i].outcome = "cancelled"

LoadInv ==
  Typed /\ HeldIsInFlight /\ Apart /\ Owned /\ Bounded /\ Issued /\ LoadingIsWanted
    /\ ClosedIsMarked

LEMMA ActiveIsFinite ==
  ASSUME Typed
  PROVE  IsFiniteSet(active) /\ Cardinality(active) \in Nat
<1>1. IsFiniteSet(Requests)
  BY LoadAssumption, FS_Interval DEF Requests
<1>2. IsFiniteSet(active)
  BY <1>1, FS_Subset DEF Typed
<1> QED BY <1>2, FS_CardinalityType

LEMMA FewerAreBounded ==
  ASSUME Typed, Bounded, active' \subseteq active, requests' = requests
  PROVE  Bounded'
<1>1. Cardinality(active') =< Cardinality(active) /\ Cardinality(active') \in Nat
  BY ActiveIsFinite, FS_Subset, FS_CardinalityType
<1> QED BY <1>1, ActiveIsFinite, LoadAssumption DEF Bounded

LEMMA InitLoadInv == Init => LoadInv
<1> SUFFICES ASSUME Init PROVE LoadInv
  OBVIOUS
<1>1. Typed
  BY LoadAssumption
     DEF Init, Typed, Idle, Loop, Result, Outcomes, Entering, Retried, Holding, NoRequest
<1>2. HeldIsInFlight /\ Apart /\ Owned
  BY DEF Init, HeldIsInFlight, Apart, Owned, Idle, Holding, NoRequest
<1>3. Bounded
  BY LoadAssumption, FS_EmptySet DEF Init, Bounded
<1>4. Issued /\ LoadingIsWanted /\ ClosedIsMarked
  BY DEF Init, Issued, Waits, LoadingIsWanted, ClosedIsMarked, Loop, NoRequest
<1> QED BY <1>1, <1>2, <1>3, <1>4 DEF LoadInv

LEMMA LoadStill ==
  ASSUME LoadInv, UNCHANGED loadVars
  PROVE  LoadInv'
BY DEF LoadInv, Typed, HeldIsInFlight, Apart, Owned, Bounded, Issued, Waits, LoadingIsWanted,
       ClosedIsMarked, loadVars, queues, sessions

\* Sessions, the game thread and what was given out do not see where a request is.
LEMMA LoaderKeeps ==
  ASSUME LoadInv, cancelled' \subseteq cancelled,
         UNCHANGED <<active, game, state, awaits, requests>>
  PROVE  Issued' /\ LoadingIsWanted'
BY DEF LoadInv, Issued, Waits, LoadingIsWanted

LEMMA StartKeeps ==
  ASSUME LoadInv, Start
  PROVE  LoadInv'
<1>1. /\ UNCHANGED <<jobs, completions, active, cancelled, inflight, game, state, awaits, requests>>
      /\ loader' = Idle \/ loader' = [Idle EXCEPT !.stage = "gone"]
  BY DEF Start, sessions
<1>2. Typed' /\ HeldIsInFlight'
  BY <1>1 DEF LoadInv, Typed, HeldIsInFlight, Start, Idle, Result, Outcomes, Entering, Retried,
              Holding
<1> QED BY <1>1, <1>2, LoaderKeeps
        DEF LoadInv, Apart, Owned, Bounded, ClosedIsMarked

LEMMA TakeKeeps ==
  ASSUME LoadInv, Take
  PROVE  LoadInv'
<1>1. /\ UNCHANGED <<completions, active, cancelled, game, state, awaits, requests>>
      /\ jobs' = Tail(jobs) /\ inflight' = Head(jobs) /\ jobs # <<>>
      /\ loader' = [stage |-> "taken", result |-> Result(Head(jobs), "failed")]
      /\ loader.stage = "idle"
  BY DEF Take, sessions
<1>2. /\ Head(jobs) = jobs[1] /\ jobs[1] \in Requests /\ 1 \in 1 .. Len(jobs)
      /\ jobs' \in Seq(Requests) /\ Len(jobs) \in Nat /\ Len(jobs') = Len(jobs) - 1
      /\ \A i \in 1 .. Len(jobs') : i + 1 \in 1 .. Len(jobs) /\ jobs'[i] = jobs[i + 1]
      /\ \A i \in 1 .. Len(jobs) :
           i = 1 \/ (i - 1 \in 1 .. Len(jobs') /\ jobs'[i - 1] = jobs[i])
  <2>1. jobs \in Seq(Requests)
    BY DEF LoadInv, Typed
  <2> QED BY <1>1, <2>1, Tailed
<1>3. Typed' /\ HeldIsInFlight'
  BY <1>1, <1>2 DEF LoadInv, Typed, HeldIsInFlight, Result, Outcomes, Entering, Retried, Holding,
                    Requests, NoRequest
<1>4. inflight = NoRequest
  BY <1>1 DEF LoadInv, HeldIsInFlight, Holding
<1>5. Apart'
  BY <1>1, <1>2, SMTT(30) DEF LoadInv, Apart
<1>6. Owned'
  <2>1. ASSUME NEW id PROVE (\E i \in 1 .. Len(jobs) : jobs[i] = id)
                            <=> (id = jobs[1] \/ \E i \in 1 .. Len(jobs') : jobs'[i] = id)
    BY <1>2, SMTT(30)
  <2>2. jobs[1] # NoRequest
    BY <1>2 DEF Requests, NoRequest
  <2> QED BY <1>1, <1>2, <1>4, <2>1, <2>2 DEF LoadInv, Owned
<1> QED BY <1>1, <1>3, <1>5, <1>6, LoaderKeeps
        DEF LoadInv, Bounded, ClosedIsMarked

\* The loader's own steps while it holds a request
LEMMA LoaderWorks ==
  ASSUME LoadInv, Check \/ LoaderAcquires \/ LoaderReads \/ Leave
  PROVE  LoadInv'
<1>1. UNCHANGED <<jobs, completions, active, cancelled, inflight, game, state, awaits, requests>>
  BY DEF Check, LoaderAcquires, LoaderReads, Leave, queues, sessions
<1>2. Typed' /\ HeldIsInFlight'
  <2>1. CASE Check
    BY <1>1, <2>1 DEF LoadInv, Typed, HeldIsInFlight, Check, Outcomes, Entering, Retried, Holding
  <2>2. CASE LoaderAcquires
    BY <1>1, <2>2 DEF LoadInv, Typed, HeldIsInFlight, LoaderAcquires, Holding
  <2>3. CASE LoaderReads
    BY <1>1, <2>3 DEF LoadInv, Typed, HeldIsInFlight, LoaderReads, Result, Answers, Outcomes,
                      Entering, Retried, Holding
  <2>4. CASE Leave
    BY <1>1, <2>4 DEF LoadInv, Typed, HeldIsInFlight, Leave, Idle, Result, Outcomes, Entering,
                      Retried, Holding
  <2> QED BY <2>1, <2>2, <2>3, <2>4
<1> QED BY <1>1, <1>2, LoaderKeeps
        DEF LoadInv, Apart, Owned, Bounded, ClosedIsMarked

LEMMA PublishKeeps ==
  ASSUME LoadInv, Publish
  PROVE  LoadInv'
<1> DEFINE r == Published(loader.result)
<1>1. /\ UNCHANGED <<jobs, active, game, state, awaits, requests>>
      /\ completions' = Append(completions, r)
      /\ cancelled' = cancelled \ {inflight} /\ inflight' = NoRequest /\ loader' = Idle
      /\ inflight = loader.result.id /\ inflight # NoRequest
  BY DEF Publish, sessions, LoadInv, HeldIsInFlight, Holding
<1>2. /\ r \in Results /\ r.id = inflight
      /\ inflight \in cancelled => r.outcome = "cancelled"
  BY <1>1 DEF LoadInv, Typed, Published, Results, Outcomes, Entering, Retried
<1>3. /\ completions' \in Seq(Results) /\ Len(completions) \in Nat
      /\ Len(completions') = Len(completions) + 1
      /\ \A i \in 1 .. Len(completions) :
           i \in 1 .. Len(completions') /\ completions'[i] = completions[i]
      /\ Len(completions) + 1 \in 1 .. Len(completions')
      /\ completions'[Len(completions) + 1] = r
      /\ \A i \in 1 .. Len(completions') :
           \/ i \in 1 .. Len(completions) /\ completions'[i] = completions[i]
           \/ i = Len(completions) + 1 /\ completions'[i] = r
  <2>1. completions \in Seq(Results)
    BY DEF LoadInv, Typed
  <2> HIDE DEF r
  <2> QED BY <1>1, <1>2, <2>1, Appended
<1> HIDE DEF r
<1>4. /\ inflight \in active
      /\ \A id \in active' : id \in Requests /\ id # NoRequest
  BY <1>1 DEF LoadInv, Owned, Typed, Requests, NoRequest
<1>5. Typed' /\ HeldIsInFlight'
  <2>1. cancelled' \subseteq active'
    BY <1>1, <1>4 DEF LoadInv, Typed
  <2> QED BY <1>1, <1>3, <2>1
          DEF LoadInv, Typed, HeldIsInFlight, Idle, Result, Outcomes, Entering, Retried, Holding
<1>6. Apart'
  <2>1. \A i \in 1 .. Len(completions) : completions[i].id # r.id
    BY <1>2 DEF LoadInv, Apart
  <2>2. \A i \in 1 .. Len(jobs) : jobs[i] # r.id /\ jobs[i] \in Requests
    <3>1. jobs \in Seq(Requests)
      BY DEF LoadInv, Typed
    <3> QED BY <1>2, <3>1 DEF LoadInv, Apart
  <2>3. r.id \in Requests /\ \A i \in 1 .. Len(completions) : completions[i].id \in Requests
    <3>1. completions \in Seq(Results)
      BY DEF LoadInv, Typed
    <3>2. \A i \in 1 .. Len(completions) : completions[i] \in Results
      BY <3>1
    <3> QED BY <1>2, <3>2 DEF Results
  <2>4. 0 \notin Requests
    BY DEF Requests
  <2> QED BY <1>1, <1>3, <2>1, <2>2, <2>3, <2>4 DEF LoadInv, Apart, NoRequest
<1>7. Owned'
  <2>1. ASSUME NEW id
        PROVE  (\E i \in 1 .. Len(completions') : completions'[i].id = id)
                 <=> id = inflight \/ \E i \in 1 .. Len(completions) : completions[i].id = id
    BY <1>2, <1>3
  <2> QED BY <1>1, <2>1 DEF LoadInv, Owned
<1>8. ClosedIsMarked'
  <2> SUFFICES ASSUME NEW s \in Sessions, state[s] = "closed"
               PROVE  /\ awaits[s] \in active =>
                           \/ awaits[s] \in cancelled'
                           \/ \E i \in 1 .. Len(completions') : completions'[i].id = awaits[s]
                      /\ \A i \in 1 .. Len(completions') :
                           completions'[i].id = awaits[s] => completions'[i].outcome = "cancelled"
    BY <1>1 DEF ClosedIsMarked
  <2>1. \A i \in 1 .. Len(completions) : completions[i].id # inflight
    BY DEF LoadInv, Apart
  <2>2. CASE awaits[s] = inflight
    <3>1. inflight \in cancelled
      BY <1>4, <2>1, <2>2 DEF LoadInv, ClosedIsMarked
    <3> QED BY <1>2, <1>3, <2>1, <2>2, <3>1
  <2>3. CASE awaits[s] # inflight
    <3>1. awaits[s] \in active =>
            \/ awaits[s] \in cancelled
            \/ \E i \in 1 .. Len(completions) : completions[i].id = awaits[s]
      BY DEF LoadInv, ClosedIsMarked
    <3>2. \A i \in 1 .. Len(completions) :
            completions[i].id = awaits[s] => completions[i].outcome = "cancelled"
      BY DEF LoadInv, ClosedIsMarked
    <3>3. awaits[s] \in cancelled => awaits[s] \in cancelled'
      BY <1>1, <2>3
    <3> QED BY <1>2, <1>3, <2>3, <3>1, <3>2, <3>3
  <2> QED BY <2>2, <2>3
<1> QED BY <1>1, <1>5, <1>6, <1>7, <1>8, LoaderKeeps DEF LoadInv, Bounded

\* A request is accepted, for session s or for the game thread's own wait.
LEMMA SubmitKeeps ==
  ASSUME LoadInv, Accepts, Submitted(requests + 1), requests < MaxRequests,
         requests' = requests + 1, UNCHANGED loader
  PROVE  /\ jobs' \in Seq(Requests) /\ active' \subseteq Requests
         /\ cancelled' \subseteq active' /\ requests' \in 0 .. MaxRequests
         /\ HeldIsInFlight' /\ Apart' /\ Owned' /\ Bounded'
<1> DEFINE n == requests + 1
<1>1. n \in Requests /\ n # NoRequest /\ n \notin active /\ n \in Nat /\ n =< MaxRequests /\ 0 =< n
  BY LoadAssumption DEF LoadInv, Typed, Bounded, Requests, NoRequest
<1>2. /\ active' = active \cup {n} /\ jobs' = Append(jobs, n) /\ requests' = n
      /\ UNCHANGED <<completions, cancelled, inflight>>
  BY DEF Submitted
<1> HIDE DEF n
<1>3. /\ jobs' \in Seq(Requests) /\ Len(jobs) \in Nat /\ Len(jobs') = Len(jobs) + 1
      /\ \A i \in 1 .. Len(jobs) : i \in 1 .. Len(jobs') /\ jobs'[i] = jobs[i]
      /\ Len(jobs) + 1 \in 1 .. Len(jobs') /\ jobs'[Len(jobs) + 1] = n
      /\ \A i \in 1 .. Len(jobs') : \/ i \in 1 .. Len(jobs) /\ jobs'[i] = jobs[i]
                                    \/ i = Len(jobs) + 1 /\ jobs'[i] = n
  <2>1. jobs \in Seq(Requests)
    BY DEF LoadInv, Typed
  <2> QED BY <1>1, <1>2, <2>1, Appended
<1>4. /\ \A i \in 1 .. Len(jobs) : jobs[i] # n
      /\ \A i \in 1 .. Len(completions) : completions[i].id # n
      /\ inflight # n
  BY <1>1 DEF LoadInv, Owned
<1>5. Apart'
  BY <1>2, <1>3, <1>4 DEF LoadInv, Apart
<1>6. Owned'
  <2>1. ASSUME NEW id
        PROVE  (\E i \in 1 .. Len(jobs') : jobs'[i] = id)
                 <=> id = n \/ \E i \in 1 .. Len(jobs) : jobs[i] = id
    BY <1>3
  <2> QED BY <1>2, <2>1 DEF LoadInv, Owned
<1>7. Bounded'
  <2>1. Cardinality(active') = Cardinality(active) + 1
    BY <1>1, <1>2, ActiveIsFinite, FS_AddElement DEF LoadInv
  <2>2. Cardinality(active) < MaxPending
    BY DEF Accepts
  <2>3. Cardinality(active') =< MaxPending
    BY <2>1, <2>2, ActiveIsFinite, LoadAssumption DEF LoadInv
  <2>4. \A id \in active' : id =< n
    <3>1. ASSUME NEW id \in active PROVE id =< n
      <4>1. id \in Nat /\ id =< requests /\ requests \in Nat
        BY LoadAssumption DEF LoadInv, Typed, Bounded, Requests
      <4> QED BY <4>1 DEF n
    <3> QED BY <1>1, <1>2, <3>1
  <2> QED BY <1>2, <2>3, <2>4 DEF Bounded
<1>8. HeldIsInFlight'
  BY <1>2 DEF LoadInv, HeldIsInFlight
<1> QED BY <1>1, <1>2, <1>3, <1>5, <1>6, <1>7, <1>8, LoadAssumption DEF LoadInv, Typed

LEMMA SelectKeeps ==
  ASSUME LoadInv, NEW s \in Sessions, Select(s) \/ SelectAndWait(s)
  PROVE  LoadInv'
<1>1. /\ UNCHANGED loader /\ requests' = requests + 1 /\ requests < MaxRequests
      /\ game.stage = "loop" /\ state[s] = "menu"
  BY DEF Select, SelectAndWait, InLoop
<1>2. /\ requests \in Nat /\ requests + 1 \in Requests /\ requests + 1 # NoRequest
      /\ \A t \in Sessions : awaits[t] \in Nat /\ awaits[t] =< requests /\ awaits[t] # requests + 1
      /\ requests' \in 0 .. MaxRequests
  <2>1. requests \in Nat /\ \A t \in Sessions : awaits[t] \in Nat /\ awaits[t] =< requests
    BY LoadAssumption DEF LoadInv, Typed, Issued, Requests, NoRequest
  <2> QED BY <1>1, <2>1, LoadAssumption DEF Requests, NoRequest
<1>3. CASE ~Accepts
  <2>1. /\ UNCHANGED <<jobs, completions, active, cancelled, inflight, state, awaits>>
        /\ game' = Busy("sync", s, NoRequest)
    BY <1>3 DEF Select, SelectAndWait, queues, sessions
  <2>2. Bounded'
    <3>1. \A id \in active : id \in Nat
      BY DEF LoadInv, Typed, Requests
    <3> QED BY <1>1, <1>2, <2>1, <3>1 DEF LoadInv, Bounded
  <2>3. Issued'
    <3>1. \A t \in Sessions : awaits[t] =< requests'
      BY <1>1, <1>2
    <3> QED BY <2>1, <3>1 DEF LoadInv, Issued, Waits, Busy
  <2>4. Typed'
    BY <1>1, <1>2, <2>1 DEF LoadInv, Typed, Busy, Working
  <2>5. LoadingIsWanted'
    BY <1>1, <2>1 DEF LoadInv, LoadingIsWanted
  <2> QED BY <1>1, <2>1, <2>2, <2>3, <2>4, <2>5
          DEF LoadInv, HeldIsInFlight, Apart, Owned, ClosedIsMarked
<1>4. CASE Accepts
  <2>1. Submitted(requests + 1)
    BY <1>4 DEF Select, SelectAndWait
  <2>2. /\ jobs' \in Seq(Requests) /\ active' \subseteq Requests
        /\ cancelled' \subseteq active' /\ requests' \in 0 .. MaxRequests
        /\ HeldIsInFlight' /\ Apart' /\ Owned' /\ Bounded'
    BY <1>1, <1>4, <2>1, SubmitKeeps
  <2>3. /\ active' = active \cup {requests + 1}
        /\ UNCHANGED <<completions, cancelled, inflight>>
    BY <2>1 DEF Submitted
  <2>4. /\ requests + 1 \notin cancelled
        /\ \A i \in 1 .. Len(completions) : completions[i].id # requests + 1
    <3>1. requests + 1 \notin active
      BY <1>2 DEF LoadInv, Bounded, Typed, Requests
    <3> QED BY <3>1 DEF LoadInv, Owned, Typed
  <2>5. CASE Select(s)
    <3>1. /\ state' = [state EXCEPT ![s] = "loading"]
          /\ awaits' = [awaits EXCEPT ![s] = requests + 1] /\ game' = game
      BY <1>4, <2>5 DEF Select
    <3>2. Typed'
      BY <1>1, <1>2, <2>2, <2>3, <3>1 DEF LoadInv, Typed
    <3>3. \A t \in Sessions : /\ t # s => state'[t] = state[t] /\ awaits'[t] = awaits[t]
                              /\ t = s => state'[t] = "loading" /\ awaits'[t] = requests + 1
      BY <3>1 DEF LoadInv, Typed
    <3>4. Issued'
      <4>1. \A t \in Sessions : awaits'[t] =< requests'
        BY <1>1, <1>2, <3>3
      <4>2. \A t \in Sessions : Waits(t)' => awaits'[t] # NoRequest
        BY <1>2, <3>3 DEF LoadInv, Issued, Waits
      <4>3. \A t, u \in Sessions : Waits(t)' /\ Waits(u)' /\ awaits'[t] = awaits'[u] => t = u
        BY <1>2, <3>3 DEF LoadInv, Issued, Waits
      <4>4. game'.stage # "waiting"
        BY <1>1, <3>1
      <4> QED BY <4>1, <4>2, <4>3, <4>4 DEF Issued
    <3>5. LoadingIsWanted'
      BY <1>1, <2>3, <2>4, <3>1, <3>3 DEF LoadInv, LoadingIsWanted
    <3>6. ClosedIsMarked'
      BY <1>2, <2>3, <3>3 DEF LoadInv, ClosedIsMarked
    <3> QED BY <2>2, <3>2, <3>4, <3>5, <3>6 DEF LoadInv
  <2>6. CASE SelectAndWait(s)
    <3>1. /\ UNCHANGED <<state, awaits>>
          /\ game' = Busy("waiting", s, requests + 1)
      BY <1>4, <2>6 DEF SelectAndWait, sessions
    <3>2. Typed'
      BY <1>1, <1>2, <2>2, <2>3, <3>1 DEF LoadInv, Typed, Busy
    <3>3. Issued'
      <4>1. \A t \in Sessions : awaits'[t] =< requests'
        BY <1>1, <1>2, <3>1
      <4> QED BY <1>1, <1>2, <2>3, <2>4, <3>1, <4>1 DEF LoadInv, Issued, Waits, Busy
    <3>4. LoadingIsWanted'
      BY <1>1, <2>3, <3>1 DEF LoadInv, LoadingIsWanted
    <3>5. ClosedIsMarked'
      BY <1>2, <2>3, <3>1 DEF LoadInv, ClosedIsMarked
    <3> QED BY <2>2, <3>2, <3>3, <3>4, <3>5 DEF LoadInv
  <2> QED BY <2>5, <2>6
<1> QED BY <1>3, <1>4

LEMMA WaitFoundKeeps ==
  ASSUME LoadInv, WaitFound
  PROVE  LoadInv'
<1>1. PICK k \in DOMAIN completions :
        /\ completions[k].id = game.id
        /\ Taken(game.session, completions[k].outcome)
        /\ completions' = RemoveAt(completions, k)
  BY DEF WaitFound, IsFirst
<1>2. /\ UNCHANGED <<jobs, cancelled, inflight, loader, awaits, requests>>
      /\ active' = active \ {game.id} /\ game.stage = "waiting"
  BY DEF WaitFound
<1>3. completions \in Seq(Results) /\ k \in 1 .. Len(completions)
  BY <1>1 DEF LoadInv, Typed
<1> DEFINE kept == 1 .. Len(completions) \ {k}
<1>4. /\ completions' \in Seq(Results) /\ Len(completions) \in Nat
      /\ Len(completions') = Len(completions) - 1
      /\ Comes(completions, kept, completions') /\ Stays(completions, kept, completions')
      /\ Ordered(completions, kept, completions')
  BY <1>1, <1>3, RemovedAt
<1>4a. \A a : a \in kept <=> a \in 1 .. Len(completions) /\ a # k
  OBVIOUS
<1> HIDE DEF kept
<1>4b. \A i \in 1 .. Len(completions') : \E a \in kept : completions'[i] = completions[a]
  BY <1>4 DEF Comes
<1>4c. \A a \in kept : \E i \in 1 .. Len(completions') : completions'[i] = completions[a]
  BY <1>4 DEF Stays
<1>4d. \A i, j \in 1 .. Len(completions') : i < j =>
         \E a, b \in kept : a < b /\ completions'[i] = completions[a] /\ completions'[j] = completions[b]
  BY <1>4 DEF Ordered
<1>5. /\ game.id \notin cancelled /\ game.id # NoRequest
      /\ \A s \in Sessions : Waits(s) => awaits[s] # game.id
  BY <1>2 DEF LoadInv, Issued, Typed, Requests, NoRequest
<1>6. Apart'
  <2>1. \A i, j \in 1 .. Len(completions') : completions'[i].id = completions'[j].id => i = j
    <3> SUFFICES ASSUME NEW i \in 1 .. Len(completions'), NEW j \in 1 .. Len(completions'),
                        completions'[i].id = completions'[j].id
                 PROVE  i = j
      OBVIOUS
    <3>1. i \in Int /\ j \in Int
      BY <1>4
    <3>2. \A a, b \in kept : a < b => completions[a].id # completions[b].id
      BY <1>4, <1>4a DEF LoadInv, Apart
    <3>3. ASSUME NEW p \in 1 .. Len(completions'), NEW q \in 1 .. Len(completions'), p < q
          PROVE  completions'[p].id # completions'[q].id
      <4>1. PICK a \in kept, b \in kept : /\ a < b
                                          /\ completions'[p] = completions[a]
                                          /\ completions'[q] = completions[b]
        BY <1>4d, <3>3, Zenon
      <4> QED BY <3>2, <4>1
    <3> QED BY <3>1, <3>3
  <2>2. \A i \in 1 .. Len(completions') : \E a \in 1 .. Len(completions) :
          completions'[i] = completions[a]
    BY <1>4a, <1>4b
  <2>3. \A i \in 1 .. Len(completions') : /\ completions'[i].id # inflight
                                          /\ \A j \in 1 .. Len(jobs) : jobs[j] # completions'[i].id
    <3> SUFFICES ASSUME NEW i \in 1 .. Len(completions')
                 PROVE  /\ completions'[i].id # inflight
                        /\ \A j \in 1 .. Len(jobs) : jobs[j] # completions'[i].id
      OBVIOUS
    <3>1. PICK a \in 1 .. Len(completions) : completions'[i] = completions[a]
      BY <2>2
    <3> QED BY <3>1 DEF LoadInv, Apart
  <2>4. /\ \A i, j \in 1 .. Len(jobs) : jobs[i] = jobs[j] => i = j
        /\ \A i \in 1 .. Len(jobs) : jobs[i] # inflight
    BY DEF LoadInv, Apart
  <2> QED BY <1>2, <2>1, <2>3, <2>4 DEF Apart
<1>7. Owned'
  <2>1. ASSUME NEW id
        PROVE  (\E i \in 1 .. Len(completions') : completions'[i].id = id)
                 <=> id # game.id /\ \E i \in 1 .. Len(completions) : completions[i].id = id
    <3>1. \A i \in 1 .. Len(completions) : completions[i].id = game.id => i = k
      BY <1>1, <1>3 DEF LoadInv, Apart
    <3>2. ASSUME NEW i \in 1 .. Len(completions'), completions'[i].id = id
          PROVE  id # game.id /\ \E a \in 1 .. Len(completions) : completions[a].id = id
      <4>1. PICK a \in kept : completions'[i] = completions[a]
        BY <1>4b
      <4>2. a \in 1 .. Len(completions) /\ a # k /\ completions[a].id = id
        BY <1>4a, <3>2, <4>1
      <4> QED BY <3>1, <4>2
    <3>3. ASSUME NEW a \in 1 .. Len(completions), completions[a].id = id, id # game.id
          PROVE  \E i \in 1 .. Len(completions') : completions'[i].id = id
      <4>1. a \in kept
        BY <1>1, <1>4a, <3>3
      <4>2. PICK i \in 1 .. Len(completions') : completions'[i] = completions[a]
        BY <1>4c, <4>1
      <4> QED BY <3>3, <4>2
    <3> QED BY <3>2, <3>3
  <2>2. \A i \in 1 .. Len(jobs) : jobs[i] # game.id
    BY <1>1, <1>3 DEF LoadInv, Apart
  <2>3. inflight # game.id
    BY <1>1, <1>3 DEF LoadInv, Apart
  <2> QED BY <1>2, <2>1, <2>2, <2>3 DEF LoadInv, Owned
<1>8. Bounded'
  BY <1>2, FewerAreBounded DEF LoadInv
<1>9. \A s \in Sessions : state'[s] \in {"loading", "closed"} => state'[s] = state[s]
  BY <1>1 DEF LoadInv, Typed, Taken, Enter
<1>10. game'.stage \in {"retry", "loop"}
  BY <1>1 DEF Taken, Busy, Loop
<1>11. Typed'
  <2>1. state' \in [Sessions -> {"menu", "loading", "playing", "closed"}]
    BY <1>1 DEF LoadInv, Typed, Taken, Enter
  <2>2. cancelled' \subseteq active' /\ active' \subseteq Requests
    BY <1>2, <1>5 DEF LoadInv, Typed
  <2> QED BY <1>2, <1>4, <1>10, <2>1, <2>2 DEF LoadInv, Typed, Working
<1>12. HeldIsInFlight'
  BY <1>2 DEF LoadInv, HeldIsInFlight
<1>13. Issued' /\ LoadingIsWanted'
  BY <1>2, <1>9, <1>10 DEF LoadInv, Issued, Waits, LoadingIsWanted
<1>14. ClosedIsMarked'
  <2> SUFFICES ASSUME NEW s \in Sessions, state'[s] = "closed"
               PROVE  /\ awaits[s] \in active' =>
                           \/ awaits[s] \in cancelled
                           \/ \E i \in 1 .. Len(completions') : completions'[i].id = awaits[s]
                      /\ \A i \in 1 .. Len(completions') :
                           completions'[i].id = awaits[s] => completions'[i].outcome = "cancelled"
    BY <1>2 DEF ClosedIsMarked
  <2>1. state[s] = "closed" /\ awaits[s] # game.id
    BY <1>5, <1>9 DEF Waits
  <2>2. /\ awaits[s] \in active => \/ awaits[s] \in cancelled
                                  \/ \E i \in 1 .. Len(completions) : completions[i].id = awaits[s]
        /\ \A i \in 1 .. Len(completions) :
             completions[i].id = awaits[s] => completions[i].outcome = "cancelled"
    BY <2>1 DEF LoadInv, ClosedIsMarked
  <2>3. \A i \in 1 .. Len(completions') :
          completions'[i].id = awaits[s] => completions'[i].outcome = "cancelled"
    <3> SUFFICES ASSUME NEW i \in 1 .. Len(completions'), completions'[i].id = awaits[s]
                 PROVE  completions'[i].outcome = "cancelled"
      OBVIOUS
    <3>1. PICK a \in kept : completions'[i] = completions[a]
      BY <1>4b
    <3>2. a \in 1 .. Len(completions)
      BY <1>4a
    <3> QED BY <2>2, <3>1, <3>2
  <2>4. ASSUME NEW i \in 1 .. Len(completions), completions[i].id = awaits[s]
        PROVE  \E j \in 1 .. Len(completions') : completions'[j].id = awaits[s]
    <3>1. i \in kept
      BY <1>1, <1>4a, <2>1, <2>4
    <3> QED BY <1>4c, <2>4, <3>1
  <2>5. awaits[s] \in active' => awaits[s] \in active
    BY <1>2
  <2> QED BY <2>2, <2>3, <2>4, <2>5
<1> QED BY <1>6, <1>7, <1>8, <1>11, <1>12, <1>13, <1>14 DEF LoadInv

LEMMA WaitEndsKeeps ==
  ASSUME LoadInv, WaitEnds
  PROVE  LoadInv'
<1>1. /\ UNCHANGED <<jobs, completions, active, inflight, loader, state, awaits, requests>>
      /\ game' = Busy("sync", game.session, NoRequest) /\ game.stage = "waiting"
      /\ cancelled' = cancelled \/ cancelled' = cancelled \cup {game.id}
  BY DEF WaitEnds, sessions
<1>2. \A s \in Sessions : Waits(s) => awaits[s] # game.id
  BY <1>1 DEF LoadInv, Issued
<1>3. Typed'
  <2>1. cancelled' \subseteq active'
    BY <1>1 DEF LoadInv, Typed, Issued
  <2> QED BY <1>1, <2>1 DEF LoadInv, Typed, Busy, Working
<1>4. Issued' /\ LoadingIsWanted'
  BY <1>1, <1>2 DEF LoadInv, Issued, Waits, LoadingIsWanted, Busy
<1>5. ClosedIsMarked'
  BY <1>1 DEF LoadInv, ClosedIsMarked
<1> QED BY <1>1, <1>3, <1>4, <1>5 DEF LoadInv, HeldIsInFlight, Apart, Owned, Bounded

\* Steps of the game thread that leave the queues alone
LEMMA GameWorks ==
  ASSUME LoadInv, UNCHANGED <<jobs, completions, active, cancelled, inflight, loader, requests>>,
         game'.stage \in {"loop"} \cup Working, game.stage \notin {"joining", "stopped"},
         state' \in [Sessions -> {"menu", "loading", "playing", "closed"}],
         awaits' \in [Sessions -> Requests \cup {NoRequest}],
         \A s \in Sessions : state'[s] \in {"loading", "closed"} =>
                             state'[s] = state[s] /\ awaits'[s] = awaits[s],
         \A s \in Sessions : awaits'[s] \in {awaits[s], NoRequest}
  PROVE  LoadInv'
<1>1. Typed'
  BY DEF LoadInv, Typed
<1>2. Issued'
  <2>1. \A s \in Sessions : awaits'[s] =< requests'
    BY LoadAssumption DEF LoadInv, Typed, Issued, NoRequest
  <2>2. \A s \in Sessions : Waits(s)' => Waits(s) /\ awaits'[s] = awaits[s]
    BY DEF Waits
  <2> QED BY <2>1, <2>2 DEF LoadInv, Issued, Working
<1>3. LoadingIsWanted'
  BY DEF LoadInv, LoadingIsWanted
<1>4. ClosedIsMarked'
  BY DEF LoadInv, ClosedIsMarked
<1> QED BY <1>1, <1>2, <1>3, <1>4 DEF LoadInv, HeldIsInFlight, Apart, Owned, Bounded

LEMMA GameReadsKeeps ==
  ASSUME LoadInv, GameAcquires \/ GameCannotRead \/ GameReads
  PROVE  LoadInv'
<1>1. /\ UNCHANGED <<jobs, completions, active, cancelled, inflight, loader, awaits, requests>>
      /\ game'.stage \in {"loop"} \cup Working /\ game.stage \in Working
      /\ state' \in [Sessions -> {"menu", "loading", "playing", "closed"}]
      /\ \A s \in Sessions : state'[s] \in {"loading", "closed"} => state'[s] = state[s]
  <2>1. CASE GameAcquires
    BY <2>1 DEF GameAcquires, Working, queues, sessions, LoadInv, Typed
  <2>2. CASE GameCannotRead
    BY <2>2 DEF GameCannotRead, Working, Enter, queues, Loop, LoadInv, Typed
  <2>3. CASE GameReads
    <3>1. PICK outcome \in Answers :
            \/ game.stage = "reading" /\ Taken(game.session, outcome)
            \/ game.stage = "rereading" /\ Enter(game.session, outcome) /\ game' = Loop
      BY <2>3 DEF GameReads
    <3> QED BY <2>3, <3>1 DEF GameReads, Taken, Enter, Busy, Working, queues, Loop, LoadInv, Typed
  <2> QED BY <2>1, <2>2, <2>3
<1>2. awaits \in [Sessions -> Requests \cup {NoRequest}]
  BY DEF LoadInv, Typed
<1> QED BY <1>1, <1>2, GameWorks DEF Working

LEMMA DeliverKeeps ==
  ASSUME LoadInv, Deliver
  PROVE  LoadInv'
<1>1. /\ UNCHANGED <<jobs, completions, active, cancelled, inflight, loader, requests>>
      /\ game.stage = "loop"
  BY DEF Deliver, queues
<1>2. CASE UNCHANGED <<game, sessions>>
  BY <1>1, <1>2, GameWorks DEF LoadInv, Typed, sessions
<1>3. ASSUME NEW s \in Sessions, Taken(s, Head(batch).outcome),
             awaits' = [awaits EXCEPT ![s] = NoRequest]
      PROVE  LoadInv'
  <2>1. /\ state' \in [Sessions -> {"menu", "loading", "playing", "closed"}]
        /\ \A t \in Sessions : state'[t] \in {"loading", "closed"} => t # s /\ state'[t] = state[t]
    BY <1>3 DEF Taken, Enter, LoadInv, Typed
  <2>2. /\ awaits' \in [Sessions -> Requests \cup {NoRequest}]
        /\ \A t \in Sessions : /\ t # s => awaits'[t] = awaits[t]
                               /\ awaits'[t] \in {awaits[t], NoRequest}
    BY <1>3 DEF LoadInv, Typed
  <2>3. game'.stage \in {"loop"} \cup Working
    BY <1>3 DEF Taken, Busy, Loop, Working
  <2> QED BY <1>1, <2>1, <2>2, <2>3, GameWorks
<1> QED BY <1>2, <1>3 DEF Deliver

LEMMA PulseKeeps ==
  ASSUME LoadInv, Pulse
  PROVE  LoadInv'
<1> DEFINE done == {completions[i].id : i \in DOMAIN completions}
<1>1. /\ UNCHANGED <<jobs, inflight, loader, game, state, awaits, requests>>
      /\ completions' = <<>> /\ game.stage = "loop"
      /\ active' = active \ done /\ cancelled' = cancelled \ done
  BY DEF Pulse, InLoop, sessions
<1>2. \A id : id \in done <=> \E i \in 1 .. Len(completions) : completions[i].id = id
  BY DEF LoadInv, Typed
<1> HIDE DEF done
<1>3. completions' \in Seq(Results) /\ Len(completions') = 0 /\ 1 .. Len(completions') = {}
  BY <1>1
<1>4. Typed'
  <2>1. cancelled' \subseteq active' /\ active' \subseteq Requests
    BY <1>1 DEF LoadInv, Typed
  <2> QED BY <1>1, <1>3, <2>1 DEF LoadInv, Typed
<1>5. HeldIsInFlight'
  BY <1>1 DEF LoadInv, HeldIsInFlight
<1>6. Apart'
  BY <1>1, <1>3 DEF LoadInv, Apart
<1>7. Owned'
  <2>1. \A i \in 1 .. Len(jobs) : jobs[i] \notin done
    BY <1>2 DEF LoadInv, Apart
  <2>2. inflight \notin done
    BY <1>2 DEF LoadInv, Apart
  <2> QED BY <1>1, <1>2, <1>3, <2>1, <2>2 DEF LoadInv, Owned
<1>8. Bounded'
  BY <1>1, FewerAreBounded DEF LoadInv
<1>9. Issued' /\ LoadingIsWanted'
  BY <1>1 DEF LoadInv, Issued, Waits, LoadingIsWanted
<1>10. ClosedIsMarked'
  BY <1>1, <1>2, <1>3 DEF LoadInv, ClosedIsMarked
<1> QED BY <1>4, <1>5, <1>6, <1>7, <1>8, <1>9, <1>10 DEF LoadInv

LEMMA CloseKeeps ==
  ASSUME LoadInv, NEW s \in Sessions, Close(s)
  PROVE  LoadInv'
<1>1. /\ UNCHANGED <<jobs, active, inflight, loader, game, awaits, requests>>
      /\ game.stage = "loop" /\ state[s] = "loading"
      /\ state' = [state EXCEPT ![s] = "closed"]
  BY DEF Close, InLoop, Cancelled
<1>2. awaits[s] \notin cancelled
  BY <1>1 DEF LoadInv, LoadingIsWanted
<1>3. /\ state' \in [Sessions -> {"menu", "loading", "playing", "closed"}]
      /\ \A t \in Sessions : t # s => state'[t] = state[t]
      /\ state'[s] = "closed"
      /\ \A t \in Sessions : Waits(t)' <=> Waits(t)
  BY <1>1 DEF LoadInv, Typed, Waits
<1>4. completions \in Seq(Results)
  BY DEF LoadInv, Typed
<1>5. /\ completions' \in Seq(Results) /\ Len(completions') = Len(completions)
      /\ \A i \in 1 .. Len(completions) :
           /\ completions'[i].id = completions[i].id
           /\ completions[i].id # awaits[s] => completions'[i] = completions[i]
           /\ completions[i].id = awaits[s] => completions'[i].outcome = "cancelled"
  <2>1. CASE awaits[s] \in active
    <3>1. completions' = [i \in DOMAIN completions |->
            IF completions[i].id = awaits[s] /\ awaits[s] \notin cancelled
            THEN [completions[i] EXCEPT !.outcome = "cancelled"] ELSE completions[i]]
      BY <2>1 DEF Close, Cancelled, CancelledInPlace
    <3>2. /\ DOMAIN completions = 1 .. Len(completions) /\ Len(completions) \in Nat
          /\ \A i \in 1 .. Len(completions) : completions[i] \in Results
      BY <1>4
    <3>3. \A i \in 1 .. Len(completions) :
            /\ completions'[i] \in Results
            /\ completions'[i].id = completions[i].id
            /\ completions[i].id # awaits[s] => completions'[i] = completions[i]
            /\ completions[i].id = awaits[s] => completions'[i].outcome = "cancelled"
      BY <1>2, <3>1, <3>2 DEF Results, Outcomes, Retried, Entering
    <3>4. completions' \in [1 .. Len(completions) -> Results]
      BY <3>1, <3>2, <3>3
    <3>5. completions' \in Seq(Results) /\ Len(completions') = Len(completions)
      BY <3>2, <3>4
    <3> QED BY <3>3, <3>5
  <2>2. CASE awaits[s] \notin active
    <3>1. completions' = completions
      BY <2>2 DEF Close, Cancelled
    <3>2. \A i \in 1 .. Len(completions) : completions[i].id # awaits[s]
      BY <2>2 DEF LoadInv, Owned
    <3> QED BY <1>4, <3>1, <3>2
  <2> QED BY <2>1, <2>2
<1>6. /\ awaits[s] \in active => cancelled' = cancelled \cup {awaits[s]}
      /\ awaits[s] \notin active => cancelled' = cancelled
  BY DEF Close, Cancelled
<1>7. Typed' /\ HeldIsInFlight'
  <2>1. cancelled' \subseteq active'
    BY <1>1, <1>6 DEF LoadInv, Typed
  <2> QED BY <1>1, <1>3, <1>5, <2>1 DEF LoadInv, Typed, HeldIsInFlight
<1>8. Apart' /\ Owned'
  <2>1. Apart'
    BY <1>1, <1>5 DEF LoadInv, Apart
  <2>2. Owned'
    BY <1>1, <1>5 DEF LoadInv, Owned
  <2> QED BY <2>1, <2>2
<1>9. Bounded' /\ Issued'
  BY <1>1, <1>3 DEF LoadInv, Bounded, Issued
<1>10. \A t \in Sessions : Waits(t) /\ t # s => awaits[t] # awaits[s]
  BY <1>1 DEF LoadInv, Issued, Waits
<1>11. LoadingIsWanted'
  BY <1>1, <1>3, <1>6, <1>10 DEF LoadInv, LoadingIsWanted, Waits
<1>12. ClosedIsMarked'
  <2> SUFFICES ASSUME NEW t \in Sessions, state'[t] = "closed"
               PROVE  /\ awaits[t] \in active =>
                           \/ awaits[t] \in cancelled'
                           \/ \E i \in 1 .. Len(completions') : completions'[i].id = awaits[t]
                      /\ \A i \in 1 .. Len(completions') :
                           completions'[i].id = awaits[t] => completions'[i].outcome = "cancelled"
    BY <1>1 DEF ClosedIsMarked
  <2>1. CASE t = s
    BY <1>5, <1>6, <2>1
  <2>2. CASE t # s
    <3>1. state[t] = "closed" /\ awaits[t] # awaits[s]
      BY <1>3, <1>10, <2>2 DEF Waits
    <3> QED BY <1>5, <1>6, <3>1 DEF LoadInv, ClosedIsMarked
  <2> QED BY <2>1, <2>2
<1> QED BY <1>7, <1>8, <1>9, <1>11, <1>12 DEF LoadInv

LEMMA ShutdownKeeps ==
  ASSUME LoadInv, Shutdown
  PROVE  LoadInv'
<1>1. /\ UNCHANGED <<jobs, completions, active, inflight, loader, state, awaits, requests>>
      /\ game'.stage = "joining"
      /\ cancelled' = cancelled \cup Ids(jobs) \cup ({inflight} \ {NoRequest})
  BY DEF Shutdown, sessions, Loop
<1>2. cancelled \subseteq cancelled' /\ cancelled' \subseteq active'
  <2>1. \A id \in Ids(jobs) : \E i \in 1 .. Len(jobs) : jobs[i] = id
    BY DEF LoadInv, Typed, Ids
  <2> QED BY <1>1, <2>1 DEF LoadInv, Typed, Owned
<1>3. Typed' /\ HeldIsInFlight'
  BY <1>1, <1>2 DEF LoadInv, Typed, HeldIsInFlight
<1>4. Apart' /\ Owned' /\ Bounded'
  BY <1>1 DEF LoadInv, Apart, Owned, Bounded
<1>5. Issued' /\ LoadingIsWanted'
  BY <1>1 DEF LoadInv, Issued, Waits, LoadingIsWanted
<1>6. ClosedIsMarked'
  BY <1>1, <1>2 DEF LoadInv, ClosedIsMarked
<1> QED BY <1>3, <1>4, <1>5, <1>6 DEF LoadInv

LEMMA JoinKeeps ==
  ASSUME LoadInv, Join
  PROVE  LoadInv'
<1>1. /\ UNCHANGED <<loader, state, awaits, requests>>
      /\ game'.stage = "stopped" /\ loader.stage = "gone"
      /\ jobs' = <<>> /\ completions' = <<>> /\ active' = {} /\ cancelled' = {}
      /\ inflight' = NoRequest
  BY DEF Join, sessions, Loop
<1>2. /\ jobs' \in Seq(Requests) /\ completions' \in Seq(Results)
      /\ 1 .. Len(jobs') = {} /\ 1 .. Len(completions') = {}
  BY <1>1
<1>3. Typed' /\ HeldIsInFlight'
  BY <1>1, <1>2 DEF LoadInv, Typed, HeldIsInFlight, Holding
<1>4. Apart' /\ Owned'
  BY <1>1, <1>2 DEF Apart, Owned
<1>5. Bounded'
  BY <1>1, FewerAreBounded DEF LoadInv
<1>6. Issued' /\ LoadingIsWanted' /\ ClosedIsMarked'
  BY <1>1, <1>2 DEF LoadInv, Issued, Waits, LoadingIsWanted, ClosedIsMarked
<1> QED BY <1>3, <1>4, <1>5, <1>6 DEF LoadInv

LEMMA StepLoadInv == LoadInv /\ [Next]_vars => LoadInv'
<1> SUFFICES ASSUME LoadInv, [Next]_vars PROVE LoadInv'
  OBVIOUS
<1>1. CASE LoaderNext
  BY <1>1, StartKeeps, TakeKeeps, LoaderWorks, PublishKeeps DEF LoaderNext
<1>2. CASE GameNext
  <2>1. CASE ClosePool
    BY <2>1, LoadStill DEF ClosePool
  <2> QED BY <1>2, <2>1, SelectKeeps, CloseKeeps, WaitFoundKeeps, WaitEndsKeeps, GameReadsKeeps,
             PulseKeeps, DeliverKeeps, ShutdownKeeps, JoinKeeps DEF GameNext
<1>3. CASE InPool
  BY <1>3, LoadStill DEF InPool
<1>4. CASE UNCHANGED vars
  BY <1>4, LoadStill DEF vars
<1> QED BY <1>1, <1>2, <1>3, <1>4 DEF Next

LEMMA AlwaysLoadInv == Spec => []LoadInv
BY InitLoadInv, StepLoadInv, PTL DEF Spec

\* However the cancellation of a closed session meets its request - queued, before,
\* during or after the read, published - the pulse takes no loaded character for it.
THEOREM ClosedNeverLoads == Spec => []ClosedIsCancelled
<1>1. LoadInv => ClosedIsCancelled
  <2>1. LoadInv => DOMAIN completions = 1 .. Len(completions)
    BY DEF LoadInv, Typed
  <2> QED BY <2>1 DEF LoadInv, ClosedIsMarked, ClosedIsCancelled
<1> QED BY <1>1, AlwaysLoadInv, PTL

LEMMA NothingIsLeft ==
  ASSUME LoadInv
  PROVE  NothingLeaks /\ Len(jobs) =< MaxPending
<1> DEFINE hand == IF inflight = NoRequest THEN <<>> ELSE <<inflight>>
           front == jobs \o hand
           ready == [i \in DOMAIN completions |-> completions[i].id]
<1>1. hand \in Seq(Requests) /\ Len(hand) = (IF inflight = NoRequest THEN 0 ELSE 1)
      /\ \A i \in 1 .. Len(hand) : i = 1 /\ hand[i] = inflight /\ inflight # NoRequest
  BY DEF LoadInv, Typed
<1>2. /\ ready \in Seq(Requests) /\ Len(ready) = Len(completions) /\ Len(ready) \in Nat
      /\ \A i \in 1 .. Len(completions) : ready[i] = completions[i].id
  <2>1. /\ DOMAIN completions = 1 .. Len(completions) /\ Len(completions) \in Nat
        /\ \A i \in 1 .. Len(completions) : completions[i] \in Results
    BY DEF LoadInv, Typed
  <2>2. ready \in [1 .. Len(completions) -> Requests]
    BY <2>1 DEF Results
  <2> QED BY <2>1, <2>2
<1>3. jobs \in Seq(Requests) /\ Len(jobs) \in Nat
  BY DEF LoadInv, Typed
<1> HIDE DEF hand, ready
<1>4. /\ front \in Seq(Requests) /\ Len(hand) \in Nat /\ Len(front) = Len(jobs) + Len(hand)
      /\ \A i \in 1 .. Len(front) :
           front[i] = (IF i =< Len(jobs) THEN jobs[i] ELSE hand[i - Len(jobs)])
  <2>0. jobs \in Seq(Requests) /\ hand \in Seq(Requests)
    BY <1>1, <1>3
  <2>1. \A u : u = jobs \o hand =>
          /\ u \in Seq(Requests) /\ Len(hand) \in Nat /\ Len(u) = Len(jobs) + Len(hand)
          /\ \A i \in 1 .. Len(u) :
               u[i] = (IF i =< Len(jobs) THEN jobs[i] ELSE hand[i - Len(jobs)])
    BY <2>0, Concatenated
  <2> QED BY <2>1, Zenon
<1> HIDE DEF front
<1>5. /\ OnTheWay \in Seq(Requests) /\ Len(OnTheWay) = Len(front) + Len(ready)
      /\ \A i \in 1 .. Len(OnTheWay) :
           OnTheWay[i] = (IF i =< Len(front) THEN front[i] ELSE ready[i - Len(front)])
  <2>1. OnTheWay = front \o ready
    BY DEF OnTheWay, front, hand, ready
  <2>0. front \in Seq(Requests) /\ ready \in Seq(Requests)
    BY <1>2, <1>4
  <2>2. \A u : u = front \o ready =>
          /\ u \in Seq(Requests) /\ Len(u) = Len(front) + Len(ready)
          /\ \A i \in 1 .. Len(u) :
               u[i] = (IF i =< Len(front) THEN front[i] ELSE ready[i - Len(front)])
    BY <2>0, Concatenated
  <2> QED BY <2>1, <2>2, Zenon
<1> DEFINE a == Len(jobs)
           b == Len(jobs) + Len(hand)
           w == OnTheWay
<1>6. Len(w) = b + Len(completions) /\ a =< b /\ b =< a + 1 /\ a \in Nat /\ b \in Nat
      /\ Len(completions) \in Nat
  BY <1>1, <1>2, <1>3, <1>4, <1>5
<1>7. \A i \in 1 .. a : i \in 1 .. Len(w) /\ w[i] = jobs[i]
  BY <1>3, <1>4, <1>5, <1>6
<1>8. \A i \in 1 .. Len(w) : i > a /\ i =< b => i = b /\ w[i] = inflight /\ inflight # NoRequest
  <2> SUFFICES ASSUME NEW i \in 1 .. Len(w), i > a, i =< b
               PROVE  i = b /\ w[i] = inflight /\ inflight # NoRequest
    OBVIOUS
  <2>1. i = b /\ i - a \in 1 .. Len(hand) /\ i \in 1 .. Len(front)
    BY <1>1, <1>3, <1>4, <1>6
  <2>2. w[i] = hand[i - a]
    BY <1>4, <1>5, <1>6, <2>1
  <2> QED BY <1>1, <2>1, <2>2
<1>9. inflight # NoRequest => b \in 1 .. Len(w) /\ w[b] = inflight /\ b = a + 1
  <2> SUFFICES ASSUME inflight # NoRequest
               PROVE  b \in 1 .. Len(w) /\ w[b] = inflight /\ b = a + 1
    OBVIOUS
  <2>1. b = a + 1 /\ b \in 1 .. Len(w)
    BY <1>1, <1>6
  <2> QED BY <1>6, <1>8, <2>1
<1>10. \A i \in 1 .. Len(w) : i > b => i - b \in 1 .. Len(completions)
                                      /\ w[i] = completions[i - b].id
  <2> SUFFICES ASSUME NEW i \in 1 .. Len(w), i > b
               PROVE  i - b \in 1 .. Len(completions) /\ w[i] = completions[i - b].id
    OBVIOUS
  <2>1. i - b \in 1 .. Len(completions) /\ ~(i =< Len(front)) /\ Len(front) = b
    BY <1>4, <1>6
  <2> QED BY <1>2, <1>5, <2>1
<1>11. \A k \in 1 .. Len(completions) : b + k \in 1 .. Len(w) /\ w[b + k] = completions[k].id
  <2> SUFFICES ASSUME NEW k \in 1 .. Len(completions)
               PROVE  b + k \in 1 .. Len(w) /\ w[b + k] = completions[k].id
    OBVIOUS
  <2>1. b + k \in 1 .. Len(w) /\ b + k > b /\ (b + k) - b = k
    BY <1>6
  <2> QED BY <1>10, <2>1
<1>12. \A i \in 1 .. Len(w) : \/ i \in 1 .. a
                              \/ i > a /\ i =< b
                              \/ i > b
  BY <1>6
<1> HIDE DEF a, b, w
<1>13. \A id : id \in active <=> \E i \in 1 .. Len(w) : w[i] = id
  <2>1. ASSUME NEW id, id \in active PROVE \E i \in 1 .. Len(w) : w[i] = id
    BY <1>7, <1>9, <1>11, <2>1 DEF LoadInv, Owned, a
  <2>2. ASSUME NEW i \in 1 .. Len(w) PROVE w[i] \in active
    <3>1. CASE i \in 1 .. a
      BY <1>7, <3>1 DEF LoadInv, Owned, a
    <3>2. CASE i > a /\ i =< b
      BY <1>8, <3>2 DEF LoadInv, Owned
    <3>3. CASE i > b
      BY <1>10, <3>3 DEF LoadInv, Owned
    <3> QED BY <1>12, <3>1, <3>2, <3>3
  <2> QED BY <2>1, <2>2
<1>14. ASSUME NEW i \in 1 .. Len(w), NEW j \in 1 .. Len(w), w[i] = w[j]
       PROVE  i = j
  <2>1. CASE i \in 1 .. a
    BY <1>7, <1>8, <1>10, <1>12, <1>14, <2>1 DEF LoadInv, Apart, a
  <2>2. CASE i > a /\ i =< b
    BY <1>7, <1>8, <1>10, <1>12, <1>14, <2>2 DEF LoadInv, Apart, a
  <2>3. CASE i > b
    <3>1. ~(j \in 1 .. a) /\ ~(j > a /\ j =< b)
      BY <1>7, <1>8, <1>10, <1>14, <2>3 DEF LoadInv, Apart, a
    <3>2. i - b = j - b
      BY <1>10, <1>12, <1>14, <2>3, <3>1 DEF LoadInv, Apart
    <3> QED BY <1>6, <3>2
  <2> QED BY <1>12, <2>1, <2>2, <2>3
<1>15. Cardinality(active) = Len(w)
  <2>1. w \in Seq(Requests)
    BY <1>5 DEF w
  <2>2. \A i, j \in 1 .. Len(w) : w[i] = w[j] => i = j
    BY <1>14
  <2> QED BY <1>13, <2>1, <2>2, Counted
<1>16. active = Ids(w)
  <2>1. DOMAIN w = 1 .. Len(w)
    BY <1>5 DEF w
  <2> QED BY <1>13, <2>1 DEF Ids
<1>17. Len(jobs) =< MaxPending
  BY <1>6, <1>15, LoadAssumption, <1>3 DEF LoadInv, Bounded, a
<1> QED BY <1>15, <1>16, <1>17 DEF NothingLeaks, w, LoadInv, Typed

\* The pipeline never has more than PLAYER_LOAD_MAX_PENDING requests, each in one place,
\* and forgets every request and every cancellation with its result.
THEOREM NoRequestLeaks == Spec => []PipelineInv
<1>1. LoadInv /\ PoolTypeOK => PipelineInv
  <2> SUFFICES ASSUME LoadInv, PoolTypeOK PROVE PipelineInv
    OBVIOUS
  <2>1. \A i \in DOMAIN completions : completions[i].id \in Requests
                                      /\ completions[i].outcome \in Outcomes
    <3>1. \A i \in DOMAIN completions : completions[i] \in Results
      BY DEF LoadInv, Typed
    <3> QED BY <3>1 DEF Results
  <2>2. cancelled \subseteq Requests
    BY DEF LoadInv, Typed
  <2> QED BY <2>1, <2>2, NothingIsLeft DEF PipelineInv, TypeOK, LoadInv, Typed, Holding, Working
<1>2. Spec => []PoolTypeOK
  BY LoadsUseThePool, PoolIsTyped, PTL DEF ImplementsPool
<1> QED BY <1>1, <1>2, AlwaysLoadInv, PTL
=============================================================================
