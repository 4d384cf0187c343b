------------------------------ MODULE SqlPool ------------------------------
(***************************************************************************)
(* The connection pool of sql/sql_pool.c, which the persistence workers    *)
(* and the game thread borrow from, with the exclusion guard of            *)
(* sql/sql_exclusion_guard.h: every connection is probed, when it is lent  *)
(* or opened, for the lock that the runtime's main connection owns.        *)
(*                                                                         *)
(* pool_mutex is taken and left several times within one acquire or        *)
(* replace; each stay inside it, each probe and each connect is a step of  *)
(* its own, so that other threads and the shutdown come in between.        *)
(*                                                                         *)
(* A connection is the number of its opening: a MYSQL pointer is never     *)
(* given out again before its holder is done with it, because a            *)
(* replacement is opened before the old handle is closed.                  *)
(***************************************************************************)
EXTENDS Naturals

CONSTANTS
  Threads,         \* the borrowers
  PoolSize,        \* pool_size
  MaxConnections   \* bound on the connections ever opened

ASSUME PoolAssumption ==
  /\ PoolSize \in Nat \ {0}
  /\ MaxConnections \in Nat /\ PoolSize =< MaxConnections

VARIABLES
  open,      \* pool is not NULL
  closing,   \* pool_closing
  conn,      \* slot -> its connection
  in_use,    \* the slots marked in_use
  needs,     \* the slots marked needs_replacement
  owner,     \* the server still names the runtime's connection as the lock's owner
  lost,      \* the guard's latch
  at,        \* thread -> where it is in the pool's code
  held,      \* thread -> the connection it works with
  slot,      \* thread -> the slot replace_connection found
  fresh,     \* thread -> the connection opened to replace the one it holds
  opened,    \* connections opened so far
  closed,    \* history: the connections closed
  late       \* history: threads whose acquire began after the loss was confirmed

shared == <<open, closing, conn, in_use, needs>>
guard == <<owner, lost>>
local == <<at, held, slot, fresh>>
poolVars == <<shared, guard, local, opened, closed, late>>

Slots == 1 .. PoolSize
Connections == 1 .. MaxConnections
NoConnection == 0
NoSlot == 0

Absent == {"out", "waiting"}
Stages == Absent \cup {"probing", "deciding", "marking", "opening", "swapping", "holding"}

\* sql_pool_init has opened every slot.
PoolInit ==
  /\ open = TRUE /\ closing = FALSE
  /\ conn = [i \in Slots |-> i]
  /\ in_use = {} /\ needs = {}
  /\ owner = TRUE /\ lost = FALSE
  /\ at = [t \in Threads |-> "out"]
  /\ held = [t \in Threads |-> NoConnection]
  /\ slot = [t \in Threads |-> NoSlot]
  /\ fresh = [t \in Threads |-> NoConnection]
  /\ opened = PoolSize
  /\ closed = {}
  /\ late = {}

----------------------------------------------------------------------------
(***************************************************************************)
(* sql_pool_release                                                        *)
(***************************************************************************)
SlotsOf(c) == {i \in Slots : conn[i] = c}

FaultFreed(c) == IF open /\ ~closing THEN in_use \ SlotsOf(c) ELSE in_use

\* in_use as sql_pool_release(c) leaves it.
Freed(c) == IF open THEN in_use \ SlotsOf(c) ELSE in_use

\* Thread t leaves the pool's code without a connection.
Leaves(t) ==
  /\ at' = [at EXCEPT ![t] = "out"]
  /\ held' = [held EXCEPT ![t] = NoConnection]
  /\ late' = late \ {t}

GivesBack(t) ==
  /\ in_use' = Freed(held[t])
  /\ Leaves(t)

----------------------------------------------------------------------------
(***************************************************************************)
(* sql_pool_acquire_with_status                                            *)
(***************************************************************************)
Refuses == ~open \/ closing

Free(i) == i \notin in_use /\ conn[i] # NoConnection
IsFirstFree(i) == Free(i) /\ \A j \in Slots : j < i => ~Free(j)

FaultBorrow(t, i) ==
  /\ IsFirstFree(i)
  /\ in_use' = in_use \cup {i}
  /\ held' = [held EXCEPT ![t] = conn[i]]
  /\ at' = [at EXCEPT ![t] = "probing"]

\* The slot is marked and its connection taken; one whose repair failed is not probed.
Borrow(t, i) ==
  /\ IsFirstFree(i)
  /\ in_use' = in_use \cup {i}
  /\ held' = [held EXCEPT ![t] = conn[i]]
  /\ at' = [at EXCEPT ![t] = IF i \in needs THEN "deciding" ELSE "probing"]

\* One look at the slots under the mutex.
Scan(t) ==
  \/ /\ Refuses
     /\ at' = [at EXCEPT ![t] = "out"]
     /\ UNCHANGED <<in_use, held>>
  \/ /\ ~Refuses
     /\ \E i \in Slots : Borrow(t, i)
  \/ /\ ~Refuses
     /\ \A i \in Slots : ~Free(i)
     /\ at' = [at EXCEPT ![t] = "waiting"]
     /\ UNCHANGED <<in_use, held>>

Acquire(t) ==
  /\ at[t] = "out"
  /\ Scan(t)
  /\ late' = IF lost /\ ~Refuses THEN late \cup {t} ELSE late
  /\ UNCHANGED <<open, closing, conn, needs, guard, slot, fresh, opened, closed>>

\* pthread_cond_timedwait returned 0: a release or the shutdown signalled it, or it
\* woke for nothing.
Woken(t) ==
  /\ at[t] = "waiting"
  /\ Scan(t)
  /\ late' = IF Refuses THEN late \ {t} ELSE late
  /\ UNCHANGED <<open, closing, conn, needs, guard, slot, fresh, opened, closed>>

\* ETIMEDOUT, or a failed wait: the slots are not looked at again.
TimesOut(t) ==
  /\ at[t] = "waiting"
  /\ Leaves(t)
  /\ UNCHANGED <<shared, guard, slot, fresh, opened, closed>>

\* duris_sql_exclusion_guard_allows on a connection that answers.
Allows == ~lost /\ owner

\* The probe's answer, outside the mutex.  Only an answer naming another owner
\* latches the loss; a connection that does not answer says nothing of the lock.
Probe(t) ==
  /\ at[t] = "probing"
  /\ \/ /\ Allows
        /\ at' = [at EXCEPT ![t] = "holding"]
        /\ lost' = lost
     \/ /\ ~Allows
        /\ at' = [at EXCEPT ![t] = "deciding"]
        /\ lost' = TRUE
     \/ /\ at' = [at EXCEPT ![t] = "deciding"]
        /\ lost' = lost
  /\ UNCHANGED <<shared, owner, held, slot, fresh, opened, closed, late>>

\* After a failed probe: the lock is lost and the connection goes back, or the
\* connection is replaced.
Decide(t) ==
  /\ at[t] = "deciding"
  /\ \/ /\ lost
        /\ GivesBack(t)
     \/ /\ ~lost
        /\ at' = [at EXCEPT ![t] = "marking"]
        /\ UNCHANGED <<in_use, held, late>>
  /\ UNCHANGED <<open, closing, conn, needs, guard, slot, fresh, opened, closed>>

----------------------------------------------------------------------------
(***************************************************************************)
(* sql_pool_replace_connection                                             *)
(***************************************************************************)
\* The first stay under the mutex finds the slot, unless the pool is closing.
Mark(t) ==
  /\ at[t] = "marking"
  /\ \/ /\ ~Refuses
        /\ \E i \in SlotsOf(held[t]) :
             /\ slot' = [slot EXCEPT ![t] = i]
             /\ needs' = needs \cup {i}
        /\ at' = [at EXCEPT ![t] = "opening"]
     \/ /\ Refuses \/ SlotsOf(held[t]) = {}
        /\ at' = [at EXCEPT ![t] = "swapping"]
        /\ UNCHANGED <<slot, needs>>
  /\ UNCHANGED <<open, closing, conn, in_use, guard, held, fresh, opened, closed, late>>

\* sql_pool_create_connection, outside the mutex; it fails, or passes the guard.
Open(t) ==
  /\ at[t] = "opening"
  /\ at' = [at EXCEPT ![t] = "swapping"]
  /\ \/ /\ Allows /\ opened < MaxConnections
        /\ opened' = opened + 1
        /\ fresh' = [fresh EXCEPT ![t] = opened + 1]
        /\ lost' = lost
     \/ /\ ~Allows
        /\ lost' = TRUE
        /\ UNCHANGED <<opened, fresh>>
     \/ UNCHANGED <<opened, fresh, lost>>
  /\ UNCHANGED <<shared, owner, held, slot, closed, late>>

\* Whether the slot may take the replacement, looked at under the mutex again.
MaySwap(t) ==
  /\ fresh[t] # NoConnection
  /\ ~Refuses
  /\ conn[slot[t]] = held[t]

Swapped(t) ==
  /\ MaySwap(t)
  /\ conn' = [conn EXCEPT ![slot[t]] = fresh[t]]
  /\ needs' = needs \ {slot[t]}
  /\ closed' = closed \cup {held[t]}
  /\ held' = [held EXCEPT ![t] = fresh[t]]
  /\ at' = [at EXCEPT ![t] = "holding"]
  /\ UNCHANGED <<in_use, late>>

FaultNotSwapped(t) ==
  /\ ~MaySwap(t)
  /\ GivesBack(t)
  /\ UNCHANGED <<conn, needs, closed>>

\* The replacement is closed and the old connection goes back to its slot.
NotSwapped(t) ==
  /\ ~MaySwap(t)
  /\ GivesBack(t)
  /\ closed' = closed \cup ({fresh[t]} \ {NoConnection})
  /\ UNCHANGED <<conn, needs>>

Swap(t) ==
  /\ at[t] = "swapping"
  /\ Swapped(t) \/ NotSwapped(t)
  /\ slot' = [slot EXCEPT ![t] = NoSlot]
  /\ fresh' = [fresh EXCEPT ![t] = NoConnection]
  /\ UNCHANGED <<open, closing, guard, opened>>

----------------------------------------------------------------------------
(***************************************************************************)
(* The borrower                                                            *)
(***************************************************************************)
\* sql_pool_release by a borrower that is done.
Release(t) ==
  /\ at[t] = "holding"
  /\ GivesBack(t)
  /\ UNCHANGED <<open, closing, conn, needs, guard, slot, fresh, opened, closed>>

\* A borrower found its connection broken and asks for another.
Break(t) ==
  /\ at[t] = "holding"
  /\ at' = [at EXCEPT ![t] = "marking"]
  /\ UNCHANGED <<shared, guard, held, slot, fresh, opened, closed, late>>

----------------------------------------------------------------------------
(***************************************************************************)
(* sql_pool_shutdown, and the loss of the lock                             *)
(***************************************************************************)
CloseBegin ==
  /\ open /\ ~closing
  /\ closing' = TRUE
  /\ UNCHANGED <<open, conn, in_use, needs, guard, local, opened, closed, late>>

FaultNoneBorrowed == TRUE

NoneBorrowed == in_use = {}

CloseEnd ==
  /\ closing
  /\ NoneBorrowed
  /\ open' = FALSE /\ closing' = FALSE
  /\ conn' = [i \in Slots |-> NoConnection]
  /\ in_use' = {}
  /\ closed' = closed \cup {conn[i] : i \in Slots}
  /\ UNCHANGED <<needs, guard, local, opened, late>>

\* The main connection drops and the server gives its lock up.
LoseLock ==
  /\ owner
  /\ owner' = FALSE
  /\ UNCHANGED <<shared, lost, local, opened, closed, late>>

----------------------------------------------------------------------------
\* What a thread inside the pool's code does next, whatever its caller wants.
PoolStep(t) ==
  \/ Woken(t) \/ TimesOut(t) \/ Probe(t) \/ Decide(t)
  \/ Mark(t) \/ Open(t) \/ Swap(t)

PoolNext ==
  \/ \E t \in Threads : Acquire(t) \/ PoolStep(t) \/ Release(t) \/ Break(t)
  \/ CloseBegin \/ CloseEnd \/ LoseLock

PoolSpec == PoolInit /\ [][PoolNext]_poolVars

----------------------------------------------------------------------------
(***************************************************************************)
(* Properties                                                              *)
(***************************************************************************)
\* Every variable of the pool has its type.
PoolTypeOK ==
  /\ open \in BOOLEAN /\ closing \in BOOLEAN
  /\ conn \in [Slots -> Connections \cup {NoConnection}]
  /\ in_use \subseteq Slots /\ needs \subseteq Slots
  /\ owner \in BOOLEAN /\ lost \in BOOLEAN
  /\ at \in [Threads -> Stages]
  /\ held \in [Threads -> Connections \cup {NoConnection}]
  /\ slot \in [Threads -> Slots \cup {NoSlot}]
  /\ fresh \in [Threads -> Connections \cup {NoConnection}]
  /\ opened \in PoolSize .. MaxConnections
  /\ closed \subseteq Connections
  /\ late \subseteq Threads

\* Two threads never work with the same connection, and a thread never works with
\* one that was closed: neither a replacement nor the shutdown closes a handle that
\* is borrowed (sql_pool.c: "Do not close anything until every borrower has returned
\* its handle").
LentToOne ==
  \A t \in Threads :
    held[t] # NoConnection =>
      /\ held[t] \notin closed
      /\ \A u \in Threads \ {t} : held[u] # held[t]

\* A slot is marked in_use exactly while some thread works with its connection: a
\* slot is never left marked on an error path, which would make the pool smaller for
\* good and the shutdown wait for ever.
BorrowedIsExact ==
  in_use = {i \in Slots : conn[i] # NoConnection /\ \E t \in Threads : held[t] = conn[i]}

\* Every connection opened is in a slot, in the hands of the thread that opened it,
\* or closed: no failed replacement and no shutdown leaks one.
NoneLeaked ==
  \A c \in 1 .. opened :
    \/ c \in closed
    \/ \E i \in Slots : conn[i] = c
    \/ \E t \in Threads : fresh[t] = c

\* A borrower never gets the connection of a slot whose repair failed
\* (needs_replacement: "never lend a handle whose explicit repair failed").
BrokenNotLent ==
  \A t \in Threads, i \in Slots :
    at[t] = "holding" /\ conn[i] = held[t] => i \notin needs

\* A thread that asks after the loss of the lock was confirmed gets no connection,
\* by no path: "nothing more is written until the server restarts".
LossIsFinal ==
  \A t \in late : at[t] # "holding"

\* Every slot and every connection is accounted for: marks are exact and no connection
\* is leaked, on every path of acquire, replace and shutdown.
Accounted == BorrowedIsExact /\ NoneLeaked

\* What a borrower gets is fit for use: not a connection whose repair failed, and none
\* once the loss of the runtime's lock was confirmed, by acquire or by replace.
LentIsUsable == BrokenNotLent /\ LossIsFinal

\* A shutdown ends: every borrower returns its handle, and those that wait leave.
ShutdownEnds == closing ~> ~open
=============================================================================
