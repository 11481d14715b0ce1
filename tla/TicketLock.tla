----------------------------- MODULE TicketLock -----------------------------
(***************************************************************************)
(* The ticket lock of p4 (user/locklib.c, and lock_release again in        *)
(* kernel/proc.c).  ticket and turn are C ints that wrap after Width       *)
(* values; FetchAndAdd is one locked instruction.  A thread that is killed *)
(* keeps its ticket: nobody takes its turn for it.                         *)
(***************************************************************************)
EXTENDS Integers, FiniteSets

CONSTANTS
  Threads,   \* the threads that use the lock
  Width,     \* number of values of an int
  MayDie     \* whether threads are killed while they use the lock

ASSUME LockAssumption ==
  /\ IsFiniteSet(Threads)
  /\ Width \in Nat
  /\ Cardinality(Threads) < Width     \* at most NPROC = 64 threads, 2^32 ints
  /\ MayDie \in BOOLEAN

VARIABLES ticket, turn, myTurn, place

lockVars == <<ticket, turn, myTurn, place>>

Values == 0..(Width - 1)

LockTypeOK ==
  /\ ticket \in Values /\ turn \in Values
  /\ myTurn \in [Threads -> Values]
  /\ place \in [Threads -> {"out", "spin", "in", "dead_spin", "dead_in"}]

\* x + 1 in an int.
Inc(x) == IF x = Width - 1 THEN 0 ELSE x + 1

\* lock_init; no thread has started.
LockInit ==
  /\ ticket = 0 /\ turn = 0
  /\ myTurn = [t \in Threads |-> 0]
  /\ place = [t \in Threads |-> "out"]

\* Variant of lock_acquire: whoever finds the lock free comes in.
EnterAny(t) ==
  /\ place[t] = "spin" /\ \A u \in Threads : place[u] # "in"
  /\ place' = [place EXCEPT ![t] = "in"]
  /\ UNCHANGED <<ticket, turn, myTurn>>

\* myTurn = FetchAndAdd(&lock->ticket, 1)
Take(t) ==
  /\ place[t] = "out"
  /\ myTurn' = [myTurn EXCEPT ![t] = ticket]
  /\ ticket' = Inc(ticket)
  /\ place' = [place EXCEPT ![t] = "spin"]
  /\ UNCHANGED turn

\* The spin ends.
Enter(t) ==
  /\ place[t] = "spin" /\ turn = myTurn[t]
  /\ place' = [place EXCEPT ![t] = "in"]
  /\ UNCHANGED <<ticket, turn, myTurn>>

\* Variant of lock_release: the releasing thread starts the count again.
LeaveReset(t) ==
  /\ place[t] = "in"
  /\ turn' = 0
  /\ place' = [place EXCEPT ![t] = "out"]
  /\ UNCHANGED <<ticket, myTurn>>

\* lock_release: FetchAndAdd(&lock->turn, 1)
Leave(t) ==
  /\ place[t] = "in"
  /\ turn' = Inc(turn)
  /\ place' = [place EXCEPT ![t] = "out"]
  /\ UNCHANGED <<ticket, myTurn>>

\* trap() throws a killed thread out while it spins or holds the lock.
Die(t) ==
  /\ MayDie
  /\ \/ place[t] = "spin" /\ place' = [place EXCEPT ![t] = "dead_spin"]
     \/ place[t] = "in"   /\ place' = [place EXCEPT ![t] = "dead_in"]
  /\ UNCHANGED <<ticket, turn, myTurn>>

LockNext == \E t \in Threads : Take(t) \/ Enter(t) \/ Leave(t) \/ Die(t)

LockSpec == LockInit /\ [][LockNext]_lockVars

\* Every thread is scheduled again and again; a holder releases in the end.
LockFairSpec == LockSpec /\ \A t \in Threads : WF_lockVars(Enter(t)) /\ WF_lockVars(Leave(t))

-----------------------------------------------------------------------------
Active  == {t \in Threads : place[t] # "out"}
Holders == {t \in Threads : place[t] \in {"in", "dead_in"}}

\* How many values b is ahead of a, across the wrap.
Ahead(a, b) == IF b >= a THEN b - a ELSE b - a + Width

\* At most one thread is between lock_acquire and lock_release, across the
\* wrap of both counters and whoever is killed.
MutualExclusion == \A t, u \in Holders : t = u

\* The waiting threads in the order of their tickets.
WaitingLine ==
  [i \in 1..Cardinality(Active) |->
     CHOOSE t \in Active : Ahead(turn, myTurn[t]) = i - 1]

Fifo == INSTANCE FifoLock WITH queue <- WaitingLine, inside <- Holders

\* The lock is handed on in the order in which it was asked for.
HandedOnInOrder == Fifo!Spec

\* A thread that spins in lock_acquire comes to the end of it, unless one of
\* the threads before it is killed.
NoStarvation == \A t \in Threads :
  (place[t] = "spin") ~> (place[t] # "spin" \/ \E u \in Threads : place[u] \in {"dead_spin", "dead_in"})

=============================================================================
