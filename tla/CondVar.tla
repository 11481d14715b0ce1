------------------------------- MODULE CondVar -------------------------------
(***************************************************************************)
(* The condition variables of p4: user/cvarlib.c over the ticket lock of   *)
(* user/locklib.c and the system calls ticket_sleep and wake of            *)
(* kernel/proc.c.  Threads use the library the way every test of the       *)
(* repository does: they wait and signal while they hold the lock.         *)
(*                                                                         *)
(* What a thread does to the condition variable while it holds the lock    *)
(* is one step; ticket_sleep is three, because it gives the lock away      *)
(* between acquire(&ptable.lock) and p->state = SLEEPING.                  *)
(***************************************************************************)
EXTENDS Integers, Sequences, FiniteSets

CONSTANTS
  Threads,    \* pids of the threads of one process, all that ever exist
  MaxLive,    \* how many of them the process table holds at once
  KillSet,    \* threads that may be killed
  Conds,      \* the condition variables
  QSize,      \* CVAR_QUEUE_SIZE (64 in types.h)
  Width,      \* number of values of an int
  None        \* no thread; also what a queue slot holds when it is cleared

ASSUME CondAssumption ==
  /\ IsFiniteSet(Threads) /\ None \notin Threads
  /\ KillSet \subseteq Threads
  /\ QSize \in Nat /\ QSize > 1
  /\ MaxLive \in 1..(QSize - 1)       \* NPROC = 64, and two slots are init and sh
  /\ Width \in Nat /\ Cardinality(Threads) < Width

VARIABLES
  ticket, turn, myTurn,     \* lock_t, and the local of lock_acquire
  head, tail, queue,        \* cond_t
  klock,                    \* who holds ptable.lock in ticket_sleep
  pc, tgt, killed           \* place, pid about to be woken, proc->killed

lockPart == <<ticket, turn, myTurn>>
condPart == <<head, tail, queue>>
cvVars   == <<ticket, turn, myTurn, head, tail, queue, klock, pc, tgt, killed>>

\* "ts_lock", "ts_release", "ts_sleep": next line of ticket_sleep.
Inside == {"in", "sig", "ts_lock", "ts_release"}
\* The other places: "out", "spin", "ts_sleep", "asleep", "woken", "dead_spin",
\* "dead_in", "gone".

Inc(x)       == (x + 1) % Width
Goto(t, p)   == pc' = [pc EXCEPT ![t] = p]
AliveNow     == {t \in Threads : pc[t] \notin {"out", "gone", "dead_spin", "dead_in"}}
Full(c)      == tail[c] >= QSize \/ tail[c] + 1 = head[c]
Empty(c)     == head[c] = tail[c]

\* lock_init and cv_init
CvInit ==
  /\ ticket = 0 /\ turn = 0 /\ myTurn = [t \in Threads |-> 0]
  /\ head = [c \in Conds |-> 0] /\ tail = [c \in Conds |-> 0]
  /\ queue = [c \in Conds |-> [i \in 0..(QSize - 1) |-> None]]
  /\ klock = None
  /\ pc = [t \in Threads |-> "out"]
  /\ tgt = [t \in Threads |-> None]
  /\ killed = [t \in Threads |-> FALSE]

-----------------------------------------------------------------------------
(* The lock. *)

\* lock_acquire of a thread that comes (a new one needs a process table slot)
\* or that cv_wait has woken.
Take(t) ==
  /\ ~killed[t] /\ klock = None
  /\ \/ pc[t] = "out" /\ Cardinality(AliveNow) < MaxLive
     \/ pc[t] = "woken"
  /\ myTurn' = [myTurn EXCEPT ![t] = ticket]
  /\ ticket' = Inc(ticket)
  /\ Goto(t, "spin")
  /\ UNCHANGED <<turn, condPart, klock, tgt, killed>>

Enter(t) ==
  /\ pc[t] = "spin" /\ turn = myTurn[t]
  /\ Goto(t, "in")
  /\ UNCHANGED <<lockPart, condPart, klock, tgt, killed>>

Leave(t) ==
  /\ pc[t] = "in"
  /\ turn' = Inc(turn)
  /\ Goto(t, "out")
  /\ UNCHANGED <<ticket, myTurn, condPart, klock, tgt, killed>>

-----------------------------------------------------------------------------
(* cv_wait. *)

\* cv_wait puts the thread in the queue and traps; when the queue looks full
\* it returns having changed nothing.
CvWait(t, c) ==
  /\ pc[t] = "in" /\ ~Full(c)
  /\ queue' = [queue EXCEPT ![c][tail[c]] = t]
  /\ tail' = [tail EXCEPT ![c] = (@ + 1) % QSize]
  /\ Goto(t, "ts_lock")
  /\ UNCHANGED <<lockPart, head, klock, tgt, killed>>

\* Variant: the lock is given away before ptable.lock is taken.
TsLockLate(t) ==
  /\ pc[t] = "ts_lock"
  /\ turn' = Inc(turn)
  /\ Goto(t, "ts_sleep")
  /\ UNCHANGED <<ticket, myTurn, condPart, klock, tgt, killed>>

\* ticket_sleep: acquire(&ptable.lock)
TsLock(t) ==
  /\ pc[t] = "ts_lock" /\ klock = None
  /\ klock' = t
  /\ Goto(t, "ts_release")
  /\ UNCHANGED <<lockPart, condPart, tgt, killed>>

\* lock_release((lock_t *)lock)
TsRelease(t) ==
  /\ pc[t] = "ts_release"
  /\ turn' = Inc(turn)
  /\ Goto(t, "ts_sleep")
  /\ UNCHANGED <<ticket, myTurn, condPart, klock, tgt, killed>>

\* p->state = SLEEPING; sched()
TsSleep(t) ==
  /\ pc[t] = "ts_sleep"
  /\ klock' = None
  /\ Goto(t, "asleep")
  /\ UNCHANGED <<lockPart, condPart, tgt, killed>>

-----------------------------------------------------------------------------
(* cv_signal. *)

\* Variant of cv_signal: the youngest is woken.
CvSignalLast(t, c) ==
  /\ pc[t] = "in" /\ ~Empty(c)
  /\ tgt' = [tgt EXCEPT ![t] = queue[c][(tail[c] + QSize - 1) % QSize]]
  /\ tail' = [tail EXCEPT ![c] = (@ + QSize - 1) % QSize]
  /\ Goto(t, "sig")
  /\ UNCHANGED <<lockPart, head, queue, klock, killed>>

\* cv_signal takes the oldest pid out; with an empty queue it just returns.
CvSignal(t, c) ==
  /\ pc[t] = "in" /\ ~Empty(c)
  /\ tgt' = [tgt EXCEPT ![t] = queue[c][head[c]]]
  /\ queue' = [queue EXCEPT ![c][head[c]] = None]
  /\ head' = [head EXCEPT ![c] = (@ + 1) % QSize]
  /\ Goto(t, "sig")
  /\ UNCHANGED <<lockPart, tail, klock, killed>>

\* wake(currPid): proc_wakeup, all of it under ptable.lock
Wake(t) ==
  /\ pc[t] = "sig" /\ klock = None
  /\ pc' = [u \in Threads |-> IF u = t THEN "in"
                              ELSE IF u = tgt[t] /\ pc[u] = "asleep" THEN "woken" ELSE pc[u]]
  /\ tgt' = [tgt EXCEPT ![t] = None]
  /\ UNCHANGED <<lockPart, condPart, klock, killed>>

-----------------------------------------------------------------------------
(* kill(pid) by some other process, and the exit of the killed thread. *)

Kill(t) ==
  /\ t \in KillSet /\ ~killed[t] /\ t \in AliveNow /\ klock = None
  /\ killed' = [killed EXCEPT ![t] = TRUE]
  /\ IF pc[t] = "asleep" THEN Goto(t, "woken") ELSE UNCHANGED pc
  /\ UNCHANGED <<lockPart, condPart, klock, tgt>>

\* trap() sends a killed thread to exit() wherever it is in user mode or on
\* its way into or out of a system call; its ticket and its queue entry stay.
Die(t) ==
  /\ killed[t]
  /\ \/ pc[t] = "spin" /\ Goto(t, "dead_spin")
     \/ pc[t] \in {"in", "sig", "ts_lock"} /\ Goto(t, "dead_in")
     \/ pc[t] \in {"out", "woken"} /\ Goto(t, "gone")
  /\ UNCHANGED <<lockPart, condPart, klock, tgt, killed>>

LibraryStep(t) ==
  Take(t) \/ Enter(t) \/ TsLock(t) \/ TsRelease(t) \/ TsSleep(t) \/ Wake(t)

-----------------------------------------------------------------------------
(* What is promised. *)

\* The pids between head and tail, oldest first.
Line(c) ==
  [i \in 1..((tail[c] - head[c] + QSize) % QSize) |->
     queue[c][(head[c] + i - 1) % QSize]]

Waiting(t) == pc[t] \in {"ts_lock", "ts_release", "ts_sleep", "asleep"}

\* No wake-up is lost: a thread in cv_wait is still in a queue, or a thread
\* that signals has its pid in hand and has not called wake yet.
NoLostWaiter ==
  \A t \in Threads : Waiting(t) =>
    \/ \E c \in Conds : \E i \in DOMAIN Line(c) : Line(c)[i] = t
    \/ \E u \in Threads : tgt[u] = t

\* Lock and conditions together are a monitor.
HolderNow == IF \E t \in Threads : pc[t] \in Inside \cup {"dead_in"}
               THEN CHOOSE t \in Threads : pc[t] \in Inside \cup {"dead_in"} ELSE None
StillIn(t) == pc[t] \in {"ts_lock", "ts_release", "dead_in"}

\* Who has gone out to wait: only the last of the line may have kept the lock.
LeftFor(c) ==
  LET n == Len(Line(c))
  IN  IF n > 0 /\ StillIn(Line(c)[n]) THEN SubSeq(Line(c), 1, n - 1) ELSE Line(c)

TheMonitor == INSTANCE Monitor WITH holder <- HolderNow, waiting <- [c \in Conds |-> LeftFor(c)]
IsMonitor == TheMonitor!Spec

=============================================================================
