---------------------------- MODULE BoundedBuffer ----------------------------
(***************************************************************************)
(* The producers and consumers of p4/xv6/user/race.c over the condition    *)
(* variables and the ticket lock: the program that shows whether the       *)
(* library can be used to wait for a buffer that is full or empty.  A      *)
(* thread may be killed wherever it is, as in CondVar.                     *)
(***************************************************************************)
EXTENDS CondVar

CONSTANTS
  Producers, Consumers,    \* the threads, by what they run
  nonfull, nonempty,       \* the two condition variables
  N                        \* capacity of the buffer (1 in race.c)

ASSUME BufferAssumption ==
  /\ Producers \cap Consumers = {} /\ Producers \cup Consumers = Threads
  /\ nonfull # nonempty /\ Conds = {nonfull, nonempty}
  /\ N \in Nat \ {0}
  /\ Cardinality(Threads) <= MaxLive

VARIABLES
  bufsize,
  stage      \* which part of its loop a thread is at, while it is inside

bufVars == <<bufsize, stage>>
vars    == <<cvVars, bufVars>>

BufInit == CvInit /\ bufsize = 0 /\ stage = [t \in Threads |-> "test"]

\* Variant: if instead of while.
WaitIf(t, cond, c) ==
  /\ pc[t] = "in" /\ stage[t] = "test"
  /\ stage' = [stage EXCEPT ![t] = "body"]
  /\ IF cond THEN CvWait(t, c) ELSE UNCHANGED cvVars
  /\ UNCHANGED bufsize

\* while(cond) cv_wait(c, &lock);
WaitWhile(t, cond, c) ==
  /\ pc[t] = "in" /\ stage[t] = "test"
  /\ IF cond THEN CvWait(t, c) /\ UNCHANGED stage
             ELSE stage' = [stage EXCEPT ![t] = "body"] /\ UNCHANGED cvVars
  /\ UNCHANGED bufsize

\* cv_signal returns at once when nobody waits.
SignalIfAny(t, c) == IF Empty(c) THEN UNCHANGED cvVars ELSE CvSignal(t, c)

\* Variant of the loop body: it signals the condition the thread waits on itself.
ChangeOwn(t, size, c) ==
  /\ pc[t] = "in" /\ stage[t] = "body"
  /\ bufsize' = size
  /\ stage' = [stage EXCEPT ![t] = "done"]
  /\ SignalIfAny(t, CHOOSE d \in Conds : d # c)

\* bufsize++ or bufsize--; cv_signal(c)
Change(t, size, c) ==
  /\ pc[t] = "in" /\ stage[t] = "body"
  /\ bufsize' = size
  /\ stage' = [stage EXCEPT ![t] = "done"]
  /\ SignalIfAny(t, c)

Produce(t) == WaitWhile(t, bufsize = N, nonfull)  \/ Change(t, bufsize + 1, nonempty)
Consume(t) == WaitWhile(t, bufsize = 0, nonempty) \/ Change(t, bufsize - 1, nonfull)

Unlock(t) ==
  /\ stage[t] = "done" /\ Leave(t)
  /\ stage' = [stage EXCEPT ![t] = "test"]
  /\ UNCHANGED bufsize

Step(t) ==
  \/ LibraryStep(t) /\ UNCHANGED bufVars
  \/ t \in Producers /\ Produce(t)
  \/ t \in Consumers /\ Consume(t)
  \/ Unlock(t)

BufNext == \E t \in Threads :
  Step(t) \/ ((Kill(t) \/ Die(t)) /\ UNCHANGED bufVars)

BufSpec == BufInit /\ [][BufNext]_vars

\* The timer of every processor preempts, the scheduler scans the whole table:
\* each thread runs again and again.
BufFairSpec == BufSpec /\ \A t \in Threads : WF_vars(Step(t))

-----------------------------------------------------------------------------
\* The buffer never overflows or underflows: its size is tested and changed
\* under one hold of the lock, however often the thread has slept in between.
BufferBounds == bufsize \in 0..N

\* Some producer or consumer always gets through: never do all of them sleep
\* or spin for good, unless one has been killed (with the lock, or with the
\* signal that another one needs).
KeepsFlowing == []<><<bufsize' # bufsize>>_bufsize \/ <>(\E t \in Threads : killed[t])

=============================================================================
