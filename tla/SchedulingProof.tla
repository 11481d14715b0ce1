-------------------------- MODULE SchedulingProof --------------------------
(***************************************************************************)
(* Who waits and who is woken: the lock, the conditions and the buffer of  *)
(* p4; and, in the last part, who is chosen: the stride scheduler of p2.   *)
(* The two share no state and no lemma.                                    *)
(*                                                                         *)
(* What the condition variables of p4 and the program over them guarantee  *)
(* for any number of threads that the process table holds, any capacity of *)
(* the buffer, any queue size and any width of an int.                     *)
(*                                                                         *)
(* The argument goes up from the lock.  Its holder and its line are the    *)
(* ticket lock of TicketLock under a refinement mapping, so mutual         *)
(* exclusion and first-come first-served are theorems of that module.      *)
(* With one thread inside at a time the buffer's test and change do not    *)
(* come apart, and the array of each condition keeps its order: an         *)
(* invariant that ties every slot in use to a thread in cv_wait and back.  *)
(* From it come the absence of lost wake-ups and the monitor.              *)
(***************************************************************************)
EXTENDS BoundedBuffer, StrideSched, TLAPS, FiniteSetTheorems, SequenceTheorems

Places == Inside \cup {"out", "spin", "ts_sleep", "asleep", "woken",
                       "dead_spin", "dead_in", "gone"}

QueueSlots == 0..(QSize - 1)

CvTypeOK ==
  /\ ticket \in 0..(Width - 1) /\ turn \in 0..(Width - 1)
  /\ myTurn \in [Threads -> 0..(Width - 1)]
  /\ head \in [Conds -> QueueSlots] /\ tail \in [Conds -> QueueSlots]
  /\ queue \in [Conds -> [QueueSlots -> Threads \cup {None}]]
  /\ klock \in Threads \cup {None}
  /\ pc \in [Threads -> Places]
  /\ tgt \in [Threads -> Threads \cup {None}]
  /\ killed \in [Threads -> BOOLEAN]

-----------------------------------------------------------------------------
(* Every step of the program is one step of the library, or none. *)
CvStep(t) ==
  \/ LibraryStep(t) \/ Leave(t) \/ Kill(t) \/ Die(t)
  \/ \E c \in Conds : CvWait(t, c) \/ CvSignal(t, c)

\* race.c calls nothing else: whatever it does is one of the library's steps.
LEMMA LibrarySteps ==
  ASSUME [BufNext]_vars
  PROVE  (\E t \in Threads : CvStep(t)) \/ UNCHANGED cvVars
<1>1. nonfull \in Conds /\ nonempty \in Conds
  BY BufferAssumption
<1>2. CASE UNCHANGED vars
  BY <1>2 DEF vars
<1>3. CASE BufNext
  <2>1. PICK t \in Threads : Step(t) \/ ((Kill(t) \/ Die(t)) /\ UNCHANGED bufVars)
    BY <1>3 DEF BufNext
  <2>2. CASE Produce(t)
    BY <1>1, <2>2 DEF Produce, WaitWhile, Change, SignalIfAny, CvStep
  <2>3. CASE Consume(t)
    BY <1>1, <2>3 DEF Consume, WaitWhile, Change, SignalIfAny, CvStep
  <2>4. QED BY <2>1, <2>2, <2>3 DEF Step, Unlock, CvStep
<1>4. QED BY <1>2, <1>3

\* The remainder, for the operands that wrapping around once can give.
LEMMA Modulo ==
  ASSUME NEW q \in Nat, q > 0
  PROVE  /\ \A a \in 0..(q - 1) : a % q = a
         /\ \A a \in q..(2 * q - 1) : a % q = a - q
         /\ \A a \in Int : a % q \in 0..(q - 1)
  OBVIOUS

\* The sizes are not degenerate.
LEMMA Sizes ==
  /\ QSize \in Nat /\ QSize > 1 /\ Width \in Nat /\ Width > 0
  /\ 0 \in QueueSlots
  BY CondAssumption, FS_CardinalityType DEF QueueSlots

\* The tickets wrap around at the width of an int.
LEMMA IncWraps ==
  \A x \in 0..(Width - 1) : Inc(x) = IF x = Width - 1 THEN 0 ELSE x + 1
<1>1. SUFFICES ASSUME NEW x \in 0..(Width - 1)
               PROVE  (x + 1) % Width = IF x = Width - 1 THEN 0 ELSE x + 1
  BY DEF Inc
<1>2. CASE x = Width - 1
  <2>1. x + 1 \in Width..(2 * Width - 1) /\ x + 1 - Width = 0
    BY <1>2, Sizes
  <2>2. QED BY <1>2, <2>1, Sizes, Modulo
<1>3. CASE x # Width - 1
  <2>1. x + 1 \in 0..(Width - 1)
    BY <1>3, Sizes
  <2>2. QED BY <1>3, <2>1, Sizes, Modulo
<1>4. QED BY <1>2, <1>3

\* (head + 1) % CVAR_QUEUE_SIZE and (tail + 1) % CVAR_QUEUE_SIZE.
LEMMA NextSlot ==
  \A x \in QueueSlots : (x + 1) % QSize = IF x = QSize - 1 THEN 0 ELSE x + 1
<1>1. SUFFICES ASSUME NEW x \in QueueSlots
               PROVE  (x + 1) % QSize = IF x = QSize - 1 THEN 0 ELSE x + 1
  OBVIOUS
<1>2. x \in 0..(QSize - 1) /\ QSize \in Nat /\ QSize > 1
  BY Sizes DEF QueueSlots
<1>3. CASE x = QSize - 1
  <2>1. x + 1 \in QSize..(2 * QSize - 1) /\ x + 1 - QSize = 0
    BY <1>2, <1>3
  <2>2. QED BY <1>2, <1>3, <2>1, Modulo
<1>4. CASE x # QSize - 1
  <2>1. x + 1 \in 0..(QSize - 1)
    BY <1>2, <1>4
  <2>2. QED BY <1>2, <1>4, <2>1, Modulo
<1>5. QED BY <1>3, <1>4

\* lock_init and cv_init give every variable a value of its type.
LEMMA CvTypeInitially == BufInit => CvTypeOK
  BY Sizes DEF BufInit, CvInit, CvTypeOK, Places, Inside, QueueSlots

\* Every step of the library keeps the types: no index leaves the array.
LEMMA CvTypeKeeps ==
  ASSUME CvTypeOK, NEW t \in Threads, CvStep(t) PROVE CvTypeOK'
<1> USE DEF CvTypeOK
<1>0. /\ Inc(ticket) \in 0..(Width - 1) /\ Inc(turn) \in 0..(Width - 1)
      /\ \A i \in QueueSlots : (i + 1) % QSize \in QueueSlots
  BY Sizes, Modulo DEF Inc, QueueSlots
<1>1. CASE Take(t) \/ Enter(t) \/ Leave(t)
  BY <1>0, <1>1 DEF Take, Enter, Leave, Goto, lockPart, condPart, Places, Inside
<1>2. CASE TsLock(t) \/ TsRelease(t) \/ TsSleep(t)
  BY <1>0, <1>2 DEF TsLock, TsRelease, TsSleep, Goto, lockPart, condPart, Places, Inside
<1>3. CASE Wake(t) \/ Kill(t) \/ Die(t)
  BY <1>3 DEF Wake, Kill, Die, Goto, lockPart, condPart, Places, Inside
<1>4. ASSUME NEW c \in Conds, CvWait(t, c) PROVE CvTypeOK'
  BY <1>0, <1>4 DEF CvWait, Goto, lockPart, Places, Inside
<1>5. ASSUME NEW c \in Conds, CvSignal(t, c) PROVE CvTypeOK'
  BY <1>0, <1>5 DEF CvSignal, Goto, lockPart, Places, Inside
<1>6. QED BY <1>1, <1>2, <1>3, <1>4, <1>5 DEF CvStep, LibraryStep

\* The types hold throughout.
LEMMA CvTypeInvariance == BufSpec => []CvTypeOK
<1>1. CvTypeOK /\ [BufNext]_vars => CvTypeOK'
  <2> SUFFICES ASSUME CvTypeOK, [BufNext]_vars PROVE CvTypeOK'
    OBVIOUS
  <2>1. CASE UNCHANGED cvVars
    BY <2>1 DEF CvTypeOK, cvVars
  <2>2. QED BY <2>1, LibrarySteps, CvTypeKeeps
<1>2. QED BY <1>1, CvTypeInitially, PTL DEF BufSpec

-----------------------------------------------------------------------------
(* The lock of the library is the ticket lock: its threads come and go.      *)

\* What the lock sees of a thread: a waiter that has released it is gone.
Where(t) == IF pc[t] \in Inside THEN "in"
            ELSE IF pc[t] \in {"spin", "dead_spin", "dead_in"} THEN pc[t] ELSE "out"

TheLock == INSTANCE TicketLockProof WITH place <- [t \in Threads |-> Where(t)], MayDie <- TRUE

\* A step of the library is one of the lock, or none of it.
LEMMA LockStep ==
  ASSUME CvTypeOK, NEW t \in Threads, CvStep(t)
  PROVE  [TheLock!LockNext]_(TheLock!lockVars)
<1> USE DEF CvTypeOK
<1>0. /\ Inc(ticket) = TheLock!Inc(ticket) /\ Inc(turn) = TheLock!Inc(turn)
  BY IncWraps DEF TheLock!Inc
<1>1. CASE Take(t)
  <2>1. TheLock!Take(t)
    BY <1>0, <1>1 DEF Take, Goto, TheLock!Take, Where, Inside, Places
  <2>2. QED BY <2>1 DEF TheLock!LockNext
<1>2. CASE Enter(t)
  <2>1. TheLock!Enter(t)
    BY <1>2 DEF Enter, Goto, lockPart, TheLock!Enter, Where, Inside, Places
  <2>2. QED BY <2>1 DEF TheLock!LockNext
<1>3. CASE Leave(t) \/ TsRelease(t)
  <2>1. TheLock!Leave(t)
    BY <1>0, <1>3 DEF Leave, TsRelease, Goto, TheLock!Leave, Where, Inside, Places
  <2>2. QED BY <2>1 DEF TheLock!LockNext
<1>4. CASE TsLock(t) \/ TsSleep(t) \/ Wake(t) \/ Kill(t)
  BY <1>4 DEF TsLock, TsSleep, Wake, Kill, Goto, lockPart, TheLock!lockVars, Where, Inside, Places
<1>5. CASE Die(t)
  <2>1. TheLock!Die(t) \/ UNCHANGED TheLock!lockVars
    BY <1>5 DEF Die, Goto, lockPart, TheLock!Die, TheLock!lockVars, Where, Inside, Places
  <2>2. QED BY <2>1 DEF TheLock!LockNext
<1>6. ASSUME NEW c \in Conds, CvWait(t, c) \/ CvSignal(t, c) PROVE UNCHANGED TheLock!lockVars
  BY <1>6 DEF CvWait, CvSignal, Goto, lockPart, TheLock!lockVars, Where, Inside, Places
<1>7. QED BY <1>1, <1>2, <1>3, <1>4, <1>5, <1>6 DEF CvStep, LibraryStep

\* The program drives the lock of locklib.c as TicketLock describes it.
LEMMA ItsLock == BufSpec => TheLock!LockSpec
<1>1. BufInit => TheLock!LockInit
  BY DEF BufInit, CvInit, TheLock!LockInit, Where, Inside
<1>2. CvTypeOK /\ [BufNext]_vars => [TheLock!LockNext]_(TheLock!lockVars)
  <2> SUFFICES ASSUME CvTypeOK, [BufNext]_vars PROVE [TheLock!LockNext]_(TheLock!lockVars)
    OBVIOUS
  <2>1. CASE UNCHANGED cvVars
    BY <2>1 DEF cvVars, TheLock!lockVars, Where
  <2>2. QED BY <2>1, LibrarySteps, LockStep
<1>3. QED BY <1>1, <1>2, CvTypeInvariance, PTL DEF BufSpec, TheLock!LockSpec

\* What TicketLock asks of its constants is what the library asks of them.
LEMMA LockParameters == TheLock!LockAssumption
<1>1. IsFiniteSet(Threads) /\ Width \in Nat /\ Cardinality(Threads) < Width /\ TRUE \in BOOLEAN
  BY CondAssumption
<1>2. IsFiniteSet(Threads) = TheLock!IsFiniteSet(Threads)
  BY DEF IsFiniteSet, TheLock!IsFiniteSet
<1>3. Cardinality(Threads) = TheLock!Cardinality(Threads)
  BY DEF Cardinality, TheLock!Cardinality
<1>4. QED BY <1>1, <1>2, <1>3

\* One thread at a time is between lock_acquire and the release.
Exclusive == \A t, u \in Threads :
  pc[t] \in Inside \cup {"dead_in"} /\ pc[u] \in Inside \cup {"dead_in"} => t = u

\* From the ticket lock's mutual exclusion.
LEMMA ExclusiveInvariance == BufSpec => []Exclusive
<1>1. TheLock!MutualExclusion => Exclusive
  BY DEF TheLock!MutualExclusion, TheLock!Holders, Where, Exclusive, Inside
<1>2. TheLock!LockSpec => []TheLock!MutualExclusion
  BY LockParameters, TheLock!LockIsExclusive
<1>3. QED BY <1>1, <1>2, ItsLock, PTL

\* The lock of locklib.c, taken by lock_acquire and given back by lock_release or
\* by ticket_sleep in the kernel, goes to the threads in the order of their
\* tickets, also around waits and kills.
THEOREM LibraryLockIsFifo == BufSpec => TheLock!HandedOnInOrder
<1>1. TheLock!LockSpec => TheLock!HandedOnInOrder
  BY LockParameters, TheLock!LockIsFifo
<1>2. QED BY <1>1, ItsLock

-----------------------------------------------------------------------------
(* The buffer. *)

\* Whoever has passed its while loop and still holds the lock finds the buffer
\* as the loop left it.
BufInv ==
  /\ bufsize \in 0..N
  /\ stage \in [Threads -> {"test", "body", "done"}]
  /\ \A t \in Threads : stage[t] = "body" =>
       /\ pc[t] \in {"in", "dead_in"}
       /\ pc[t] = "in" => /\ t \in Producers => bufsize < N
                          /\ t \in Consumers => bufsize > 0

\* Nobody changes the buffer between another thread's test and its change.
LEMMA BufKeeps ==
  ASSUME CvTypeOK, Exclusive, BufInv, [BufNext]_vars PROVE BufInv'
<1> USE DEF BufInv, CvTypeOK
<1>0. N \in Nat /\ N > 0 /\ Producers \cap Consumers = {}
  BY BufferAssumption
<1>1. CASE UNCHANGED vars
  BY <1>1 DEF vars, cvVars, bufVars
<1>2. ASSUME NEW t \in Threads, UNCHANGED bufVars,
             LibraryStep(t) \/ Kill(t) \/ Die(t)
      PROVE  BufInv'
  <2>1. \A u \in Threads : pc[u] \in {"in", "dead_in"} =>
          pc'[u] = pc[u] \/ (pc[u] = "in" /\ pc'[u] = "dead_in")
    BY <1>2 DEF LibraryStep, Take, Enter, TsLock, TsRelease, TsSleep, Wake, Kill, Die, Goto
  <2>2. QED BY <1>2, <2>1 DEF bufVars
<1>3. ASSUME NEW t \in Threads, NEW cond \in BOOLEAN, NEW c, WaitWhile(t, cond, c),
             t \in Producers => cond = (bufsize = N),
             t \in Consumers => cond = (bufsize = 0)
      PROVE  BufInv'
  <2>1. CASE cond
    BY <1>3, <2>1 DEF WaitWhile, CvWait, Goto
  <2>2. CASE ~cond
    BY <1>0, <1>3, <2>2 DEF WaitWhile, cvVars
  <2>3. QED BY <2>1, <2>2
<1>4. ASSUME NEW t \in Threads, NEW size \in 0..N, NEW c, Change(t, size, c) PROVE BufInv'
  <2>1. \A u \in Threads \ {t} : pc[u] # "in" /\ pc'[u] = pc[u]
    BY <1>4 DEF Change, SignalIfAny, CvSignal, Goto, cvVars, Exclusive, Inside
  <2>2. /\ bufsize' = size /\ stage' = [stage EXCEPT ![t] = "done"]
    BY <1>4 DEF Change
  <2>3. QED BY <2>1, <2>2
<1>5. ASSUME NEW t \in Threads, Unlock(t) PROVE BufInv'
  BY <1>5 DEF Unlock, Leave, Goto
<1>6. CASE BufNext
  <2>1. PICK t \in Threads : Step(t) \/ ((Kill(t) \/ Die(t)) /\ UNCHANGED bufVars)
    BY <1>6 DEF BufNext
  <2>2. CASE t \in Producers /\ Produce(t)
    <3>1. CASE WaitWhile(t, bufsize = N, nonfull)
      BY <1>0, <1>3, <2>2, <3>1
    <3>2. CASE Change(t, bufsize + 1, nonempty)
      <4>1. bufsize + 1 \in 0..N
        BY <1>0, <2>2, <3>2 DEF Change
      <4>2. QED BY <1>4, <3>2, <4>1
    <3>3. QED BY <2>2, <3>1, <3>2 DEF Produce
  <2>3. CASE t \in Consumers /\ Consume(t)
    <3>1. CASE WaitWhile(t, bufsize = 0, nonempty)
      BY <1>0, <1>3, <2>3, <3>1
    <3>2. CASE Change(t, bufsize - 1, nonfull)
      <4>1. bufsize - 1 \in 0..N
        BY <1>0, <2>3, <3>2 DEF Change
      <4>2. QED BY <1>4, <3>2, <4>1
    <3>3. QED BY <2>3, <3>1, <3>2 DEF Consume
  <2>4. QED BY <1>2, <1>5, <2>1, <2>2, <2>3 DEF Step
<1>7. QED BY <1>1, <1>6

\* The buffer of race.c never overflows or underflows, however its producers and
\* consumers wait in cv_wait, are woken by cv_signal, or are killed.
THEOREM BufferStaysInBounds == BufSpec => []BufferBounds
<1>1. BufInit => BufInv
  BY BufferAssumption DEF BufInit, BufInv
<1>2. CvTypeOK /\ Exclusive /\ BufInv /\ [BufNext]_vars => BufInv'
  BY BufKeeps
<1>3. BufInv => BufferBounds
  BY DEF BufInv, BufferBounds
<1>4. QED BY <1>1, <1>2, <1>3, CvTypeInvariance, ExclusiveInvariance, PTL DEF BufSpec

-----------------------------------------------------------------------------
(* The queues. *)

\* The slots of c's queue from head up to tail, around the end of the array.
Held(c) == {j \in QueueSlots :
  IF head[c] <= tail[c] THEN head[c] <= j /\ j < tail[c] ELSE head[c] <= j \/ j < tail[c]}

\* ticket_sleep holds ptable.lock from acquire to sched, and a pid taken by
\* cv_signal is in hand until wake.
SleepPhases == \A t \in Threads :
  /\ pc[t] \in {"ts_release", "ts_sleep"} => klock = t
  /\ tgt[t] # None => pc[t] \in {"sig", "dead_in"}

\* Whoever is in a queue has not come back from cv_wait, and never will if killed.
Entries == \A c \in Conds : \A j \in Held(c) :
  /\ queue[c][j] \in Threads
  /\ \/ Waiting(queue[c][j])
     \/ killed[queue[c][j]] /\ pc[queue[c][j]] \in {"woken", "gone", "dead_in"}

\* No thread is in the queues twice, nor while somebody has its pid in hand.
Once ==
  /\ \A c, d \in Conds : \A i \in Held(c), j \in Held(d) :
       queue[c][i] = queue[d][j] => c = d /\ i = j
  /\ \A c \in Conds : \A j \in Held(c) : \A u \in Threads : tgt[u] # queue[c][j]

\* Whoever waits has a wake-up to come.
Caused == \A t \in Threads : Waiting(t) =>
  \/ \E c \in Conds : \E j \in Held(c) : queue[c][j] = t
  \/ \E u \in Threads : tgt[u] = t

QueueInv == SleepPhases /\ Entries /\ Once /\ Caused

\* How many threads are in the array, and in which slot the i-th of them is.
Count(c) == IF head[c] <= tail[c] THEN tail[c] - head[c] ELSE tail[c] - head[c] + QSize

Slot(c, i) == IF head[c] + i - 1 < QSize THEN head[c] + i - 1 ELSE head[c] + i - 1 - QSize

\* The line is read off the circular array, slot after slot.
ReadOff == \A c \in Conds :
  /\ Count(c) \in 0..(QSize - 1)
  /\ Line(c) = [i \in 1..Count(c) |-> queue[c][Slot(c, i)]]
  /\ \A i \in 1..Count(c) : Slot(c, i) \in Held(c)

\* Line, computed with %, is what the two pointers say.
LEMMA LineShape == CvTypeOK => ReadOff
<1> SUFFICES ASSUME CvTypeOK, NEW c \in Conds
             PROVE  /\ Count(c) \in 0..(QSize - 1)
                    /\ Line(c) = [i \in 1..Count(c) |-> queue[c][Slot(c, i)]]
                    /\ \A i \in 1..Count(c) : Slot(c, i) \in Held(c)
  BY DEF ReadOff
<1>1. /\ head[c] \in QueueSlots /\ tail[c] \in QueueSlots /\ QSize \in Nat /\ QSize > 1
  BY Sizes DEF CvTypeOK
<1>2. (tail[c] - head[c] + QSize) % QSize = Count(c)
  <2>1. CASE head[c] <= tail[c]
    <3>1. tail[c] - head[c] + QSize \in QSize..(2 * QSize - 1)
      BY <1>1, <2>1 DEF QueueSlots
    <3>2. PICK a \in QSize..(2 * QSize - 1) : a = tail[c] - head[c] + QSize
      BY <3>1
    <3>3. a % QSize = a - QSize
      BY <1>1, Modulo
    <3>4. QED BY <1>1, <2>1, <3>2, <3>3 DEF QueueSlots, Count
  <2>2. CASE ~(head[c] <= tail[c])
    <3>1. tail[c] - head[c] + QSize \in 0..(QSize - 1)
      BY <1>1, <2>2 DEF QueueSlots
    <3>2. QED BY <1>1, <2>2, <3>1, Modulo DEF Count
  <2>3. QED BY <2>1, <2>2
<1>3. Count(c) \in 0..(QSize - 1)
  BY <1>1 DEF QueueSlots, Count
<1>4. \A i \in 1..Count(c) : Slot(c, i) \in Held(c)
  BY <1>1 DEF QueueSlots, Count, Slot, Held
<1>5. \A i \in 1..Count(c) : (head[c] + i - 1) % QSize = Slot(c, i)
  <2> SUFFICES ASSUME NEW i \in 1..Count(c) PROVE (head[c] + i - 1) % QSize = Slot(c, i)
    OBVIOUS
  <2>1. i \in Int /\ 1 <= i /\ i <= QSize - 1
    BY <1>1, <1>3
  <2>2. CASE head[c] + i - 1 < QSize
    <3>1. head[c] + i - 1 \in 0..(QSize - 1)
      BY <1>1, <2>1, <2>2 DEF QueueSlots
    <3>2. QED BY <1>1, <2>2, <3>1, Modulo DEF Slot
  <2>3. CASE ~(head[c] + i - 1 < QSize)
    <3>1. PICK a \in QSize..(2 * QSize - 1) : a = head[c] + i - 1
      BY <1>1, <2>1, <2>3 DEF QueueSlots
    <3>2. a % QSize = a - QSize
      BY <1>1, Modulo
    <3>3. QED BY <1>1, <2>1, <2>3, <3>1, <3>2 DEF Slot, QueueSlots
  <2>4. QED BY <2>2, <2>3
<1>6. QED BY <1>2, <1>3, <1>4, <1>5 DEF Line

\* Whoever is in the array is in the line.
LEMMA HeldIsLine ==
  ASSUME CvTypeOK, NEW c \in Conds, NEW j \in Held(c)
  PROVE  \E i \in DOMAIN Line(c) : Line(c)[i] = queue[c][j]
<1>1. /\ head[c] \in QueueSlots /\ tail[c] \in QueueSlots /\ j \in QueueSlots
      /\ QSize \in Nat /\ QSize > 1
  BY Sizes DEF CvTypeOK, Held
<1> DEFINE i == IF head[c] <= j THEN j - head[c] + 1 ELSE j - head[c] + QSize + 1
<1>2. i \in 1..Count(c) /\ Slot(c, i) = j
  BY <1>1 DEF Held, QueueSlots, Count, Slot
<1>3. QED BY <1>2, LineShape DEF ReadOff

\* A waiter can always enter: there are fewer threads than slots, and each is in
\* the queue at most once.
LEMMA Room ==
  ASSUME CvTypeOK, QueueInv, NEW t \in Threads, pc[t] = "in", NEW c \in Conds
  PROVE  (tail[c] + 1) % QSize # head[c]
<1>1. SUFFICES ASSUME (tail[c] + 1) % QSize = head[c] PROVE FALSE
  OBVIOUS
<1>2. /\ head[c] \in QueueSlots /\ tail[c] \in QueueSlots /\ QSize \in Nat /\ QSize > 1
  BY Sizes DEF CvTypeOK
<1>3. head[c] = IF tail[c] = QSize - 1 THEN 0 ELSE tail[c] + 1
  BY <1>1, <1>2, NextSlot
<1>4. Held(c) = QueueSlots \ {tail[c]}
  BY <1>2, <1>3 DEF Held, QueueSlots
<1>5. IsFiniteSet(Held(c)) /\ Cardinality(Held(c)) = QSize - 1
  <2>1. IsFiniteSet(QueueSlots) /\ Cardinality(QueueSlots) = QSize
    BY <1>2, FS_Interval DEF QueueSlots
  <2>2. QED BY <1>2, <1>4, <2>1, FS_RemoveElement
<1>6. /\ IsFiniteSet(Threads \ {t}) 
      /\ Cardinality(Threads \ {t}) = Cardinality(Threads) - 1
      /\ Cardinality(Threads) \in Nat
  BY CondAssumption, FS_RemoveElement, FS_CardinalityType
<1>7. Cardinality(Threads \ {t}) < Cardinality(Held(c))
  BY <1>2, <1>5, <1>6, BufferAssumption, CondAssumption
<1> DEFINE f == [j \in Held(c) |-> queue[c][j]]
<1>8. f \in [Held(c) -> Threads \ {t}]
  BY DEF QueueInv, Entries, Waiting
<1>9. \E i, j \in Held(c) : i # j /\ f[i] = f[j]
  <2> HIDE DEF f
  <2>1. QED BY <1>5, <1>6, <1>7, <1>8, FS_PigeonHole
<1>10. QED BY <1>9 DEF QueueInv, Once

\* cv_wait adds one slot at the tail.
LEMMA HeldGrows ==
  ASSUME CvTypeOK, NEW c \in Conds, (tail[c] + 1) % QSize # head[c],
         head' = head, tail' = [tail EXCEPT ![c] = (@ + 1) % QSize]
  PROVE  /\ tail[c] \notin Held(c) /\ tail[c] \in QueueSlots
         /\ Held(c)' = Held(c) \cup {tail[c]}
         /\ \A d \in Conds \ {c} : Held(d)' = Held(d)
<1>1. /\ head[c] \in QueueSlots /\ tail[c] \in QueueSlots /\ QSize \in Nat /\ QSize > 1
  BY Sizes DEF CvTypeOK
<1>2. tail'[c] = IF tail[c] = QSize - 1 THEN 0 ELSE tail[c] + 1
  BY <1>1, NextSlot DEF CvTypeOK
<1>3. tail'[c] # head[c]
  BY DEF CvTypeOK
<1>4. tail[c] \notin Held(c)
  BY <1>1 DEF Held, QueueSlots
<1>5. Held(c)' = Held(c) \cup {tail[c]}
  <2>1. Held(c)' = {j \in QueueSlots :
          IF head[c] <= tail'[c] THEN head[c] <= j /\ j < tail'[c] ELSE head[c] <= j \/ j < tail'[c]}
    BY DEF Held
  <2>2. QED BY <1>1, <1>2, <1>3, <2>1 DEF Held, QueueSlots
<1>6. \A d \in Conds \ {c} : Held(d)' = Held(d)
  BY DEF Held, CvTypeOK
<1>7. QED BY <1>1, <1>4, <1>5, <1>6

\* cv_signal takes the slot at the head away.
LEMMA HeldShrinks ==
  ASSUME CvTypeOK, NEW c \in Conds, head[c] # tail[c],
         tail' = tail, head' = [head EXCEPT ![c] = (@ + 1) % QSize]
  PROVE  /\ head[c] \in Held(c)
         /\ Held(c)' = Held(c) \ {head[c]}
         /\ \A d \in Conds \ {c} : Held(d)' = Held(d)
<1>1. /\ head[c] \in QueueSlots /\ tail[c] \in QueueSlots /\ QSize \in Nat /\ QSize > 1
  BY Sizes DEF CvTypeOK
<1>2. head'[c] = IF head[c] = QSize - 1 THEN 0 ELSE head[c] + 1
  BY <1>1, NextSlot DEF CvTypeOK
<1>4. head[c] \in Held(c)
  BY <1>1 DEF Held, QueueSlots
<1>5. Held(c)' = Held(c) \ {head[c]}
  <2>1. Held(c)' = {j \in QueueSlots :
          IF head'[c] <= tail[c] THEN head'[c] <= j /\ j < tail[c] ELSE head'[c] <= j \/ j < tail[c]}
    BY DEF Held
  <2>2. QED BY <1>1, <1>2, <2>1 DEF Held, QueueSlots
<1>6. \A d \in Conds \ {c} : Held(d)' = Held(d)
  BY DEF Held, CvTypeOK
<1>7. QED BY <1>4, <1>5, <1>6

\* cv_init leaves every queue empty.
LEMMA QueueInitially == BufInit => QueueInv
<1> SUFFICES ASSUME BufInit PROVE QueueInv
  OBVIOUS
<1>1. \A c \in Conds : Held(c) = {}
  BY DEF BufInit, CvInit, Held, QueueSlots
<1>2. QED
  BY <1>1 DEF BufInit, CvInit, QueueInv, SleepPhases, Entries, Once, Caused, Waiting

\* A step that leaves the condition variables alone.
LEMMA QueueUnmoved ==
  ASSUME CvTypeOK, Exclusive, QueueInv, NEW t \in Threads,
         LibraryStep(t) \/ Leave(t) \/ Kill(t) \/ Die(t), ~Wake(t)
  PROVE  QueueInv'
<1> USE DEF QueueInv, CvTypeOK
<1>1. /\ UNCHANGED <<condPart, tgt>> /\ \A c \in Conds : Held(c)' = Held(c)
  BY DEF LibraryStep, Take, Enter, Leave, TsLock, TsRelease, TsSleep, Kill, Die, Held, condPart
<1>2. UNCHANGED <<head, tail, queue, tgt>>
  BY <1>1 DEF condPart
<1>3. SleepPhases'
  <2>1. CASE Take(t) \/ Enter(t) \/ Leave(t)
    BY <1>2, <2>1 DEF SleepPhases, Take, Enter, Leave, Goto
  <2>2. CASE TsLock(t)
    BY <1>2, <2>2, CondAssumption DEF SleepPhases, TsLock, Goto
  <2>3. CASE TsRelease(t)
    BY <1>2, <2>3 DEF SleepPhases, TsRelease, Goto
  <2>4. CASE TsSleep(t)
    BY <1>2, <2>4 DEF SleepPhases, TsSleep, Goto
  <2>5. CASE Kill(t) \/ Die(t)
    BY <1>2, <2>5 DEF SleepPhases, Kill, Die, Goto
  <2>6. QED BY <2>1, <2>2, <2>3, <2>4, <2>5 DEF LibraryStep
<1>4. \A u \in Threads : Waiting(u)' => Waiting(u)
  BY DEF Waiting, LibraryStep, Take, Enter, Leave, TsLock, TsRelease, TsSleep, Kill, Die, Goto
<1>5. \A u \in Threads :
        Waiting(u) \/ (killed[u] /\ pc[u] \in {"woken", "gone", "dead_in"})
        => (Waiting(u) \/ (killed[u] /\ pc[u] \in {"woken", "gone", "dead_in"}))'
  BY DEF Waiting, LibraryStep, Take, Enter, Leave, TsLock, TsRelease, TsSleep, Kill, Die, Goto
<1>6. Entries'
  BY <1>1, <1>2, <1>5 DEF Entries
<1>7. Once'
  BY <1>1, <1>2 DEF Once
<1>8. Caused'
  BY <1>1, <1>2, <1>4 DEF Caused
<1>9. QED BY <1>3, <1>6, <1>7, <1>8

\* wake finds the thread it is called for asleep: that thread gave the lock away
\* under ptable.lock, which wake has to take.
LEMMA QueueWake ==
  ASSUME CvTypeOK, Exclusive, QueueInv, NEW t \in Threads, Wake(t)
  PROVE  QueueInv'
<1> USE DEF QueueInv, CvTypeOK
<1>1. /\ pc[t] = "sig" /\ klock = None
      /\ pc' = [u \in Threads |-> IF u = t THEN "in"
                  ELSE IF u = tgt[t] /\ pc[u] = "asleep" THEN "woken" ELSE pc[u]]
      /\ tgt' = [tgt EXCEPT ![t] = None]
      /\ UNCHANGED <<head, tail, queue, klock, killed>>
      /\ \A c \in Conds : Held(c)' = Held(c)
  BY DEF Wake, condPart, Held
<1>2. SleepPhases'
  BY <1>1 DEF SleepPhases
<1>3. \A u \in Threads : tgt[t] = u => ~Waiting(u)'
  <2> SUFFICES ASSUME NEW u \in Threads, tgt[t] = u, Waiting(u)' PROVE FALSE
    OBVIOUS
  <2>1. u # t /\ pc[u] \in {"ts_lock", "ts_release", "ts_sleep"}
    BY <1>1 DEF Waiting
  <2>2. pc[u] # "ts_sleep"
    BY <1>1, CondAssumption DEF SleepPhases
  <2>3. QED BY <1>1, <2>1, <2>2 DEF Exclusive, Inside
<1>4. Entries'
  <2>1. \A c \in Conds : \A j \in Held(c) : queue[c][j] # tgt[t] /\ queue[c][j] # t
    BY <1>1 DEF Once, Entries, Waiting
  <2>2. QED BY <1>1, <2>1 DEF Entries, Waiting
<1>5. Once'
  <2>1. \A c \in Conds : \A j \in Held(c) : \A u \in Threads : tgt'[u] # queue[c][j]
    BY <1>1, CondAssumption DEF Once, Entries
  <2>2. QED BY <1>1, <2>1 DEF Once
<1>6. Caused'
  <2> SUFFICES ASSUME NEW u \in Threads, Waiting(u)'
               PROVE  \/ \E c \in Conds : \E j \in Held(c) : queue[c][j] = u
                      \/ \E v \in Threads : tgt'[v] = u
    BY <1>1 DEF Caused
  <2>1. Waiting(u) /\ tgt[t] # u
    BY <1>1, <1>3 DEF Waiting
  <2>2. QED BY <1>1, <2>1 DEF Caused
<1>7. QED BY <1>2, <1>4, <1>5, <1>6

\* cv_wait enters a thread that is in no queue, at a slot that is free.
LEMMA QueueWait ==
  ASSUME CvTypeOK, Exclusive, QueueInv, NEW t \in Threads, NEW c \in Conds, CvWait(t, c)
  PROVE  QueueInv'
<1> USE DEF QueueInv, CvTypeOK
<1>1. /\ pc[t] = "in" /\ pc' = [pc EXCEPT ![t] = "ts_lock"]
      /\ queue' = [queue EXCEPT ![c][tail[c]] = t]
      /\ tail' = [tail EXCEPT ![c] = (@ + 1) % QSize]
      /\ UNCHANGED <<head, klock, tgt, killed>>
  BY DEF CvWait, Goto
<1>2. /\ tail[c] \notin Held(c) /\ tail[c] \in QueueSlots
      /\ Held(c)' = Held(c) \cup {tail[c]}
      /\ \A d \in Conds \ {c} : Held(d)' = Held(d)
  BY <1>1, Room, HeldGrows
<1>3. /\ queue'[c][tail[c]] = t
      /\ \A d \in Conds : \A j \in Held(d) : queue'[d][j] = queue[d][j]
  BY <1>1, <1>2 DEF Held
<1>4. \A d \in Conds : \A j \in Held(d) : queue[d][j] \in Threads \ {t}
  <2>1. ~Waiting(t) /\ pc[t] \notin {"woken", "gone", "dead_in"}
    BY <1>1 DEF Waiting
  <2>2. QED BY <2>1 DEF Entries
<1>5. \A u \in Threads : tgt[u] # t
  <2>1. SUFFICES ASSUME NEW u \in Threads, tgt[u] = t PROVE FALSE
    OBVIOUS
  <2>2. pc[u] \in {"sig", "dead_in"}
    BY <2>1, CondAssumption DEF SleepPhases
  <2>3. QED BY <1>1, <2>2 DEF Exclusive, Inside
<1>6. \A d \in Conds : \A j \in Held(d)' :
        \/ j \in Held(d) /\ queue'[d][j] = queue[d][j]
        \/ d = c /\ j = tail[c] /\ queue'[d][j] = t
  <2> SUFFICES ASSUME NEW d \in Conds, NEW j \in Held(d)'
               PROVE  \/ j \in Held(d) /\ queue'[d][j] = queue[d][j]
                      \/ d = c /\ j = tail[c] /\ queue'[d][j] = t
    OBVIOUS
  <2>1. CASE d = c
    BY <1>2, <1>3, <2>1
  <2>2. CASE d # c
    BY <1>2, <1>3, <2>2
  <2>3. QED BY <2>1, <2>2
<1>7. SleepPhases'
  BY <1>1 DEF SleepPhases
<1>8. Entries'
  <2>1. Waiting(t)' /\ \A u \in Threads \ {t} : pc'[u] = pc[u]
    BY <1>1 DEF Waiting
  <2>2. QED BY <1>1, <1>4, <1>6, <2>1 DEF Entries, Waiting
<1>9. Once'
  <2>1. ASSUME NEW d \in Conds, NEW e \in Conds, NEW i \in Held(d)', NEW j \in Held(e)',
               queue'[d][i] = queue'[e][j]
        PROVE  d = e /\ i = j
    <3>1. \/ i \in Held(d) /\ queue'[d][i] = queue[d][i] /\ queue[d][i] # t
          \/ d = c /\ i = tail[c] /\ queue'[d][i] = t
      BY <1>4, <1>6
    <3>2. \/ j \in Held(e) /\ queue'[e][j] = queue[e][j] /\ queue[e][j] # t
          \/ e = c /\ j = tail[c] /\ queue'[e][j] = t
      BY <1>4, <1>6
    <3>3. QED BY <2>1, <3>1, <3>2 DEF Once
  <2>2. \A d \in Conds : \A j \in Held(d)' : \A u \in Threads : tgt[u] # queue'[d][j]
    BY <1>5, <1>6 DEF Once
  <2>3. QED BY <1>1, <2>1, <2>2 DEF Once
<1>10. Caused'
  <2> SUFFICES ASSUME NEW u \in Threads, Waiting(u)'
               PROVE  \/ \E d \in Conds : \E j \in Held(d)' : queue'[d][j] = u
                      \/ \E v \in Threads : tgt[v] = u
    BY <1>1 DEF Caused
  <2>1. CASE u = t
    BY <1>2, <1>3, <2>1
  <2>2. CASE u # t
    <3>1. Waiting(u)
      BY <1>1, <2>2 DEF Waiting
    <3>2. \A d \in Conds : Held(d) \subseteq Held(d)'
      BY <1>2
    <3>3. QED BY <1>3, <3>1, <3>2 DEF Caused
  <2>3. QED BY <2>1, <2>2
<1>11. QED BY <1>7, <1>8, <1>9, <1>10

\* cv_signal takes a pid out of the queue and has it in hand.
LEMMA QueueSignal ==
  ASSUME CvTypeOK, Exclusive, QueueInv, NEW t \in Threads, NEW c \in Conds, CvSignal(t, c)
  PROVE  QueueInv'
<1> USE DEF QueueInv, CvTypeOK
<1>1. /\ pc[t] = "in" /\ pc' = [pc EXCEPT ![t] = "sig"] /\ head[c] # tail[c]
      /\ tgt' = [tgt EXCEPT ![t] = queue[c][head[c]]]
      /\ queue' = [queue EXCEPT ![c][head[c]] = None]
      /\ head' = [head EXCEPT ![c] = (@ + 1) % QSize]
      /\ UNCHANGED <<tail, klock, killed>>
  BY DEF CvSignal, Goto, Empty
<1>2. /\ head[c] \in Held(c)
      /\ Held(c)' = Held(c) \ {head[c]}
      /\ \A d \in Conds \ {c} : Held(d)' = Held(d)
  BY <1>1, HeldShrinks
<1>3. \A d \in Conds : \A j \in Held(d)' :
        j \in Held(d) /\ queue'[d][j] = queue[d][j] /\ queue[d][j] # queue[c][head[c]]
  BY <1>1, <1>2 DEF Once, Held
<1>4. \A d \in Conds : \A j \in Held(d) : j \in Held(d)' \/ (d = c /\ j = head[c])
  BY <1>2
<1>5. tgt[t] = None
  BY <1>1 DEF SleepPhases
<1>6. \A u \in Threads : Waiting(u)' <=> Waiting(u)
  BY <1>1 DEF Waiting
<1>7. SleepPhases'
  BY <1>1 DEF SleepPhases
<1>8. Entries'
  BY <1>1, <1>3, <1>6 DEF Entries
<1>9. Once'
  <2>1. \A d, e \in Conds : \A i \in Held(d)', j \in Held(e)' :
          queue'[d][i] = queue'[e][j] => d = e /\ i = j
    BY <1>3 DEF Once
  <2>2. \A d \in Conds : \A j \in Held(d)' : \A u \in Threads : tgt'[u] # queue'[d][j]
    BY <1>1, <1>3 DEF Once
  <2>3. QED BY <2>1, <2>2 DEF Once
<1>10. Caused'
  <2> SUFFICES ASSUME NEW u \in Threads, Waiting(u)
               PROVE  \/ \E d \in Conds : \E j \in Held(d)' : queue'[d][j] = u
                      \/ \E v \in Threads : tgt'[v] = u
    BY <1>6 DEF Caused
  <2>1. CASE u = queue[c][head[c]]
    BY <1>1, <2>1
  <2>2. CASE u # queue[c][head[c]] /\ \E d \in Conds : \E j \in Held(d) : queue[d][j] = u
    BY <1>3, <1>4, <2>2
  <2>3. CASE \E v \in Threads : tgt[v] = u
    BY <1>1, <1>5, <2>3, CondAssumption
  <2>4. QED BY <2>1, <2>2, <2>3 DEF Caused
<1>11. QED BY <1>7, <1>8, <1>9, <1>10

\* The queue invariant holds throughout.
LEMMA QueueInvariance == BufSpec => []QueueInv
<1>1. CvTypeOK /\ Exclusive /\ QueueInv /\ [BufNext]_vars => QueueInv'
  <2> SUFFICES ASSUME CvTypeOK, Exclusive, QueueInv, [BufNext]_vars PROVE QueueInv'
    OBVIOUS
  <2>1. CASE UNCHANGED cvVars
    BY <2>1 DEF cvVars, QueueInv, SleepPhases, Entries, Once, Caused, Waiting, Held
  <2>2. ASSUME NEW t \in Threads, CvStep(t) PROVE QueueInv'
    BY <2>2, QueueUnmoved, QueueWake, QueueWait, QueueSignal DEF CvStep
  <2>3. QED BY <2>1, <2>2, LibrarySteps
<1>2. QED BY <1>1, QueueInitially, CvTypeInvariance, ExclusiveInvariance, PTL DEF BufSpec

\* No wake-up is lost between cv_wait, ticket_sleep and cv_signal: as long as a
\* thread has not come back, its pid is in a queue or in the hand of a signaller.
THEOREM NoWakeUpIsLost == BufSpec => []NoLostWaiter
<1>1. CvTypeOK /\ QueueInv => NoLostWaiter
  <2> SUFFICES ASSUME CvTypeOK, QueueInv PROVE NoLostWaiter
    OBVIOUS
  <2>1. QED BY HeldIsLine DEF QueueInv, Caused, NoLostWaiter
<1>2. QED BY <1>1, CvTypeInvariance, QueueInvariance, PTL

-----------------------------------------------------------------------------
(* The monitor. *)

\* What the queue invariant says of whoever is in a queue.
Reached(u) == Waiting(u) \/ (killed[u] /\ pc[u] \in {"woken", "gone", "dead_in"})

\* The line is a sequence of threads that have called cv_wait.
LEMMA LineHolds ==
  ASSUME CvTypeOK, QueueInv, NEW c \in Conds
  PROVE  /\ Line(c) \in Seq(Threads) /\ Len(Line(c)) = Count(c) /\ Count(c) \in Nat
         /\ \A i \in 1..Count(c) : Line(c)[i] = queue[c][Slot(c, i)] /\ Reached(Line(c)[i])
<1>1. /\ Count(c) \in Nat
      /\ Line(c) = [i \in 1..Count(c) |-> queue[c][Slot(c, i)]]
      /\ \A i \in 1..Count(c) : Slot(c, i) \in Held(c)
  BY LineShape, Sizes DEF ReadOff
<1>2. \A i \in 1..Count(c) : queue[c][Slot(c, i)] \in Threads /\ Reached(queue[c][Slot(c, i)])
  BY <1>1 DEF QueueInv, Entries, Reached
<1>3. Line(c) \in [1..Count(c) -> Threads]
  BY <1>1, <1>2
<1>4. QED BY <1>1, <1>2, <1>3

\* cv_wait appends to the line of its condition.
LEMMA LineGrows ==
  ASSUME CvTypeOK, CvTypeOK', QueueInv, NEW t \in Threads, NEW c \in Conds, CvWait(t, c)
  PROVE  /\ Line(c)' = Append(Line(c), t)
         /\ \A d \in Conds \ {c} : Line(d)' = Line(d)
<1>1. /\ head[c] \in QueueSlots /\ tail[c] \in QueueSlots /\ tail'[c] \in QueueSlots
      /\ QSize \in Nat /\ QSize > 1
  BY Sizes DEF CvTypeOK
<1>2. /\ pc[t] = "in" /\ head' = head /\ tail' = [tail EXCEPT ![c] = (@ + 1) % QSize]
      /\ queue' = [queue EXCEPT ![c][tail[c]] = t]
  BY DEF CvWait
<1>3. (tail[c] + 1) % QSize # head[c]
  BY <1>2, Room
<1>4. tail[c] \notin Held(c) /\ Held(c)' = Held(c) \cup {tail[c]}
  BY <1>2, <1>3, HeldGrows
<1>5. tail'[c] = IF tail[c] = QSize - 1 THEN 0 ELSE tail[c] + 1
  BY <1>2, NextSlot DEF CvTypeOK
<1>6. Count(c)' = Count(c) + 1 /\ Slot(c, Count(c) + 1) = tail[c] /\ Count(c) \in Nat
  <2>1. tail'[c] # head[c]
    BY <1>2, <1>3 DEF CvTypeOK
  <2>2. head'[c] = head[c]
    BY <1>2
  <2>3. QED BY <1>1, <1>5, <2>1, <2>2 DEF Count, Slot, QueueSlots
<1>7. \A i : Slot(c, i)' = Slot(c, i)
  BY <1>2 DEF Slot
<1>8. ReadOff'
  BY LineShape, PTL
<1>9. Line(c)' = [i \in 1..(Count(c) + 1) |-> queue'[c][Slot(c, i)]]
  BY <1>6, <1>7, <1>8 DEF ReadOff
<1>10. queue'[c][tail[c]] = t /\ \A j \in Held(c) : queue'[c][j] = queue[c][j]
  BY <1>2, <1>4 DEF CvTypeOK, Held, QueueSlots
<1>11. \A i \in 1..Count(c) : queue'[c][Slot(c, i)] = Line(c)[i]
  BY <1>10, LineShape, LineHolds DEF ReadOff
<1>12. Line(c)' = Append(Line(c), t)
  <2>1. Line(c) \in Seq(Threads) /\ Len(Line(c)) = Count(c)
    BY LineHolds
  <2>2. /\ Append(Line(c), t) \in Seq(Threads) /\ Len(Append(Line(c), t)) = Count(c) + 1
        /\ \A i \in 1..Count(c) : Append(Line(c), t)[i] = Line(c)[i]
        /\ Append(Line(c), t)[Count(c) + 1] = t
    BY <2>1, AppendProperties
  <2>3. \A i \in 1..(Count(c) + 1) : Line(c)'[i] = Append(Line(c), t)[i]
    BY <1>6, <1>9, <1>10, <1>11, <2>2
  <2>4. Line(c)' \in [1..(Count(c) + 1) -> Threads]
    BY <1>6, <1>9, <2>2, <2>3, ElementOfSeq
  <2>5. Line(c)' \in Seq(Threads) /\ Len(Line(c)') = Count(c) + 1
    BY <1>6, <2>4
  <2>6. QED BY <2>2, <2>3, <2>5, SeqEqual
<1>13. \A d \in Conds \ {c} : Line(d)' = Line(d)
  BY <1>2 DEF Line, CvTypeOK
<1>14. QED BY <1>12, <1>13

\* cv_signal takes the head of it.
LEMMA LineShrinks ==
  ASSUME CvTypeOK, CvTypeOK', QueueInv, NEW t \in Threads, NEW c \in Conds, CvSignal(t, c)
  PROVE  /\ Line(c) # <<>> /\ Line(c)' = Tail(Line(c))
         /\ \A d \in Conds \ {c} : Line(d)' = Line(d)
<1>1. /\ head[c] \in QueueSlots /\ tail[c] \in QueueSlots /\ head'[c] \in QueueSlots
      /\ QSize \in Nat /\ QSize > 1
  BY Sizes DEF CvTypeOK
<1>2. /\ head[c] # tail[c] /\ tail' = tail /\ head' = [head EXCEPT ![c] = (@ + 1) % QSize]
      /\ queue' = [queue EXCEPT ![c][head[c]] = None]
  BY DEF CvSignal, Empty
<1>3. head'[c] = IF head[c] = QSize - 1 THEN 0 ELSE head[c] + 1
  BY <1>2, NextSlot DEF CvTypeOK
<1>4. Count(c)' = Count(c) - 1 /\ Count(c) \in 1..(QSize - 1)
  <2>1. tail'[c] = tail[c]
    BY <1>2
  <2>2. QED BY <1>1, <1>2, <1>3, <2>1 DEF Count, QueueSlots
<1>5. \A i \in 1..(Count(c) - 1) : Slot(c, i)' = Slot(c, i + 1) /\ Slot(c, i + 1) # head[c]
  BY <1>1, <1>3, <1>4 DEF Slot, QueueSlots
<1>6. ReadOff'
  BY LineShape, PTL
<1>7. Line(c)' = [i \in 1..(Count(c) - 1) |-> queue'[c][Slot(c, i)']]
  BY <1>4, <1>6 DEF ReadOff
<1>8. \A i \in 1..(Count(c) - 1) : queue'[c][Slot(c, i)'] = Line(c)[i + 1]
  <2> SUFFICES ASSUME NEW i \in 1..(Count(c) - 1) PROVE queue'[c][Slot(c, i)'] = Line(c)[i + 1]
    OBVIOUS
  <2>1. i + 1 \in 1..Count(c)
    BY <1>4
  <2>2. Slot(c, i + 1) \in Held(c) /\ Line(c)[i + 1] = queue[c][Slot(c, i + 1)]
    BY <2>1, LineShape, LineHolds DEF ReadOff
  <2>3. Slot(c, i + 1) \in QueueSlots
    BY <2>2 DEF Held
  <2>4. QED BY <1>2, <1>5, <2>2, <2>3 DEF CvTypeOK
<1>9. Line(c) \in Seq(Threads) /\ Len(Line(c)) = Count(c) /\ Line(c) # <<>>
  <2>1. Line(c) \in Seq(Threads) /\ Len(Line(c)) = Count(c)
    BY LineHolds
  <2>2. QED BY <1>4, <2>1
<1>10. Line(c)' = Tail(Line(c))
  <2>1. /\ Tail(Line(c)) \in Seq(Threads) /\ Len(Tail(Line(c))) = Count(c) - 1
        /\ \A i \in 1..(Count(c) - 1) : Tail(Line(c))[i] = Line(c)[i + 1]
    BY <1>4, <1>9, HeadTailProperties
  <2>2. \A i \in 1..(Count(c) - 1) : Line(c)'[i] = Tail(Line(c))[i]
    BY <1>7, <1>8, <2>1
  <2>3. Line(c)' \in [1..(Count(c) - 1) -> Threads]
    BY <1>7, <2>1, <2>2, ElementOfSeq
  <2>4. Line(c)' \in Seq(Threads) /\ Len(Line(c)') = Count(c) - 1
    BY <1>4, <2>3
  <2>5. QED BY <2>1, <2>2, <2>4, SeqEqual
<1>11. \A d \in Conds \ {c} : Line(d)' = Line(d)
  BY <1>2 DEF Line, CvTypeOK
<1>12. QED BY <1>9, <1>10, <1>11

\* Who joins a line does so inside, and nobody joins it before he is out.
InsideIsLast == \A c \in Conds : \A i \in 1..Len(Line(c)) :
  StillIn(Line(c)[i]) => i = Len(Line(c))

\* Who keeps the lock, alive or dead.
Keeps(t) == pc[t] \in Inside \cup {"dead_in"}

\* Some line shows the thread.
InLine(u) == \E c \in Conds : \E i \in 1..Len(Line(c)) : Line(c)[i] = u

\* A line that does not move shows the same threads, while those in it stay in or out.
LEMMA LineRests ==
  ASSUME CvTypeOK, QueueInv, InsideIsLast,
         \A c \in Conds : Line(c)' = Line(c),
         \A u \in Threads : InLine(u) => (StillIn(u)' <=> StillIn(u))
  PROVE  InsideIsLast' /\ \A c \in Conds : LeftFor(c)' = LeftFor(c)
<1>1. \A c \in Conds : \A i \in 1..Len(Line(c)) :
        Line(c)[i] \in Threads /\ (pc'[Line(c)[i]] \in {"ts_lock", "ts_release", "dead_in"}
                                    <=> StillIn(Line(c)[i]))
  <2> SUFFICES ASSUME NEW c \in Conds, NEW i \in 1..Len(Line(c))
               PROVE  Line(c)[i] \in Threads
                      /\ (pc'[Line(c)[i]] \in {"ts_lock", "ts_release", "dead_in"}
                           <=> StillIn(Line(c)[i]))
    OBVIOUS
  <2>1. Line(c)[i] \in Threads
    BY LineHolds, ElementOfSeq
  <2>2. QED BY <2>1 DEF InLine, StillIn
<1>2. InsideIsLast'
  BY <1>1 DEF InsideIsLast, StillIn
<1>3. \A c \in Conds : LeftFor(c)' = LeftFor(c)
  <2> SUFFICES ASSUME NEW c \in Conds PROVE LeftFor(c)' = LeftFor(c)
    OBVIOUS
  <2>1. Len(Line(c)) > 0 => Len(Line(c)) \in 1..Len(Line(c))
    BY LineHolds
  <2>2. QED BY <1>1, <2>1 DEF LeftFor, StillIn
<1>4. QED BY <1>2, <1>3

\* With nobody of the line still inside, all of it waits.
LEMMA AllHaveLeft ==
  ASSUME NEW c \in Conds, Line(c) \in Seq(Threads),
         \A i \in 1..Len(Line(c)) : ~StillIn(Line(c)[i])
  PROVE  LeftFor(c) = Line(c)
<1>1. Len(Line(c)) > 0 => Len(Line(c)) \in 1..Len(Line(c))
  BY LenProperties
<1>2. QED BY <1>1 DEF LeftFor

\* HolderNow names the one that has the lock.
HolderIs ==
  /\ \A t \in Threads : Keeps(t) => HolderNow = t
  /\ (\A t \in Threads : ~Keeps(t)) => HolderNow = None

\* There is at most one.
LEMMA OneHolder == Exclusive => HolderIs
  BY DEF Exclusive, HolderIs, HolderNow, Keeps

\* Who is not in cv_wait and not killed in it is in no line.
LEMMA NotInLine ==
  ASSUME CvTypeOK, QueueInv, NEW t \in Threads, ~Reached(t)
  PROVE  ~InLine(t)
  BY LineHolds DEF InLine

\* A step with which nobody comes in or goes out, and no line changes.
LEMMA MapsQuiet ==
  ASSUME CvTypeOK, Exclusive, Exclusive', QueueInv, InsideIsLast,
         \A c \in Conds : Line(c)' = Line(c),
         \A u \in Threads : InLine(u) => (StillIn(u)' <=> StillIn(u)),
         \A u \in Threads : Keeps(u)' <=> Keeps(u)
  PROVE  InsideIsLast' /\ UNCHANGED TheMonitor!vars
<1>1. InsideIsLast' /\ \A c \in Conds : LeftFor(c)' = LeftFor(c)
  BY LineRests
<1>2. HolderIs /\ HolderIs'
  BY OneHolder, PTL
<1>3. HolderNow' = HolderNow
  BY <1>2 DEF HolderIs
<1>4. QED BY <1>1, <1>3 DEF TheMonitor!vars

\* Tickets, ptable.lock, wake-ups and kills do not show in the monitor.
LEMMA MapsLibrary ==
  ASSUME CvTypeOK, Exclusive, Exclusive', QueueInv, InsideIsLast, NEW t \in Threads,
         Take(t) \/ TsLock(t) \/ TsSleep(t) \/ Wake(t) \/ Kill(t) \/ Die(t)
  PROVE  InsideIsLast' /\ UNCHANGED TheMonitor!vars
<1> USE DEF CvTypeOK
<1>1. \A c \in Conds : Line(c)' = Line(c)
  BY DEF Take, TsLock, TsSleep, Wake, Kill, Die, condPart, Line
<1>2. \A u \in Threads : Keeps(u)' <=> Keeps(u)
  BY DEF Take, TsLock, TsSleep, Wake, Kill, Die, Goto, Keeps, Inside
<1>3. \A u \in Threads : (StillIn(u)' <=> StillIn(u)) \/ pc[u] \in {"in", "sig"}
  BY DEF Take, TsLock, TsSleep, Wake, Kill, Die, Goto, StillIn
<1>4. \A u \in Threads : pc[u] \in {"in", "sig"} => ~InLine(u)
  BY NotInLine DEF Reached, Waiting
<1>5. QED BY <1>1, <1>2, <1>3, <1>4, MapsQuiet

\* lock_acquire returns to a thread no condition holds back.
LEMMA MapsEnter ==
  ASSUME CvTypeOK, Exclusive, Exclusive', QueueInv, InsideIsLast, NEW t \in Threads, Enter(t)
  PROVE  InsideIsLast' /\ TheMonitor!Enter(t)
<1> USE DEF CvTypeOK
<1>1. pc[t] = "spin" /\ pc' = [pc EXCEPT ![t] = "in"] /\ UNCHANGED condPart
  BY DEF Enter, Goto
<1>2. ~InLine(t)
  BY <1>1, NotInLine DEF Reached, Waiting
<1>3. \A c \in Conds : Line(c)' = Line(c)
  BY <1>1 DEF condPart, Line
<1>4. InsideIsLast' /\ \A c \in Conds : LeftFor(c)' = LeftFor(c)
  <2>1. \A u \in Threads : InLine(u) => (StillIn(u)' <=> StillIn(u))
    BY <1>1, <1>2 DEF StillIn
  <2>2. QED BY <1>3, <2>1, LineRests
<1>5. HolderIs /\ HolderIs'
  BY OneHolder, PTL
<1>6. Keeps(t)' /\ \A u \in Threads : ~Keeps(u)
  BY <1>1 DEF Keeps, Exclusive, Inside
<1>7. HolderNow = None /\ HolderNow' = t
  BY <1>5, <1>6 DEF HolderIs
<1>8. ~TheMonitor!Waits(t)
  <2> SUFFICES ASSUME NEW c \in Conds, NEW i \in DOMAIN LeftFor(c), LeftFor(c)[i] = t PROVE FALSE
    BY DEF TheMonitor!Waits
  <2>1. i \in 1..Len(Line(c)) /\ LeftFor(c)[i] = Line(c)[i]
    BY LineHolds DEF LeftFor
  <2>2. QED BY <1>2, <2>1 DEF InLine
<1>9. QED BY <1>4, <1>7, <1>8 DEF TheMonitor!Enter

\* lock_release lets its caller out.
LEMMA MapsLeave ==
  ASSUME CvTypeOK, Exclusive, Exclusive', QueueInv, InsideIsLast, NEW t \in Threads, Leave(t)
  PROVE  InsideIsLast' /\ TheMonitor!Leave(t)
<1> USE DEF CvTypeOK
<1>1. pc[t] = "in" /\ pc' = [pc EXCEPT ![t] = "out"] /\ UNCHANGED condPart
  BY DEF Leave, Goto
<1>2. \A c \in Conds : Line(c)' = Line(c)
  BY <1>1 DEF condPart, Line
<1>3. InsideIsLast' /\ \A c \in Conds : LeftFor(c)' = LeftFor(c)
  <2>1. \A u \in Threads : InLine(u) => (StillIn(u)' <=> StillIn(u))
    BY <1>1 DEF StillIn
  <2>2. QED BY <1>2, <2>1, LineRests
<1>4. HolderIs /\ HolderIs'
  BY OneHolder, PTL
<1>5. Keeps(t) /\ \A u \in Threads : ~Keeps(u)'
  BY <1>1 DEF Keeps, Exclusive, Inside
<1>6. HolderNow = t /\ HolderNow' = None
  BY <1>4, <1>5 DEF HolderIs
<1>7. QED BY <1>3, <1>6 DEF TheMonitor!Leave

\* While t is inside and in no line, all the lines have left.
LEMMA OthersHaveLeft ==
  ASSUME CvTypeOK, Exclusive, QueueInv, NEW t \in Threads, pc[t] \in {"in", "sig"},
         NEW c \in Conds
  PROVE  LeftFor(c) = Line(c)
<1>1. Line(c) \in Seq(Threads) /\ \A i \in 1..Len(Line(c)) : Reached(Line(c)[i]) /\ Line(c)[i] \in Threads
  BY LineHolds, ElementOfSeq
<1>2. \A u \in Threads : Reached(u) => ~StillIn(u)
  BY DEF Reached, Waiting, StillIn, Exclusive, Inside
<1>3. QED BY <1>1, <1>2, AllHaveLeft

\* cv_signal lets the first of its condition go.
LEMMA MapsSignal ==
  ASSUME CvTypeOK, CvTypeOK', Exclusive, Exclusive', QueueInv, QueueInv', InsideIsLast,
         NEW t \in Threads, NEW c \in Conds, CvSignal(t, c)
  PROVE  InsideIsLast' /\ TheMonitor!Signal(t, c)
<1>1. pc[t] = "in" /\ pc'[t] = "sig" /\ \A u \in Threads \ {t} : pc'[u] = pc[u]
  BY DEF CvSignal, Goto, CvTypeOK
<1>2. Line(c) # <<>> /\ Line(c)' = Tail(Line(c)) /\ \A d \in Conds \ {c} : Line(d)' = Line(d)
  BY LineShrinks
<1>3. \A d \in Conds : LeftFor(d) = Line(d)
  BY <1>1, OthersHaveLeft
<1>4. \A d \in Conds : Line(d) \in Seq(Threads) /\ Line(d)' \in Seq(Threads)
  <2>1. \A d \in Conds : Line(d) \in Seq(Threads)
    BY LineHolds
  <2>2. QED BY <1>2, <2>1, HeadTailProperties
<1>5. \A d \in Conds : \A i \in 1..Len(Line(d)') : \E j \in 1..Len(Line(d)) : Line(d)'[i] = Line(d)[j]
  <2> SUFFICES ASSUME NEW d \in Conds, NEW i \in 1..Len(Line(d)')
               PROVE  \E j \in 1..Len(Line(d)) : Line(d)'[i] = Line(d)[j]
    OBVIOUS
  <2>1. CASE d = c
    <3>1. Len(Line(c)) \in Nat /\ Len(Tail(Line(c))) = Len(Line(c)) - 1 /\ Tail(Line(c))[i] = Line(c)[i + 1]
      BY <1>2, <1>4, <2>1, HeadTailProperties, LenProperties
    <3>2. i + 1 \in 1..Len(Line(c))
      BY <1>2, <2>1, <3>1
    <3>3. QED BY <1>2, <2>1, <3>1, <3>2
  <2>2. CASE d # c
    BY <1>2, <2>2
  <2>3. QED BY <2>1, <2>2
<1>6. \A d \in Conds : \A i \in 1..Len(Line(d)') :
        pc'[Line(d)'[i]] \notin {"ts_lock", "ts_release", "dead_in"}
  <2> SUFFICES ASSUME NEW d \in Conds, NEW i \in 1..Len(Line(d)')
               PROVE  pc'[Line(d)'[i]] \notin {"ts_lock", "ts_release", "dead_in"}
    OBVIOUS
  <2>1. PICK j \in 1..Len(Line(d)) : Line(d)'[i] = Line(d)[j]
    BY <1>5
  <2>2. Line(d)[j] \in Threads /\ Reached(Line(d)[j])
    BY LineHolds, ElementOfSeq
  <2>3. ~StillIn(Line(d)[j]) /\ Line(d)[j] # t
    BY <1>1, <2>2 DEF Reached, Waiting, StillIn, Exclusive, Inside
  <2>4. QED BY <1>1, <2>1, <2>2, <2>3 DEF StillIn
<1>7. \A d \in Conds : LeftFor(d)' = Line(d)'
  <2> SUFFICES ASSUME NEW d \in Conds PROVE LeftFor(d)' = Line(d)'
    OBVIOUS
  <2>1. Len(Line(d)') > 0 => Len(Line(d)') \in 1..Len(Line(d)')
    BY <1>4, LenProperties
  <2>2. QED BY <1>6, <2>1 DEF LeftFor, StillIn
<1>8. InsideIsLast'
  BY <1>6 DEF InsideIsLast, StillIn
<1>9. HolderNow = t /\ HolderNow' = t
  <2>1. HolderIs /\ HolderIs'
    BY OneHolder, PTL
  <2>2. QED BY <1>1, <2>1 DEF HolderIs, Keeps, Inside
<1>10. QED BY <1>2, <1>3, <1>7, <1>8, <1>9 DEF TheMonitor!Signal

\* Sequences: taking the last element off again, and putting it back.
LEMMA FrontOfAppend ==
  ASSUME NEW S, NEW s \in Seq(S), NEW e \in S
  PROVE  SubSeq(Append(s, e), 1, Len(s)) = s
<1>1. /\ Len(s) \in Nat /\ Len(Append(s, e)) = Len(s) + 1 /\ Append(s, e) \in Seq(S)
      /\ \A i \in 1..Len(s) : Append(s, e)[i] = s[i]
  BY AppendProperties, LenProperties
<1>2. \A i \in 1..Len(s) : Append(s, e)[i] \in S
  BY <1>1, ElementOfSeq
<1>3. /\ SubSeq(Append(s, e), 1, Len(s)) \in Seq(S)
      /\ Len(SubSeq(Append(s, e), 1, Len(s))) = IF 1 <= Len(s) THEN Len(s) - 1 + 1 ELSE 0
      /\ \A i \in 1..(Len(s) - 1 + 1) : SubSeq(Append(s, e), 1, Len(s))[i] = Append(s, e)[1 + i - 1]
  BY <1>1, <1>2, SubSeqProperties
<1>4. \A i \in 1..Len(s) : SubSeq(Append(s, e), 1, Len(s))[i] = s[i]
  <2> SUFFICES ASSUME NEW i \in 1..Len(s) PROVE SubSeq(Append(s, e), 1, Len(s))[i] = s[i]
    OBVIOUS
  <2>1. 1 + i - 1 = i /\ Len(s) - 1 + 1 = Len(s)
    BY <1>1
  <2>2. QED BY <1>1, <1>3, <2>1
<1>5. QED BY <1>1, <1>3, <1>4, SeqEqual

\* The inverse of FrontOfAppend.
LEMMA FrontAndLast ==
  ASSUME NEW S, NEW s \in Seq(S), Len(s) > 0
  PROVE  s = Append(SubSeq(s, 1, Len(s) - 1), s[Len(s)])
<1>1. Len(s) \in Nat /\ 1 \in 1..Len(s) /\ Len(s) \in 1..Len(s)
  BY LenProperties
<1>2. \A i \in 1..(Len(s) - 1) : s[i] \in S
  BY <1>1, ElementOfSeq
<1>3. SubSeq(s, 1, Len(s) - 1) \in Seq(S) /\ s[Len(s)] \in S
  <2>1. Len(s) - 1 \in Int
    BY <1>1
  <2>2. QED BY <1>1, <1>2, <2>1, SubSeqProperties, ElementOfSeq
<1>4. SubSeq(s, 1, Len(s)) = SubSeq(s, 1, Len(s) - 1) \o <<s[Len(s)]>>
  BY <1>1, SubSeqRecursiveSecond
<1>5. QED BY <1>3, <1>4, AppendIsConcat, SubSeqFull

\* cv_wait alone lets nobody go out: its caller still has the lock.
LEMMA MapsWait ==
  ASSUME CvTypeOK, CvTypeOK', Exclusive, Exclusive', QueueInv, InsideIsLast,
         NEW t \in Threads, NEW c \in Conds, CvWait(t, c)
  PROVE  InsideIsLast' /\ UNCHANGED TheMonitor!vars
<1>1. pc[t] = "in" /\ pc'[t] = "ts_lock" /\ \A u \in Threads \ {t} : pc'[u] = pc[u]
  BY DEF CvWait, Goto, CvTypeOK
<1>2. Line(c)' = Append(Line(c), t) /\ \A d \in Conds \ {c} : Line(d)' = Line(d)
  BY LineGrows
<1>3. \A d \in Conds : LeftFor(d) = Line(d)
  BY <1>1, OthersHaveLeft
<1>4. \A d \in Conds : Line(d) \in Seq(Threads) /\ Len(Line(d)) \in Nat
  BY LineHolds
<1>5. \A d \in Conds : \A i \in 1..Len(Line(d)) :
        pc'[Line(d)[i]] \notin {"ts_lock", "ts_release", "dead_in"}
  <2> SUFFICES ASSUME NEW d \in Conds, NEW i \in 1..Len(Line(d))
               PROVE  pc'[Line(d)[i]] \notin {"ts_lock", "ts_release", "dead_in"}
    OBVIOUS
  <2>1. Line(d)[i] \in Threads /\ Reached(Line(d)[i])
    BY LineHolds, ElementOfSeq
  <2>2. ~StillIn(Line(d)[i]) /\ Line(d)[i] # t
    BY <1>1, <2>1 DEF Reached, Waiting, StillIn, Exclusive, Inside
  <2>3. QED BY <1>1, <2>1, <2>2 DEF StillIn
<1>6. /\ Len(Line(c)') = Len(Line(c)) + 1 /\ Line(c)'[Len(Line(c)) + 1] = t
      /\ \A i \in 1..Len(Line(c)) : Line(c)'[i] = Line(c)[i]
  BY <1>2, <1>4, AppendProperties
<1>7. LeftFor(c)' = LeftFor(c)
  <2>1. Len(Line(c)') > 0 /\ Len(Line(c)') - 1 = Len(Line(c))
    BY <1>4, <1>6
  <2>2. StillIn(t)'
    BY <1>1 DEF StillIn
  <2>3. LeftFor(c)' = SubSeq(Line(c)', 1, Len(Line(c)))
    BY <1>6, <2>1, <2>2 DEF LeftFor, StillIn
  <2>4. SubSeq(Line(c)', 1, Len(Line(c))) = Line(c)
    BY <1>2, <1>4, FrontOfAppend
  <2>5. QED BY <1>3, <2>3, <2>4
<1>8. \A d \in Conds \ {c} : LeftFor(d)' = LeftFor(d)
  <2> SUFFICES ASSUME NEW d \in Conds \ {c} PROVE LeftFor(d)' = LeftFor(d)
    OBVIOUS
  <2>1. Len(Line(d)) > 0 => Len(Line(d)) \in 1..Len(Line(d))
    BY <1>4
  <2>2. QED BY <1>2, <1>3, <1>5, <2>1 DEF LeftFor, StillIn
<1>9. InsideIsLast'
  <2> SUFFICES ASSUME NEW d \in Conds, NEW i \in 1..Len(Line(d)'), i # Len(Line(d)')
               PROVE  pc'[Line(d)'[i]] \notin {"ts_lock", "ts_release", "dead_in"}
    BY DEF InsideIsLast, StillIn
  <2>1. CASE d = c
    <3>1. i \in 1..Len(Line(c))
      BY <1>4, <1>6, <2>1
    <3>2. QED BY <1>5, <1>6, <2>1, <3>1
  <2>2. CASE d # c
    BY <1>2, <1>5, <2>2
  <2>3. QED BY <2>1, <2>2
<1>10. HolderNow = t /\ HolderNow' = t
  <2>1. HolderIs /\ HolderIs'
    BY OneHolder, PTL
  <2>2. QED BY <1>1, <2>1 DEF HolderIs, Keeps, Inside
<1>11. QED BY <1>7, <1>8, <1>9, <1>10 DEF TheMonitor!vars

\* ticket_sleep's release of the lock is where the waiter goes out.
LEMMA MapsRelease ==
  ASSUME CvTypeOK, Exclusive, Exclusive', QueueInv, InsideIsLast,
         NEW t \in Threads, TsRelease(t)
  PROVE  InsideIsLast' /\ \E c \in Conds : TheMonitor!Wait(t, c)
<1>1. /\ pc[t] = "ts_release" /\ pc'[t] = "ts_sleep" /\ \A u \in Threads \ {t} : pc'[u] = pc[u]
      /\ \A d \in Conds : Line(d)' = Line(d)
  BY DEF TsRelease, Goto, CvTypeOK, condPart, Line
<1>2. PICK c \in Conds : \E j \in Held(c) : queue[c][j] = t
  <2>1. \A u \in Threads : tgt[u] # t
    <3> SUFFICES ASSUME NEW u \in Threads, tgt[u] = t PROVE FALSE
      OBVIOUS
    <3>1. pc[u] \in {"sig", "dead_in"}
      BY CondAssumption DEF QueueInv, SleepPhases
    <3>2. QED BY <1>1, <3>1 DEF Exclusive, Inside
  <2>2. QED BY <1>1, <2>1 DEF QueueInv, Caused, Waiting
<1>3. PICK k \in 1..Len(Line(c)) : Line(c)[k] = t
  <2>1. DOMAIN Line(c) = 1..Len(Line(c))
    BY LineHolds, LenProperties
  <2>2. QED BY <1>2, <2>1, HeldIsLine
<1>4. Len(Line(c)) > 0 /\ Line(c)[Len(Line(c))] = t /\ Line(c) \in Seq(Threads)
  <2>1. k = Len(Line(c))
    BY <1>1, <1>3 DEF InsideIsLast, StillIn
  <2>2. QED BY <1>3, <2>1, LineHolds
<1>5. \A d \in Conds : \A i \in 1..Len(Line(d)) :
        /\ pc'[Line(d)[i]] \notin {"ts_lock", "ts_release", "dead_in"}
        /\ d # c => ~StillIn(Line(d)[i])
  <2> SUFFICES ASSUME NEW d \in Conds, NEW i \in 1..Len(Line(d))
               PROVE  /\ pc'[Line(d)[i]] \notin {"ts_lock", "ts_release", "dead_in"}
                      /\ d # c => ~StillIn(Line(d)[i])
    OBVIOUS
  <2>1. Line(d)[i] \in Threads
    BY LineHolds, ElementOfSeq
  <2>2. StillIn(Line(d)[i]) => Line(d)[i] = t
    BY <1>1, <2>1 DEF StillIn, Exclusive, Inside
  <2>3. Line(d)[i] = t => d = c
    <3>1. Slot(d, i) \in Held(d) /\ Line(d)[i] = queue[d][Slot(d, i)]
      BY LineHolds, LineShape DEF ReadOff
    <3>2. PICK j \in Held(c) : queue[c][j] = t
      BY <1>2
    <3>3. Once
      BY DEF QueueInv
    <3>4. QED BY <3>1, <3>2, <3>3 DEF Once
  <2>4. QED BY <1>1, <2>1, <2>2, <2>3 DEF StillIn
<1>6. LeftFor(c)' = Append(LeftFor(c), t)
  <2>1. LeftFor(c) = SubSeq(Line(c), 1, Len(Line(c)) - 1)
    BY <1>1, <1>4 DEF LeftFor, StillIn
  <2>2. LeftFor(c)' = Line(c)
    <3>1. Len(Line(c)) \in 1..Len(Line(c))
      BY <1>4, LenProperties
    <3>2. QED BY <1>1, <1>5, <3>1 DEF LeftFor, StillIn
  <2>3. QED BY <1>4, <2>1, <2>2, FrontAndLast
<1>7. \A d \in Conds \ {c} : LeftFor(d)' = LeftFor(d)
  <2> SUFFICES ASSUME NEW d \in Conds \ {c} PROVE LeftFor(d)' = LeftFor(d)
    OBVIOUS
  <2>1. Len(Line(d)) > 0 => Len(Line(d)) \in 1..Len(Line(d))
    BY LineHolds
  <2>2. QED BY <1>1, <1>5, <2>1 DEF LeftFor, StillIn
<1>8. InsideIsLast'
  BY <1>1, <1>5 DEF InsideIsLast, StillIn
<1>9. HolderNow = t /\ HolderNow' = None
  <2>1. HolderIs /\ HolderIs'
    BY OneHolder, PTL
  <2>2. Keeps(t) /\ \A u \in Threads : ~Keeps(u)'
    BY <1>1 DEF Keeps, Exclusive, Inside
  <2>3. QED BY <2>1, <2>2 DEF HolderIs
<1>10. TheMonitor!Wait(t, c)
  BY <1>6, <1>7, <1>9 DEF TheMonitor!Wait
<1>11. QED BY <1>8, <1>10

\* A thread still inside is the last of its line, throughout.
LEMMA InsideIsLastInvariance == BufSpec => []InsideIsLast
<1>1. /\ CvTypeOK /\ CvTypeOK' /\ Exclusive /\ Exclusive' /\ QueueInv /\ QueueInv'
      /\ InsideIsLast /\ [BufNext]_vars
      => InsideIsLast'
  <2> SUFFICES ASSUME CvTypeOK, CvTypeOK', Exclusive, Exclusive', QueueInv, QueueInv',
                      InsideIsLast, [BufNext]_vars
               PROVE  InsideIsLast'
    OBVIOUS
  <2>1. CASE UNCHANGED cvVars
    BY <2>1 DEF cvVars, InsideIsLast, StillIn, Line
  <2>2. ASSUME NEW t \in Threads, CvStep(t) PROVE InsideIsLast'
    BY <2>2, MapsLibrary, MapsEnter, MapsLeave, MapsRelease, MapsWait, MapsSignal
       DEF CvStep, LibraryStep
  <2>3. QED BY <2>1, <2>2, LibrarySteps
<1>2. CvTypeOK /\ BufInit => InsideIsLast
  <2> SUFFICES ASSUME CvTypeOK, BufInit, NEW c \in Conds PROVE Len(Line(c)) = 0
    BY DEF InsideIsLast
  <2>1. QueueInv /\ Count(c) = 0
    BY QueueInitially DEF BufInit, CvInit, Count
  <2>2. QED BY <2>1, LineHolds
<1>3. QED BY <1>1, <1>2, CvTypeInvariance, ExclusiveInvariance, QueueInvariance, PTL DEF BufSpec

\* Lock and condition variables together are a monitor: cv_wait, ticket_sleep,
\* cv_signal, wake, lock_acquire and lock_release do what Monitor says, signals
\* serve the waiters of a condition in their order, and nobody whose signal has
\* not come gets back in.
THEOREM LockAndConditionsAreMonitor == BufSpec => IsMonitor
<1>1. BufInit => TheMonitor!Init
  <2> SUFFICES ASSUME BufInit PROVE TheMonitor!Init
    OBVIOUS
  <2>1. CvTypeOK /\ QueueInv /\ Exclusive
    BY CvTypeInitially, QueueInitially DEF BufInit, CvInit, Exclusive, Inside
  <2>2. \A c \in Conds : Count(c) = 0
    BY DEF BufInit, CvInit, Count
  <2>3. \A c \in Conds : LeftFor(c) = <<>>
    BY <2>1, <2>2, LineHolds, EmptySeq DEF LeftFor
  <2>4. HolderNow = None
    BY DEF BufInit, CvInit, HolderNow, Inside
  <2>5. QED BY <2>3, <2>4 DEF TheMonitor!Init
<1>2. /\ CvTypeOK /\ CvTypeOK' /\ Exclusive /\ Exclusive' /\ QueueInv /\ QueueInv'
      /\ InsideIsLast /\ [BufNext]_vars
      => [TheMonitor!Next]_(TheMonitor!vars)
  <2> SUFFICES ASSUME CvTypeOK, CvTypeOK', Exclusive, Exclusive', QueueInv, QueueInv',
                      InsideIsLast, [BufNext]_vars
               PROVE  [TheMonitor!Next]_(TheMonitor!vars)
    OBVIOUS
  <2>1. CASE UNCHANGED cvVars
    BY <2>1 DEF cvVars, TheMonitor!vars, HolderNow, LeftFor, StillIn, Line
  <2>2. ASSUME NEW t \in Threads, CvStep(t) PROVE [TheMonitor!Next]_(TheMonitor!vars)
    BY <2>2, MapsLibrary, MapsEnter, MapsLeave, MapsRelease, MapsWait, MapsSignal
       DEF CvStep, LibraryStep, TheMonitor!Next
  <2>3. QED BY <2>1, <2>2, LibrarySteps
<1>3. QED BY <1>1, <1>2, CvTypeInvariance, ExclusiveInvariance, QueueInvariance,
             InsideIsLastInvariance, PTL DEF BufSpec, IsMonitor, TheMonitor!Spec

-----------------------------------------------------------------------------
(***************************************************************************)
(* Who is chosen: the stride scheduler of p2, on any number of processors  *)
(* and as long as no pass value overflows (Calm).                          *)
(*                                                                         *)
(* A process is chosen with the smallest pass value of those that wait, so *)
(* afterwards nobody who waits is behind globalMinPassVal: the laggards    *)
(* were running at that time, and there was a processor left.  NoRunaway   *)
(* needs to know more (Behind): once somebody has been chosen while w      *)
(* waited, the value a wake-up gives is not ahead of w either.             *)
(***************************************************************************)

Calm == MaxPass < ULong

Laggards == {p \in Ready \ odd : passVal[p] < globalMinPassVal}

Behind ==
  \A w \in Slots :
    /\ state[w] # "RUNNABLE" => overtook[w] = {}
    /\ overtook[w] # {} => globalMinPassVal <= passVal[w]
    /\ \A p \in overtook[w] : passVal[p] <= passVal[w] + MaxStride

StrideInv == TypeOK /\ NoLaggard /\ Behind

-----------------------------------------------------------------------------
LEMMA Constants ==
  /\ NPROC \in Nat /\ NCPU \in Nat /\ NCPU > 0
  /\ MaxStride \in Nat /\ ULong \in Nat /\ ULong > 0 /\ MaxPass \in Nat
  /\ INIT_TICKET_VAL \in Tickets
  /\ \A n \in Tickets : StrideOf(n) \in 0..MaxStride
  BY StrideAssumption

\* Fewer laggards than some set of which there are few.
LEMMA FewerAreFew ==
  ASSUME NEW S \in SUBSET Slots, NEW L \in SUBSET S, Cardinality(S) < NCPU
  PROVE  Cardinality(L) < NCPU
<1>1. IsFiniteSet(Slots)
  BY Constants, FS_Interval DEF Slots
<1>2. IsFiniteSet(S)
  BY <1>1, FS_Subset
<1>3. IsFiniteSet(L) /\ Cardinality(L) <= Cardinality(S)
  BY <1>2, FS_Subset
<1>4. Cardinality(S) \in Nat /\ Cardinality(L) \in Nat
  BY <1>2, <1>3, FS_CardinalityType
<1>5. QED BY <1>3, <1>4, Constants

\* A step that makes nobody a laggard leaves them as few as they were.
LEMMA FewRemain ==
  ASSUME NoLaggard, Laggards' \subseteq Laggards PROVE NoLaggard'
<1>1. Laggards \in SUBSET Slots
  BY DEF Laggards, Ready, In
<1>2. Cardinality(Laggards) < NCPU
  BY DEF NoLaggard, Laggards
<1>3. Cardinality(Laggards') < NCPU
  BY <1>1, <1>2, FewerAreFew
<1>4. QED BY <1>3 DEF NoLaggard, Laggards

LEMMA Starts == Init => StrideInv
<1> SUFFICES ASSUME Init PROVE StrideInv
  OBVIOUS
<1>1. PICK n \in Slots : state = [p \in Slots |-> IF p = 1 THEN "SLEEPING"
                                  ELSE IF p <= n THEN "RUNNABLE" ELSE "UNUSED"]
  BY DEF Init
<1>2. TypeOK
  <2>1. state \in [Slots -> {"UNUSED", "SLEEPING", "RUNNABLE", "RUNNING", "ZOMBIE"}]
    BY <1>1
  <2>2. filler \in [Slots -> Fillers]
    BY Constants DEF Init, Fillers, NoFiller, Slots, Passes
  <2>3. odd \in SUBSET Slots /\ overtook \in [Slots -> SUBSET Slots]
    BY DEF Init
  <2>4. QED BY <2>1, <2>2, <2>3, Constants DEF Init, TypeOK, Passes
<1>3. NoLaggard
  <2>1. Laggards = {}
    BY DEF Init, Laggards, Ready, In
  <2>2. QED BY <2>1, FS_EmptySet, Constants DEF NoLaggard, Laggards
<1>4. Behind
  BY DEF Init, Behind
<1>5. QED BY <1>2, <1>3, <1>4 DEF StrideInv

\* What the scheduler does, put in terms of the integers.
LEMMA ScheduleDoes ==
  ASSUME Calm, TypeOK, NEW s \in Slots, Schedule(s)
  PROVE  /\ state[s] = "RUNNABLE" /\ state' = [state EXCEPT ![s] = "RUNNING"]
         /\ globalMinPassVal' = passVal[s]
         /\ \A p \in In("RUNNABLE") : passVal[s] <= passVal[p]
         /\ passVal' \in [Slots -> Passes]
         /\ passVal'[s] \in passVal[s]..(passVal[s] + MaxStride)
         /\ \A p \in Slots \ {s} : passVal'[p] = passVal[p]
<1>1. passVal[s] \in Passes /\ strideVal[s] \in 0..MaxStride
  BY DEF TypeOK
<1>2. passVal[s] + strideVal[s] \in Passes
  BY <1>1, Constants DEF Schedule, Calm, Passes
<1>3. (passVal[s] + strideVal[s]) % ULong = passVal[s] + strideVal[s]
  BY <1>2, Constants DEF Passes
<1>4. passVal' = [passVal EXCEPT ![s] = passVal[s] + strideVal[s]]
  BY <1>3 DEF Schedule
<1>5. \A p \in Slots : passVal[p] \in Int
  BY DEF TypeOK, Passes
<1>6. \A p \in In("RUNNABLE") : passVal[s] <= passVal[p]
  <2>1. \A p \in In("RUNNABLE") : p \in Slots /\ (passVal[s] < passVal[p] \/ passVal[s] = passVal[p])
    BY DEF Schedule, Chosen, In
  <2>2. QED BY <2>1, <1>5
<1>7. passVal'[s] = passVal[s] + strideVal[s]
  BY <1>4 DEF TypeOK
<1>8. passVal'[s] \in passVal[s]..(passVal[s] + MaxStride)
  BY <1>1, <1>5, <1>7, Constants
<1>9. passVal' \in [Slots -> Passes] /\ \A p \in Slots \ {s} : passVal'[p] = passVal[p]
  BY <1>2, <1>4 DEF TypeOK
<1>10. QED BY <1>6, <1>8, <1>9 DEF Schedule, Chosen, In

LEMMA ScheduleKeeps ==
  ASSUME Calm, StrideInv, NEW s \in Slots, Schedule(s) PROVE StrideInv'
<1> USE DEF StrideInv
<1>1. /\ state[s] = "RUNNABLE" /\ state' = [state EXCEPT ![s] = "RUNNING"]
      /\ globalMinPassVal' = passVal[s]
      /\ \A p \in In("RUNNABLE") : passVal[s] <= passVal[p]
      /\ passVal' \in [Slots -> Passes]
      /\ passVal'[s] \in passVal[s]..(passVal[s] + MaxStride)
      /\ \A p \in Slots \ {s} : passVal'[p] = passVal[p]
  BY ScheduleDoes
<1>2. /\ odd' = odd \ {s}
      /\ overtook' = [w \in Slots |-> IF w \in In("RUNNABLE") \ {s} THEN overtook[w] \cup {s} ELSE {}]
  BY DEF Schedule
<1>3. MaxStride \in Int /\ \A p \in Slots : passVal[p] \in Int
  BY Constants DEF TypeOK, Passes
<1>4. TypeOK'
  <2>1. odd' \in SUBSET Slots /\ overtook' \in [Slots -> SUBSET Slots]
    BY <1>2 DEF TypeOK
  <2>2. globalMinPassVal' \in Passes /\ state' \in [Slots -> {"UNUSED", "SLEEPING", "RUNNABLE", "RUNNING", "ZOMBIE"}]
    BY <1>1 DEF TypeOK
  <2>3. UNCHANGED <<numTickets, strideVal, filler>>
    BY DEF Schedule
  <2>4. QED BY <1>1, <2>1, <2>2, <2>3 DEF TypeOK
<1>5. NoLaggard'
  <2>1. Laggards' \subseteq In("RUNNING")
    <3> SUFFICES ASSUME NEW p \in Laggards' PROVE p \in In("RUNNING")
      OBVIOUS
    <3>1. p \in Slots /\ p \in Ready' /\ passVal'[p] < passVal[s]
      BY <1>1 DEF Laggards, Ready, In
    <3>2. p # s
      BY <3>1, <1>1, <1>3
    <3>3. p \notin In("RUNNABLE")
      BY <3>1, <3>2, <1>1, <1>3
    <3>4. state'[p] = state[p]
      BY <1>1, <3>1, <3>2 DEF TypeOK
    <3>5. QED BY <3>1, <3>3, <3>4 DEF Ready, In
  <2>2. Cardinality(In("RUNNING")) < NCPU
    BY DEF Schedule
  <2>3. In("RUNNING") \in SUBSET Slots
    BY DEF In
  <2>4. Cardinality(Laggards') < NCPU
    BY <2>1, <2>2, <2>3, FewerAreFew
  <2>5. QED BY <2>4 DEF NoLaggard, Laggards
<1>6. Behind'
  <2> SUFFICES ASSUME NEW w \in Slots
               PROVE  /\ state'[w] # "RUNNABLE" => overtook'[w] = {}
                      /\ overtook'[w] # {} => globalMinPassVal' <= passVal'[w]
                      /\ \A p \in overtook'[w] : passVal'[p] <= passVal'[w] + MaxStride
    BY DEF Behind
  <2>1. CASE w \in In("RUNNABLE") \ {s}
    <3>1. overtook'[w] = overtook[w] \cup {s} /\ overtook[w] \subseteq Slots
      BY <1>2, <2>1 DEF TypeOK
    <3>2. state'[w] = "RUNNABLE" /\ passVal'[w] = passVal[w] /\ passVal[s] <= passVal[w]
      BY <1>1, <2>1 DEF In, TypeOK
    <3>3. \A p \in overtook[w] : passVal[p] <= passVal[w] + MaxStride
      BY DEF Behind
    <3>4. passVal'[s] <= passVal[w] + MaxStride
      BY <1>1, <1>3, <3>2
    <3>5. ASSUME NEW p \in overtook'[w] PROVE passVal'[p] <= passVal[w] + MaxStride
      <4>1. CASE p = s
        BY <3>4, <4>1
      <4>2. CASE p # s
        BY <1>1, <3>1, <3>3, <3>5, <4>2
      <4>3. QED BY <4>1, <4>2
    <3>6. QED BY <1>1, <3>2, <3>5
  <2>2. CASE w \notin In("RUNNABLE") \ {s}
    BY <1>2, <2>2
  <2>3. QED BY <2>1, <2>2
<1>7. QED BY <1>4, <1>5, <1>6

\* Whoever leaves the processor takes its pass value along.
LEMMA LeavesProcessor ==
  ASSUME StrideInv, NEW s \in In("RUNNING"), NEW st \in {"SLEEPING", "RUNNABLE", "ZOMBIE"},
         state' = [state EXCEPT ![s] = st],
         UNCHANGED <<strideData, globalMinPassVal, filler, odd>>,
         overtook' \in [Slots -> SUBSET Slots],
         \A w \in Slots : overtook'[w] \subseteq overtook[w]
  PROVE  StrideInv'
<1> USE DEF StrideInv
<1>1. s \in Slots /\ state[s] = "RUNNING"
  BY DEF In
<1>2. TypeOK'
  BY <1>1 DEF TypeOK, strideData
<1>3. Ready' \subseteq Ready
  BY <1>1 DEF Ready, In, TypeOK
<1>4. Laggards' \subseteq Laggards
  BY <1>3 DEF Laggards, strideData
<1>5. NoLaggard'
  BY <1>4, FewRemain
<1>6. Behind'
  <2>1. \A w \in Slots : state[w] = "RUNNABLE" => state'[w] = "RUNNABLE"
    BY <1>1 DEF TypeOK
  <2>2. QED BY <2>1 DEF Behind, strideData
<1>7. QED BY <1>2, <1>5, <1>6

\* Who becomes runnable does so at globalMinPassVal, or is called odd; nobody has
\* overtaken it yet.
LEMMA Enters ==
  ASSUME StrideInv, TypeOK', NEW W \in SUBSET Slots,
         \A p \in W : state[p] # "RUNNABLE" /\ state'[p] = "RUNNABLE",
         \A p \in Slots \ W : state'[p] = state[p] /\ passVal'[p] = passVal[p],
         \A p \in W : \/ passVal'[p] = globalMinPassVal
                      \/ passVal'[p] = passVal[p] /\ p \in odd',
         odd \ W \subseteq odd',
         UNCHANGED <<globalMinPassVal, overtook>>
  PROVE  StrideInv'
<1> USE DEF StrideInv
<1>1. globalMinPassVal \in Int /\ MaxStride \in Int /\ \A p \in Slots : passVal[p] \in Int
  BY Constants DEF TypeOK, Passes
<1>2. Laggards' \subseteq Laggards
  <2> SUFFICES ASSUME NEW p \in Laggards' PROVE p \in Laggards
    OBVIOUS
  <2>1. p \in Slots /\ p \in Ready' /\ p \notin odd' /\ passVal'[p] < globalMinPassVal
    BY DEF Laggards, Ready, In
  <2>2. p \notin W
    BY <1>1, <2>1
  <2>3. QED BY <2>1, <2>2 DEF Laggards, Ready, In
<1>3. NoLaggard'
  BY <1>2, FewRemain
<1>4. Behind'
  <2> SUFFICES ASSUME NEW w \in Slots
               PROVE  /\ state'[w] # "RUNNABLE" => overtook[w] = {}
                      /\ overtook[w] # {} => globalMinPassVal <= passVal'[w]
                      /\ \A p \in overtook[w] : passVal'[p] <= passVal'[w] + MaxStride
    BY DEF Behind
  <2>1. CASE w \in W
    BY <2>1 DEF Behind
  <2>2. CASE w \notin W
    <3>1. passVal'[w] = passVal[w] /\ state'[w] = state[w] /\ overtook[w] \subseteq Slots
      BY <2>2 DEF TypeOK
    <3>2. ASSUME NEW p \in overtook[w] PROVE passVal'[p] <= passVal[w] + MaxStride
      <4>1. p \in Slots /\ passVal[p] <= passVal[w] + MaxStride /\ globalMinPassVal <= passVal[w]
        BY <3>1, <3>2 DEF Behind
      <4>2. passVal'[p] = passVal[p] \/ passVal'[p] = globalMinPassVal
        BY <4>1
      <4>3. globalMinPassVal <= passVal[w] + MaxStride
        BY <1>1, <4>1, Constants
      <4>4. QED BY <4>1, <4>2, <4>3
    <3>3. QED BY <3>1, <3>2 DEF Behind
  <2>3. QED BY <2>1, <2>2
<1>5. QED BY <1>3, <1>4

\* fork writes the pass value of a child that may have run for long.
LEMMA StoreKeeps ==
  ASSUME StrideInv, NEW c \in Slots, ForkStore(c) PROVE StrideInv'
<1> USE DEF StrideInv
<1>1. PICK v \in Passes : passVal' = [passVal EXCEPT ![c] = v]
  <2>1. passVal[c] \in Passes /\ filler[c].val \in Passes /\ strideVal[c] \in Nat
    BY DEF TypeOK, Fillers
  <2>2. (filler[c].val + strideVal[c]) % ULong \in Passes
    BY <2>1, Constants DEF Passes
  <2>3. passVal = [passVal EXCEPT ![c] = passVal[c]]
    BY DEF TypeOK
  <2>4. QED BY <2>1, <2>2, <2>3 DEF ForkStore
<1>2. TypeOK'
  <2>1. NoFiller \in Fillers
    BY Constants DEF NoFiller, Fillers, Passes
  <2>2. QED BY <1>1, <2>1 DEF ForkStore, TypeOK
<1>3. \A p \in Slots \ {c} : passVal'[p] = passVal[p]
  BY <1>1 DEF TypeOK
<1>4. Laggards' \subseteq Laggards
  BY <1>3 DEF ForkStore, Laggards, Ready, In
<1>5. NoLaggard'
  BY <1>4, FewRemain
<1>6. Behind'
  <2> SUFFICES ASSUME NEW w \in Slots
               PROVE  /\ state'[w] # "RUNNABLE" => overtook'[w] = {}
                      /\ overtook'[w] # {} => globalMinPassVal' <= passVal'[w]
                      /\ \A p \in overtook'[w] : passVal'[p] <= passVal'[w] + MaxStride
    BY DEF Behind
  <2>1. CASE w = c
    BY <2>1 DEF ForkStore
  <2>2. CASE w # c
    <3>1. overtook'[w] = overtook[w] \ {c} /\ overtook[w] \subseteq Slots
      BY <2>2 DEF ForkStore, TypeOK
    <3>2. QED BY <1>3, <2>2, <3>1 DEF ForkStore, Behind
  <2>3. QED BY <2>1, <2>2
<1>7. QED BY <1>2, <1>5, <1>6

\* Steps that touch neither states nor pass values.
LEMMA Aside ==
  ASSUME StrideInv, TypeOK', UNCHANGED <<state, passVal, globalMinPassVal, odd, overtook>>
  PROVE  StrideInv'
  BY DEF StrideInv, NoLaggard, Behind, Ready, In

LEMMA StrideKeeps ==
  ASSUME Calm, StrideInv, [Next]_strideVars PROVE StrideInv'
<1>0. TypeOK
  BY DEF StrideInv
<1>1. CASE UNCHANGED strideVars
  <2>1. TypeOK'
    BY <1>0, <1>1 DEF strideVars, TypeOK
  <2>2. QED BY <1>1, <2>1, Aside DEF strideVars
<1>2. ASSUME NEW s \in Slots, Schedule(s) PROVE StrideInv'
  BY <1>2, ScheduleKeeps
<1>3. ASSUME NEW s \in Slots, Yield(s) \/ Sleep(s) PROVE StrideInv'
  BY <1>0, <1>3, LeavesProcessor DEF Yield, Sleep, history, TypeOK
<1>4. ASSUME NEW s \in Slots, Exit(s) PROVE StrideInv'
  <2>1. s \in In("RUNNING") /\ state' = [state EXCEPT ![s] = "ZOMBIE"]
    BY <1>4 DEF Exit
  <2>2. UNCHANGED <<strideData, globalMinPassVal, filler, odd>>
    BY <1>4 DEF Exit
  <2>3. overtook' \in [Slots -> SUBSET Slots] /\ \A w \in Slots : overtook'[w] \subseteq overtook[w]
    BY <1>0, <1>4 DEF Exit, TypeOK
  <2>4. QED BY <2>1, <2>2, <2>3, LeavesProcessor
<1>5. ASSUME NEW p \in Slots, KillSleeper(p) PROVE StrideInv'
  <2> DEFINE W == {p}
  <2>1. TypeOK'
    BY <1>0, <1>5 DEF KillSleeper, TypeOK, strideData
  <2>2. \A q \in W : state[q] # "RUNNABLE" /\ state'[q] = "RUNNABLE" /\ passVal'[q] = passVal[q] /\ q \in odd'
    BY <1>0, <1>5 DEF KillSleeper, In, TypeOK, strideData
  <2>3. \A q \in Slots \ W : state'[q] = state[q] /\ passVal'[q] = passVal[q]
    BY <1>0, <1>5 DEF KillSleeper, TypeOK, strideData
  <2>4. W \in SUBSET Slots /\ odd \ W \subseteq odd' /\ UNCHANGED <<globalMinPassVal, overtook>>
    BY <1>5 DEF KillSleeper
  <2> HIDE DEF W
  <2>5. QED BY <2>1, <2>2, <2>3, <2>4, Enters
<1>6. ASSUME NEW W \in SUBSET Slots, Wakeup(W) PROVE StrideInv'
  <2>1. TypeOK'
    BY <1>0, <1>6 DEF Wakeup, TypeOK
  <2>2. \A q \in W : state[q] # "RUNNABLE" /\ state'[q] = "RUNNABLE" /\ passVal'[q] = globalMinPassVal
    BY <1>0, <1>6 DEF Wakeup, In
  <2>3. \A q \in Slots \ W : state'[q] = state[q] /\ passVal'[q] = passVal[q]
    BY <1>6 DEF Wakeup
  <2>4. odd \ W \subseteq odd' /\ UNCHANGED <<globalMinPassVal, overtook>>
    BY <1>6 DEF Wakeup
  <2>5. QED BY <2>1, <2>2, <2>3, <2>4, Enters
<1>7. ASSUME NEW s \in Slots, NEW c \in Slots, Fork(s, c) PROVE StrideInv'
  <2> DEFINE W == {c}
  <2>1. TypeOK'
    BY <1>0, <1>7, Constants DEF Fork, TypeOK
  <2>2. \A q \in W : state[q] # "RUNNABLE" /\ state'[q] = "RUNNABLE" /\ passVal'[q] = globalMinPassVal
    BY <1>0, <1>7 DEF Fork, IsFree, In, TypeOK
  <2>3. \A q \in Slots \ W : state'[q] = state[q] /\ passVal'[q] = passVal[q]
    BY <1>0, <1>7 DEF Fork, TypeOK
  <2>4. W \in SUBSET Slots /\ odd \ W \subseteq odd' /\ UNCHANGED <<globalMinPassVal, overtook>>
    BY <1>7 DEF Fork
  <2> HIDE DEF W
  <2>5. QED BY <2>1, <2>2, <2>3, <2>4, Enters
<1>8. ASSUME NEW s \in Slots, NEW c \in Slots, ForkRun(s, c) PROVE StrideInv'
  <2> DEFINE W == {c}
  <2>1. TypeOK'
    <3>1. [by |-> s, next |-> "numTickets", val |-> 0] \in Fillers
      BY Constants DEF Fillers, Slots, Passes
    <3>2. QED BY <1>0, <1>8, <3>1 DEF ForkRun, TypeOK, strideData
  <2>2. \A q \in W : state[q] # "RUNNABLE" /\ state'[q] = "RUNNABLE" /\ passVal'[q] = passVal[q] /\ q \in odd'
    BY <1>0, <1>8 DEF ForkRun, IsFree, In, TypeOK, strideData
  <2>3. \A q \in Slots \ W : state'[q] = state[q] /\ passVal'[q] = passVal[q]
    BY <1>0, <1>8 DEF ForkRun, TypeOK, strideData
  <2>4. W \in SUBSET Slots /\ odd \ W \subseteq odd' /\ UNCHANGED <<globalMinPassVal, overtook>>
    BY <1>8 DEF ForkRun
  <2> HIDE DEF W
  <2>5. QED BY <2>1, <2>2, <2>3, <2>4, Enters
<1>9. ASSUME NEW c \in Slots, ForkFill(c) PROVE StrideInv'
  <2>1. filler[c] \in Fillers
    BY <1>0 DEF TypeOK
  <2>2. filler' \in [Slots -> Fillers]
    <3>1. \A x \in {"strideVal", "load", "store"} : [filler[c] EXCEPT !.next = x] \in Fillers
      BY <2>1 DEF Fillers
    <3>2. [filler[c] EXCEPT !.next = "store", !.val = globalMinPassVal] \in Fillers
      BY <1>0, <2>1 DEF Fillers, TypeOK
    <3>3. PICK f \in Fillers : filler' = [filler EXCEPT ![c] = f]
      BY <1>9, <3>1, <3>2 DEF ForkFill
    <3>4. QED BY <1>0, <3>3 DEF TypeOK
  <2>3. numTickets' \in [Slots -> {0} \cup Tickets] /\ strideVal' \in [Slots -> 0..MaxStride]
    BY <1>0, <1>9, Constants DEF ForkFill, TypeOK
  <2>4. UNCHANGED <<state, passVal, globalMinPassVal, odd, overtook>>
    BY <1>9 DEF ForkFill, history
  <2>5. TypeOK'
    BY <1>0, <2>2, <2>3, <2>4 DEF TypeOK
  <2>6. QED BY <2>4, <2>5, Aside
<1>10. ASSUME NEW c \in Slots, ForkStore(c) PROVE StrideInv'
  BY <1>10, StoreKeeps
<1>11. ASSUME NEW c \in Slots, Reap(c) PROVE StrideInv'
  <2>1. c \in In("ZOMBIE") /\ state' = [state EXCEPT ![c] = "UNUSED"]
        /\ UNCHANGED <<strideData, globalMinPassVal, filler, odd, overtook>>
    BY <1>11 DEF Reap, history
  <2>2. TypeOK'
    BY <1>0, <2>1 DEF TypeOK, strideData
  <2>3. Ready' = Ready
    BY <1>0, <2>1 DEF Ready, In, TypeOK
  <2>4. NoLaggard'
    BY <2>1, <2>3 DEF StrideInv, NoLaggard, strideData
  <2>5. \A w \in Slots : state[w] = "RUNNABLE" => state'[w] = "RUNNABLE"
    BY <1>0, <2>1 DEF In, TypeOK
  <2>6. Behind'
    <3> SUFFICES ASSUME NEW w \in Slots
                 PROVE  /\ state'[w] # "RUNNABLE" => overtook[w] = {}
                        /\ overtook[w] # {} => globalMinPassVal <= passVal[w]
                        /\ \A p \in overtook[w] : passVal[p] <= passVal[w] + MaxStride
      BY <2>1 DEF Behind, strideData
    <3>1. QED BY <2>5 DEF StrideInv, Behind
  <2>7. QED BY <2>2, <2>4, <2>6 DEF StrideInv
<1>12. ASSUME NEW s \in Slots, NEW n \in Tickets, SetTickets(s, n) PROVE StrideInv'
  <2>1. TypeOK'
    <3>1. numTickets' \in [Slots -> {0} \cup Tickets]
      BY <1>0, <1>12 DEF SetTickets, TypeOK
    <3>2. strideVal' \in [Slots -> 0..MaxStride]
      BY <1>0, <1>12, Constants DEF SetTickets, TypeOK
    <3>3. UNCHANGED <<state, passVal, globalMinPassVal, filler, odd, overtook>>
      BY <1>12 DEF SetTickets, history
    <3>4. QED BY <1>0, <3>1, <3>2, <3>3 DEF TypeOK
  <2>2. UNCHANGED <<state, passVal, globalMinPassVal, odd, overtook>>
    BY <1>12 DEF SetTickets, history
  <2>3. QED BY <2>1, <2>2, Aside
<1>13. QED BY <1>1, <1>2, <1>3, <1>4, <1>5, <1>6, <1>7, <1>8, <1>9, <1>10, <1>11, <1>12 DEF Next

LEMMA StrideInvariance == Calm => (Spec => []StrideInv)
<1> SUFFICES ASSUME Calm PROVE Spec => []StrideInv
  OBVIOUS
<1>1. StrideInv /\ [Next]_strideVars => StrideInv'
  BY StrideKeeps
<1>2. QED BY <1>1, Starts, PTL DEF Spec

\* Fewer processes are behind the pass value that was chosen last than there are
\* processors.
THEOREM LaggardsAreFew == Calm => (Spec => []NoLaggard)
<1>1. StrideInv => NoLaggard
  BY DEF StrideInv
<1>2. QED BY <1>1, StrideInvariance, PTL

\* Whoever is chosen while another waits comes no more than a stride ahead of it.
THEOREM NobodyRunsAway == Calm => (Spec => []NoRunaway)
<1>1. StrideInv => NoRunaway
  BY DEF StrideInv, Behind, NoRunaway, In
<1>2. QED BY <1>1, StrideInvariance, PTL

-----------------------------------------------------------------------------
\* Nobody comes in or moves with a pass value from before all that are current.
Forward == \A m \in Current' : \E n \in Current : n <= m

LEMMA Onward ==
  ASSUME TypeOK, globalMinPassVal' \in Current,
         \A p \in Ready' : \/ passVal'[p] = globalMinPassVal
                           \/ p \in Ready /\ passVal'[p] \in Int /\ passVal[p] <= passVal'[p]
  PROVE  Forward
<1>1. \A n \in Current : n \in Int
  BY DEF Current, TypeOK, Passes, Ready, In
<1>2. globalMinPassVal \in Current
  BY DEF Current
<1>3. SUFFICES ASSUME NEW m \in Current' PROVE \E n \in Current : n <= m
  BY DEF Forward
<1>4. CASE m = globalMinPassVal'
  BY <1>1, <1>4
<1>5. ASSUME NEW p \in Ready', m = passVal'[p] PROVE \E n \in Current : n <= m
  <2>1. CASE passVal'[p] = globalMinPassVal
    BY <1>1, <1>2, <1>5, <2>1
  <2>2. CASE p \in Ready /\ passVal[p] <= passVal'[p]
    BY <1>5, <2>2 DEF Current
  <2>3. QED BY <1>5, <2>1, <2>2
<1>6. QED BY <1>4, <1>5 DEF Current

\* Who enters or leaves at the pass value it has is no step back.
LEMMA OnwardUnmoved ==
  ASSUME TypeOK, globalMinPassVal' = globalMinPassVal,
         \A p \in Ready' : \/ passVal'[p] = globalMinPassVal
                           \/ p \in Ready /\ passVal'[p] = passVal[p]
  PROVE  Forward
<1>1. \A p \in Ready' : p \in Ready => p \in Slots /\ passVal[p] \in Int
  BY DEF TypeOK, Passes, Ready, In
<1>2. \A p \in Ready' : \/ passVal'[p] = globalMinPassVal
                        \/ p \in Ready /\ passVal'[p] \in Int /\ passVal[p] <= passVal'[p]
  BY <1>1
<1>3. globalMinPassVal' \in Current
  BY DEF Current
<1>4. QED BY <1>2, <1>3, Onward

LEMMA NextIsForward ==
  ASSUME Calm, TypeOK, [Next]_strideVars
  PROVE  \/ Forward
         \/ \E c \in Slots : KillSleeper(c) \/ ForkStore(c) \/ \E s \in Slots : ForkRun(s, c)
<1>1. CASE UNCHANGED strideVars
  <2>1. globalMinPassVal' = globalMinPassVal /\ passVal' = passVal /\ Ready' = Ready
    BY <1>1 DEF strideVars, Ready, In
  <2>2. QED BY <2>1, OnwardUnmoved
<1>2. ASSUME NEW s \in Slots, Schedule(s) PROVE Forward
  <2>1. /\ state[s] = "RUNNABLE" /\ state' = [state EXCEPT ![s] = "RUNNING"]
        /\ globalMinPassVal' = passVal[s]
        /\ passVal' \in [Slots -> Passes]
        /\ passVal'[s] \in passVal[s]..(passVal[s] + MaxStride)
        /\ \A p \in Slots \ {s} : passVal'[p] = passVal[p]
    BY <1>2, ScheduleDoes
  <2>2. s \in Ready /\ Ready' = Ready
    BY <2>1 DEF Ready, In, TypeOK
  <2>3. globalMinPassVal' \in Current
    BY <2>1, <2>2 DEF Current
  <2>4. \A p \in Ready' : p \in Slots /\ passVal[p] \in Int /\ passVal'[p] \in Int
    BY <2>1, <2>2 DEF TypeOK, Passes, Ready, In
  <2>5. \A p \in Ready' : passVal[p] <= passVal'[p]
    BY <2>1, <2>4, Constants
  <2>6. QED BY <2>2, <2>3, <2>4, <2>5, Onward
<1>3. ASSUME NEW s \in Slots, Yield(s) \/ Sleep(s) \/ Exit(s) \/ Reap(s) PROVE Forward
  <2>1. globalMinPassVal' = globalMinPassVal /\ passVal' = passVal
    BY <1>3 DEF Yield, Sleep, Exit, Reap, strideData
  <2>2. Ready' \subseteq Ready
    BY <1>3 DEF Yield, Sleep, Exit, Reap, Ready, In, TypeOK
  <2>3. QED BY <2>1, <2>2, OnwardUnmoved
<1>4. ASSUME NEW c \in Slots, ForkFill(c) PROVE Forward
  <2>1. globalMinPassVal' = globalMinPassVal /\ passVal' = passVal /\ Ready' = Ready
    BY <1>4 DEF ForkFill, Ready, In
  <2>2. QED BY <2>1, OnwardUnmoved
<1>5. ASSUME NEW W \in SUBSET Slots, Wakeup(W) PROVE Forward
  <2>1. globalMinPassVal' = globalMinPassVal
    BY <1>5 DEF Wakeup
  <2>2. \A p \in Ready' : passVal'[p] = globalMinPassVal \/ (p \in Ready /\ passVal'[p] = passVal[p])
    BY <1>5 DEF Wakeup, Ready, In
  <2>3. QED BY <2>1, <2>2, OnwardUnmoved
<1>6. ASSUME NEW s \in Slots, NEW c \in Slots, Fork(s, c) PROVE Forward
  <2>1. globalMinPassVal' = globalMinPassVal
    BY <1>6 DEF Fork
  <2>2. \A p \in Ready' : passVal'[p] = globalMinPassVal \/ (p \in Ready /\ passVal'[p] = passVal[p])
    BY <1>6 DEF Fork, Ready, In, TypeOK
  <2>3. QED BY <2>1, <2>2, OnwardUnmoved
<1>7. ASSUME NEW s \in Slots, NEW n \in Tickets, SetTickets(s, n) PROVE Forward
  <2>1. globalMinPassVal' = globalMinPassVal /\ passVal' = passVal /\ Ready' = Ready
    BY <1>7 DEF SetTickets, Ready, In
  <2>2. QED BY <2>1, OnwardUnmoved
<1>8. QED BY <1>1, <1>2, <1>3, <1>4, <1>5, <1>6, <1>7 DEF Next

\* Only the kill of a sleeper and a fork that is overtaken lead back in time.
THEOREM TimeMovesForward == Calm => (Spec => TimeNeverTurnsBack)
<1> SUFFICES ASSUME Calm PROVE Spec => TimeNeverTurnsBack
  OBVIOUS
<1>1. StrideInv /\ [Next]_strideVars
        => [\/ \A m \in Current' : \E n \in Current : n <= m
            \/ \E c \in Slots : KillSleeper(c) \/ ForkStore(c) \/ \E s \in Slots : ForkRun(s, c)]_strideVars
  BY NextIsForward DEF Forward, StrideInv
<1>2. QED BY <1>1, StrideInvariance, PTL DEF Spec, TimeNeverTurnsBack

=============================================================================
