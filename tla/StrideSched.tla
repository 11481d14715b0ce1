----------------------------- MODULE StrideSched -----------------------------
(***************************************************************************)
(* The stride scheduler of p2/stride/xv6/kernel/proc.c.  Every process has *)
(* a pass value; the scheduler takes the runnable process with the         *)
(* smallest one and adds the process's stride to it.  A new or woken       *)
(* process starts at the pass value chosen last (globalMinPassVal).        *)
(*                                                                         *)
(* What happens under ptable.lock is one step, on any number of            *)
(* processors.  fork fills in the stride data without the lock, after it   *)
(* has made the child RUNNABLE: when it is interrupted there, or another   *)
(* processor is faster (Preempts), these are steps of their own.           *)
(* n_schedule, which nothing reads but getpinfo, and the EMBRYO state of a *)
(* slot that fork has taken are left out.                                  *)
(*                                                                         *)
(* Two history variables say for whom the pass value means what it should: *)
(* odd, and overtook, from which the code's decisions do not follow.       *)
(***************************************************************************)
EXTENDS Integers, FiniteSets

CONSTANTS
  NPROC,            \* slots of the process table
  NCPU,             \* processors (2 in the Makefile)
  STRIDE,           \* dividend of the stride (15000)
  INIT_TICKET_VAL,  \* tickets of a new process (10)
  Tickets,          \* what settickets accepts (10, 20, .. 150)
  ULong,            \* number of values of an unsigned long (2^32)
  MaxPass,          \* bound: no pass value is advanced beyond it
  Preempts,         \* slots whose fork may be overtaken between its assignments
  Interrupts,       \* whether devices wake processes, too
  Kills             \* whether sleeping processes are killed

StrideOf(n) == STRIDE \div n
MaxStride   == StrideOf(INIT_TICKET_VAL)      \* a new process has the fewest tickets

ASSUME StrideAssumption ==
  /\ NPROC \in Nat /\ NCPU \in Nat \ {0} /\ STRIDE \in Nat
  /\ INIT_TICKET_VAL \in Tickets /\ Tickets \subseteq 1..STRIDE
  /\ MaxStride \in Nat /\ \A n \in Tickets : StrideOf(n) \in 1..MaxStride
  /\ ULong \in Nat \ {0} /\ MaxPass \in Nat
  /\ Preempts \subseteq 1..NPROC /\ Interrupts \in BOOLEAN /\ Kills \in BOOLEAN

VARIABLES
  state,                            \* of each slot
  numTickets, strideVal, passVal,   \* strideData of each slot
  globalMinPassVal,
  filler,                           \* filler[c]: who is filling in slot c, what comes next, and
                                    \* the value of globalMinPassVal that it has read
  odd,                              \* history: who has a pass value from another time, since it was
                                    \* killed in its sleep or its fork did not come to the end
  overtook                          \* history: who has been chosen while w waited, for each w

strideVars == <<state, numTickets, strideVal, passVal, globalMinPassVal, filler,
                odd, overtook>>
strideData == <<numTickets, strideVal, passVal>>
history    == <<odd, overtook>>

Slots     == 1..NPROC
Passes    == 0..(ULong - 1)
NoFiller  == [by |-> 0, next |-> "none", val |-> 0]
Fillers   == [by : 0..NPROC, next : {"none", "numTickets", "strideVal", "load", "store"},
              val : Passes]

TypeOK ==
  /\ state \in [Slots -> {"UNUSED", "SLEEPING", "RUNNABLE", "RUNNING", "ZOMBIE"}]
  /\ numTickets \in [Slots -> {0} \cup Tickets]
  /\ strideVal \in [Slots -> 0..MaxStride]
  /\ passVal \in [Slots -> Passes]
  /\ globalMinPassVal \in Passes
  /\ filler \in [Slots -> Fillers]
  /\ odd \in SUBSET Slots
  /\ overtook \in [Slots -> SUBSET Slots]

In(st)  == {p \in Slots : state[p] = st}
Free(s) == \A c \in Slots : filler[c].by # s     \* s is not inside fork

\* userinit: the first process has tickets, but its stride stays 0.  It has
\* forked the other processes of the start and sleeps in wait.
Init ==
  /\ \E n \in Slots :
       state = [p \in Slots |-> IF p = 1 THEN "SLEEPING"
                                ELSE IF p <= n THEN "RUNNABLE" ELSE "UNUSED"]
  /\ numTickets = [p \in Slots |-> IF state[p] = "UNUSED" THEN 0 ELSE INIT_TICKET_VAL]
  /\ strideVal = [p \in Slots |-> IF state[p] # "RUNNABLE" THEN 0 ELSE MaxStride]
  /\ passVal = [p \in Slots |-> 0]
  /\ globalMinPassVal = 0
  /\ filler = [p \in Slots |-> NoFiller]
  /\ odd = {}
  /\ overtook = [p \in Slots |-> {}]

-----------------------------------------------------------------------------
(* The scheduler. *)

\* Variant of the scan: it takes the first that can run.
ChosenFirst(s) ==
  /\ s \in In("RUNNABLE") /\ passVal[s] # ULong - 1
  /\ \A p \in In("RUNNABLE") : s <= p

\* The scan keeps the first process with the smallest pass value; -1 stands
\* for "none yet", so the largest unsigned long looks like no process at all.
Chosen(s) ==
  /\ s \in In("RUNNABLE") /\ passVal[s] # ULong - 1
  /\ \A p \in In("RUNNABLE") :
       passVal[s] < passVal[p] \/ (passVal[s] = passVal[p] /\ s <= p)

Schedule(s) ==
  /\ Cardinality(In("RUNNING")) < NCPU
  /\ Chosen(s)
  /\ passVal[s] + strideVal[s] <= MaxPass
  /\ globalMinPassVal' = passVal[s]
  /\ state' = [state EXCEPT ![s] = "RUNNING"]
  /\ passVal' = [passVal EXCEPT ![s] = (@ + strideVal[s]) % ULong]
  /\ odd' = odd \ {s}
  /\ overtook' = [w \in Slots |-> IF w \in In("RUNNABLE") \ {s} THEN overtook[w] \cup {s} ELSE {}]
  /\ UNCHANGED <<numTickets, strideVal, filler>>

\* The timer: yield
Yield(s) ==
  /\ s \in In("RUNNING")
  /\ state' = [state EXCEPT ![s] = "RUNNABLE"]
  /\ UNCHANGED <<strideData, globalMinPassVal, filler, history>>

-----------------------------------------------------------------------------
(* Sleep and wake-up. *)

Sleep(s) ==
  /\ s \in In("RUNNING") /\ Free(s)
  /\ state' = [state EXCEPT ![s] = "SLEEPING"]
  /\ UNCHANGED <<strideData, globalMinPassVal, filler, history>>

\* Variant of wakeup: the old pass value is kept.
WakeupKeeps(W) ==
  /\ Interrupts \/ In("RUNNING") # {}
  /\ W # {} /\ W \subseteq In("SLEEPING")
  /\ state' = [p \in Slots |-> IF p \in W THEN "RUNNABLE" ELSE state[p]]
  /\ odd' = odd \ W
  /\ UNCHANGED <<strideData, globalMinPassVal, filler, overtook>>

\* wakeup1 of the channel on which the processes W sleep, called by a running
\* process or by an interrupt.
Wakeup(W) ==
  /\ Interrupts \/ In("RUNNING") # {}
  /\ W # {} /\ W \subseteq In("SLEEPING")
  /\ state' = [p \in Slots |-> IF p \in W THEN "RUNNABLE" ELSE state[p]]
  /\ passVal' = [p \in Slots |-> IF p \in W THEN globalMinPassVal ELSE passVal[p]]
  /\ odd' = odd \ W
  /\ UNCHANGED <<numTickets, strideVal, globalMinPassVal, filler, overtook>>

\* kill makes a sleeper runnable without touching its pass value.
KillSleeper(p) ==
  /\ Kills /\ p \in In("SLEEPING") \ {1}
  /\ state' = [state EXCEPT ![p] = "RUNNABLE"]
  /\ odd' = odd \cup {p}
  /\ UNCHANGED <<strideData, globalMinPassVal, filler, overtook>>

-----------------------------------------------------------------------------
(* fork, exit and settickets. *)

\* allocproc has taken slot c; other forks may have begun or ended since.
IsFree(c) == c \in In("UNUSED")

\* Variant of fork: the child starts from nothing.
ForkFromZero(s, c) ==
  /\ s \in In("RUNNING") /\ Free(s) /\ IsFree(c)
  /\ state' = [state EXCEPT ![c] = "RUNNABLE"]
  /\ numTickets' = [numTickets EXCEPT ![c] = INIT_TICKET_VAL]
  /\ strideVal' = [strideVal EXCEPT ![c] = MaxStride]
  /\ passVal' = [passVal EXCEPT ![c] = 0]
  /\ odd' = odd \ {c}
  /\ UNCHANGED <<globalMinPassVal, filler, overtook>>

\* fork when nothing happens between lines 165 and 171.
Fork(s, c) ==
  /\ s \in In("RUNNING") /\ Free(s) /\ IsFree(c)
  /\ state' = [state EXCEPT ![c] = "RUNNABLE"]
  /\ numTickets' = [numTickets EXCEPT ![c] = INIT_TICKET_VAL]
  /\ strideVal' = [strideVal EXCEPT ![c] = MaxStride]
  /\ passVal' = [passVal EXCEPT ![c] = globalMinPassVal]
  /\ odd' = odd \ {c}
  /\ UNCHANGED <<globalMinPassVal, filler, overtook>>

\* np->state = RUNNABLE, with the stride data of the slot's last user.
ForkRun(s, c) ==
  /\ c \in Preempts
  /\ s \in In("RUNNING") /\ Free(s) /\ IsFree(c)
  /\ state' = [state EXCEPT ![c] = "RUNNABLE"]
  /\ filler' = [filler EXCEPT ![c] = [by |-> s, next |-> "numTickets", val |-> 0]]
  /\ odd' = odd \cup {c}
  /\ UNCHANGED <<strideData, globalMinPassVal, overtook>>

\* The next assignment of fork to the stride data of c.  The last one first
\* reads globalMinPassVal.
ForkFill(c) ==
  /\ filler[c].by \in In("RUNNING")
  /\ \/ /\ filler[c].next = "numTickets"
        /\ numTickets' = [numTickets EXCEPT ![c] = INIT_TICKET_VAL]
        /\ filler' = [filler EXCEPT ![c].next = "strideVal"]
        /\ UNCHANGED strideVal
     \/ /\ filler[c].next = "strideVal"
        /\ strideVal' = [strideVal EXCEPT ![c] = MaxStride]
        /\ filler' = [filler EXCEPT ![c].next = "load"]
        /\ UNCHANGED numTickets
     \/ /\ filler[c].next = "load"
        /\ filler' = [filler EXCEPT ![c].next = "store", ![c].val = globalMinPassVal]
        /\ UNCHANGED <<numTickets, strideVal>>
  /\ UNCHANGED <<state, passVal, globalMinPassVal, history>>

\* np->strideData.passVal gets the value read.  If another processor runs c, its
\* scheduler may have been adding the stride at the same time: the store is
\* lost, or the stride is added to what is stored.
ForkStore(c) ==
  /\ filler[c].by \in In("RUNNING") /\ filler[c].next = "store"
  /\ \/ passVal' = [passVal EXCEPT ![c] = filler[c].val]
     \/ /\ state[c] = "RUNNING"
        /\ \/ UNCHANGED passVal
           \/ /\ filler[c].val + strideVal[c] <= MaxPass
              /\ passVal' = [passVal EXCEPT ![c] = (filler[c].val + strideVal[c]) % ULong]
  /\ filler' = [filler EXCEPT ![c] = NoFiller]
  /\ odd' = odd \cup {c}
  /\ overtook' = [w \in Slots |-> IF w = c THEN {} ELSE overtook[w] \ {c}]
  /\ UNCHANGED <<state, numTickets, strideVal, globalMinPassVal>>

\* exit
Exit(s) ==
  /\ s \in In("RUNNING") \ {1} /\ Free(s)
  /\ state' = [state EXCEPT ![s] = "ZOMBIE"]
  /\ overtook' = [w \in Slots |-> overtook[w] \ {s}]
  /\ UNCHANGED <<strideData, globalMinPassVal, filler, odd>>

\* wait in the parent, which is not still inside the fork that made c.  The
\* stride data stay in the slot.
Reap(c) ==
  /\ c \in In("ZOMBIE") /\ filler[c] = NoFiller /\ In("RUNNING") # {}
  /\ state' = [state EXCEPT ![c] = "UNUSED"]
  /\ UNCHANGED <<strideData, globalMinPassVal, filler, history>>

\* proc_settickets of a value it accepts.
SetTickets(s, n) ==
  /\ s \in In("RUNNING") /\ Free(s)
  /\ numTickets' = [numTickets EXCEPT ![s] = n]
  /\ strideVal' = [strideVal EXCEPT ![s] = StrideOf(n)]
  /\ UNCHANGED <<state, passVal, globalMinPassVal, filler, history>>

-----------------------------------------------------------------------------
Next ==
  \/ \E s \in Slots : Schedule(s) \/ Yield(s) \/ Sleep(s) \/ KillSleeper(s) \/ Exit(s) \/ Reap(s)
  \/ \E c \in Slots : ForkFill(c) \/ ForkStore(c)
  \/ \E W \in SUBSET Slots : Wakeup(W)
  \/ \E s, c \in Slots : Fork(s, c) \/ ForkRun(s, c)
  \/ \E s \in Slots, n \in Tickets : SetTickets(s, n)

Spec == Init /\ [][Next]_strideVars

\* The processor never stops choosing, the timer and the processes go on.
FairSpec == Spec /\ \A s \in Slots : WF_strideVars(Schedule(s)) /\ WF_strideVars(Yield(s) \/ Sleep(s))

\* Processes that only compute.
BusyNext == \E s \in Slots : Schedule(s) \/ Yield(s) \/ \E n \in Tickets : SetTickets(s, n)

BusyFairSpec == Init /\ [][BusyNext]_strideVars
                     /\ \A s \in Slots : WF_strideVars(Schedule(s)) /\ WF_strideVars(Yield(s))

-----------------------------------------------------------------------------
Ready   == In("RUNNABLE") \cup In("RUNNING")
Current == {globalMinPassVal} \cup {passVal[p] : p \in Ready}

\* Fewer processes are behind the pass value chosen last than there are
\* processors, with one processor none: a process that is behind keeps a
\* processor until it has caught up, and if as many were behind as there are
\* processors nobody else would run.  Those whose pass value is odd are left out.
NoLaggard ==
  Cardinality({p \in Ready \ odd : passVal[p] < globalMinPassVal}) < NCPU

\* Whoever has been chosen while w waited has come no more than one stride ahead
\* of w, whatever it has done since: run, slept, been woken or killed.
NoRunaway ==
  \A w \in In("RUNNABLE") : \A p \in overtook[w] : passVal[p] <= passVal[w] + MaxStride

\* There is one line of time: no step leads back behind the pass value chosen
\* last and those of all who are ready, but the kill of a sleeper and a fork that
\* does not fill in its child's pass value at once.
TimeNeverTurnsBack ==
  [][\/ \A m \in Current' : \E n \in Current : n <= m
     \/ \E c \in Slots : KillSleeper(c) \/ ForkStore(c) \/ \E s \in Slots : ForkRun(s, c)]_strideVars

\* Whoever can run does run: a fork or a wake-up at the smallest pass value does
\* not starve the others.
RunnableRuns == \A p \in Slots : (state[p] = "RUNNABLE") ~> (state[p] # "RUNNABLE")

-----------------------------------------------------------------------------
(* Four properties the code does not have; no run claims them, the README    *)
(* says with which constants TLC shows why.                                  *)

\* The pass value chosen last never falls.  It does with two processors: what ran
\* on one of them comes back behind what the other has chosen meanwhile.
GlobalMinNeverFalls == [][globalMinPassVal' >= globalMinPassVal]_strideVars

\* A process that is chosen moves on by its share.  userinit forgets the stride.
MovesByItsStride ==
  [][\A s \in Slots : Schedule(s) => passVal'[s] = passVal[s] + StrideOf(numTickets[s])]_strideVars

\* Every process but the first has the stride its tickets call for, once the
\* fork that made it is through.  A child that calls settickets before its
\* parent has filled in the stride ends with tickets of its own and fork's stride.
StrideMatchesTickets ==
  \A p \in Slots \ {1} :
    (state[p] # "UNUSED" /\ filler[p] = NoFiller) => strideVal[p] = StrideOf(numTickets[p])

\* A wake-up helps the ones that have fallen behind and gives nobody a lead.
\* wakeup1 also takes back the pass value of those that are ahead.
WakeupOnlyRaises ==
  [][\A p \in Slots : state[p] = "SLEEPING" /\ state'[p] = "RUNNABLE"
                        => passVal'[p] >= passVal[p]]_strideVars

=============================================================================
