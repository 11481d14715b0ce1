------------------------------ MODULE ProcTable ------------------------------
(***************************************************************************)
(* The process table of the threaded xv6 kernel (p4/xv6/kernel/proc.c):    *)
(* fork, clone, exit, wait, join, kill, exec, ticket_sleep, wake, and the  *)
(* scheduler.  Everything a handler does between acquire(&ptable.lock) and *)
(* the next release or sched() is one step; what it does without the lock  *)
(* is a step of its own, so every interleaving the lock permits is here.   *)
(*                                                                         *)
(* A process is named by its slot.  Slot 1 is initproc.  pc[s] is the      *)
(* place in the kernel where the process in slot s continues, idx[s] and   *)
(* jpid[s] are its local variables (the slot being filled or scanned, the  *)
(* pid argument).                                                          *)
(***************************************************************************)
EXTENDS Integers, FiniteSets

CONSTANTS
  NPROC,      \* slots of the table (64 in param.h)
  NCPU,       \* processors
  MaxPid,     \* bound: no pid above it is handed out
  InitOps,    \* system calls initproc issues
  ProcOps,    \* system calls ordinary processes issue
  ThreadOps,  \* system calls threads issue
  JoinArgs,   \* pids passed to join
  KillArgs    \* pids passed to kill and wake

AllOps == {"fork", "clone", "wait", "join", "kill", "exit", "exec",
           "ticket_sleep", "wake"}

ASSUME ConstantsAssumption ==
  /\ NPROC \in Nat /\ NPROC > 1
  /\ NCPU \in Nat \ {0}
  /\ MaxPid \in Nat /\ MaxPid > 1
  /\ InitOps \subseteq AllOps \ {"exit", "exec"}
  /\ ProcOps \subseteq AllOps
  /\ ThreadOps \subseteq AllOps
  /\ JoinArgs \subseteq {-1} \cup 1..MaxPid
  /\ KillArgs \subseteq 0..MaxPid \ {1}   \* a killed initproc panics the kernel

Slots    == 1..NPROC
InitProc == 1
Freed    == -1                      \* the page table has been given back
Spaces   == 1..(NPROC + 1)          \* names of live page tables

VARIABLES
  state, pid, parent, killed, isThread, chan, space,   \* struct proc
  pc, idx, jpid,                                       \* where its kernel code is
  nextpid,
  disturbed   \* history: has anybody done what exit does not provide for?

(* What disturbs: a kill that exit has not sent, a thread in clone or join,  *)
(* an exec of a process whose page table others use (README, "What the code  *)
(* does not promise").                                                       *)

table == <<state, pid, parent, killed, isThread, chan, space>>
local == <<pc, idx, jpid>>
vars  == <<state, pid, parent, killed, isThread, chan, space, pc, idx, jpid,
           nextpid, disturbed>>

States == {"UNUSED", "EMBRYO", "SLEEPING", "RUNNABLE", "RUNNING", "ZOMBIE"}
Places == {"none", "user", "fork_fill", "fork_flag", "fork_run",
           "clone_fill", "clone_flag", "clone_run", "wait", "join",
           "ticket_sleep", "exit_scan", "exit_read", "exit_kill",
           "exit_reread", "exit_join", "dead"}

TypeOK ==
  /\ state    \in [Slots -> States]
  /\ pid      \in [Slots -> 0..MaxPid]
  /\ parent   \in [Slots -> 0..NPROC]
  /\ killed   \in [Slots -> BOOLEAN]
  /\ isThread \in [Slots -> BOOLEAN]
  /\ chan     \in [Slots -> 0..NPROC]
  /\ space    \in [Slots -> {Freed, 0} \cup Spaces]
  /\ pc       \in [Slots -> Places]
  /\ idx      \in [Slots -> 0..NPROC]
  /\ jpid     \in [Slots -> -1..MaxPid]
  /\ nextpid  \in 1..(MaxPid + 1)

-----------------------------------------------------------------------------
(* Helpers over the table. *)

InUse(q) == state[q] # "UNUSED"
Live(q)  == state[q] \in {"RUNNABLE", "RUNNING", "SLEEPING"}

\* j is the slot of S that a scan of the table meets first.
IsFirst(S, j) == j \in S /\ \A i \in S : j <= i

\* wakeup1(chan) for every channel in C.
WakeOn(C) ==
  [q \in Slots |-> IF state[q] = "SLEEPING" /\ chan[q] \in C
                     THEN "RUNNABLE" ELSE state[q]]

\* A page table no process in the table refers to.
FreshSpace == CHOOSE v \in Spaces : \A q \in Slots : space[q] # v

\* freevm(v), seen from every slot that still holds v.
FreeSpace(v) ==
  [q \in Slots |-> IF v \in Spaces /\ space[q] = v THEN Freed ELSE space[q]]

\* Variant: wait forgets to skip threads.
IsChildOrThread(s, q) == parent[q] = s

IsChild(s, q) == parent[q] = s /\ ~isThread[q]

\* The test of proc_join: q is a thread of s, or a sibling thread of thread s.
Joinable(s, k, q) ==
  /\ isThread[q]
  /\ parent[q] = s \/ (parent[q] = parent[s] /\ isThread[s])
  /\ k = -1 \/ pid[q] = k

Ops(s) == IF s = InitProc THEN InitOps
          ELSE IF isThread[s] THEN ThreadOps ELSE ProcOps

\* s is on a processor and about to trap into the kernel for op; trap() lets
\* only processes that are not killed in.
Calls(s, op) ==
  /\ state[s] = "RUNNING" /\ pc[s] = "user" /\ ~killed[s]
  /\ op \in Ops(s)

At(s, place) == state[s] = "RUNNING" /\ pc[s] = place

Goto(s, place) == pc' = [pc EXCEPT ![s] = place]

\* Back to user mode: the locals of the finished call are dead.
Return(s) ==
  /\ Goto(s, "user")
  /\ idx'  = [idx EXCEPT ![s] = 0]
  /\ jpid' = [jpid EXCEPT ![s] = 0]

-----------------------------------------------------------------------------
(* Boot: userinit has made initproc, which has forked the shell and waits. *)
Init ==
  /\ state    = [q \in Slots |-> CASE q = 1 -> "SLEEPING" [] q = 2 -> "RUNNABLE"
                                   [] OTHER -> "UNUSED"]
  /\ pid      = [q \in Slots |-> IF q \in {1, 2} THEN q ELSE 0]
  /\ parent   = [q \in Slots |-> IF q = 2 THEN InitProc ELSE 0]
  /\ killed   = [q \in Slots |-> FALSE]
  /\ isThread = [q \in Slots |-> FALSE]
  /\ chan     = [q \in Slots |-> IF q = 1 THEN 1 ELSE 0]
  /\ space    = [q \in Slots |-> IF q \in {1, 2} THEN q ELSE 0]
  /\ pc       = [q \in Slots |-> CASE q = 1 -> "wait" [] q = 2 -> "user"
                                   [] OTHER -> "none"]
  /\ idx      = [q \in Slots |-> 0]
  /\ jpid     = [q \in Slots |-> 0]
  /\ nextpid  = 3
  /\ disturbed = FALSE

-----------------------------------------------------------------------------
(* The scheduler and yield. *)

Running == {q \in Slots : state[q] = "RUNNING"}

\* scheduler() picks s; a process that slept resumes after sched() in sleep()
\* and clears its channel.
Schedule(s) ==
  /\ state[s] = "RUNNABLE"
  /\ Cardinality(Running) < NCPU
  /\ state' = [state EXCEPT ![s] = "RUNNING"]
  /\ chan'  = [chan EXCEPT ![s] = 0]
  /\ UNCHANGED <<pid, parent, killed, isThread, space, local, nextpid, disturbed>>

\* A timer interrupt while no lock is held.
Yield(s) ==
  /\ state[s] = "RUNNING"
  /\ state' = [state EXCEPT ![s] = "RUNNABLE"]
  /\ UNCHANGED <<pid, parent, killed, isThread, chan, space, local, nextpid, disturbed>>

-----------------------------------------------------------------------------
(* allocproc, fork and clone. *)

\* The part of allocproc under the lock: neither killed, nor isThread, nor
\* parent of the slot is reset.
Alloc(s, j) ==
  /\ IsFirst({q \in Slots : ~InUse(q)}, j)
  /\ nextpid <= MaxPid
  /\ state' = [state EXCEPT ![j] = "EMBRYO"]
  /\ pid'   = [pid EXCEPT ![j] = nextpid]
  /\ nextpid' = nextpid + 1
  /\ idx'   = [idx EXCEPT ![s] = j]
  /\ UNCHANGED <<parent, killed, isThread, chan, space, jpid>>

ForkAlloc(s) ==
  /\ Calls(s, "fork") /\ ~isThread[s]
  /\ \E j \in Slots : Alloc(s, j)
  /\ Goto(s, "fork_fill")
  /\ UNCHANGED disturbed

CloneAlloc(s) ==
  /\ Calls(s, "clone")
  /\ \E j \in Slots : Alloc(s, j)
  /\ Goto(s, "clone_fill")
  /\ disturbed' = (disturbed \/ isThread[s])

\* kalloc fails in allocproc, or copyuvm in fork: the slot is given back
\* without the lock, its pid left in place.
AllocFails(s) ==
  /\ At(s, "fork_fill") \/ At(s, "clone_fill")
  /\ state' = [state EXCEPT ![idx[s]] = "UNUSED"]
  /\ Return(s)
  /\ UNCHANGED <<pid, parent, killed, isThread, chan, space, nextpid, disturbed>>

\* fork: copyuvm, then np->parent.
ForkFill(s) ==
  /\ At(s, "fork_fill")
  /\ space'  = [space EXCEPT ![idx[s]] = FreshSpace]
  /\ parent' = [parent EXCEPT ![idx[s]] = s]
  /\ Goto(s, "fork_flag")
  /\ UNCHANGED <<state, pid, killed, isThread, chan, idx, jpid, nextpid, disturbed>>

ForkFlag(s) ==
  /\ At(s, "fork_flag")
  /\ isThread' = [isThread EXCEPT ![idx[s]] = FALSE]
  /\ Goto(s, "fork_run")
  /\ UNCHANGED <<state, pid, parent, killed, chan, space, idx, jpid, nextpid, disturbed>>

\* clone: the parent is the process that owns the address space.
CloneFill(s) ==
  /\ At(s, "clone_fill")
  /\ parent' = [parent EXCEPT ![idx[s]] = IF isThread[s] THEN parent[s] ELSE s]
  /\ Goto(s, "clone_flag")
  /\ UNCHANGED <<state, pid, killed, isThread, chan, space, idx, jpid, nextpid, disturbed>>

CloneFlag(s) ==
  /\ At(s, "clone_flag")
  /\ space'    = [space EXCEPT ![idx[s]] = space[s]]
  /\ isThread' = [isThread EXCEPT ![idx[s]] = TRUE]
  /\ Goto(s, "clone_run")
  /\ UNCHANGED <<state, pid, parent, killed, chan, idx, jpid, nextpid, disturbed>>

\* np->state = RUNNABLE, without the lock.
Publish(s) ==
  /\ At(s, "fork_run") \/ At(s, "clone_run")
  /\ state' = [state EXCEPT ![idx[s]] = "RUNNABLE"]
  /\ pc'    = [pc EXCEPT ![s] = "user", ![idx[s]] = "user"]
  /\ idx'   = [idx EXCEPT ![s] = 0]
  /\ UNCHANGED <<pid, parent, killed, isThread, chan, space, jpid, nextpid, disturbed>>

\* exec: a new page table replaces the old one, which is freed whoever else
\* runs in it.
Exec(s) ==
  /\ Calls(s, "exec")
  /\ space' = [FreeSpace(space[s]) EXCEPT ![s] = FreshSpace]
  /\ disturbed' = (disturbed \/ \E q \in Slots \ {s} : space[q] = space[s])
  /\ UNCHANGED <<state, pid, parent, killed, isThread, chan, local, nextpid>>

-----------------------------------------------------------------------------
(* wait and join. *)

Call(s, op, k) ==
  /\ Calls(s, op)
  /\ Goto(s, op)
  /\ jpid' = [jpid EXCEPT ![s] = k]
  /\ disturbed' = (disturbed \/ (op = "join" /\ isThread[s]))
  /\ UNCHANGED <<table, idx, nextpid>>

CallWait(s) == Call(s, "wait", 0) /\ ~isThread[s]
CallJoin(s) == \E k \in JoinArgs : Call(s, "join", k)

\* The slot of a collected zombie: isThread stays as it was.
Reap(z) ==
  /\ state'  = [state EXCEPT ![z] = "UNUSED"]
  /\ pid'    = [pid EXCEPT ![z] = 0]
  /\ parent' = [parent EXCEPT ![z] = 0]
  /\ killed' = [killed EXCEPT ![z] = FALSE]

\* sleep(proc, &ptable.lock) in the loop of wait and join.
SleepOnSelf(s) ==
  /\ state' = [state EXCEPT ![s] = "SLEEPING"]
  /\ chan'  = [chan EXCEPT ![s] = s]

Children(s)    == {q \in Slots : IsChild(s, q)}
JoinSet(s)     == {q \in Slots : Joinable(s, jpid[s], q)}
Zombies(S)     == {q \in S : state[q] = "ZOMBIE"}

\* wait returns the pid of the first zombie child, whose page table dies.
WaitReaps(s) ==
  /\ At(s, "wait")
  /\ \E z \in Slots :
       /\ IsFirst(Zombies(Children(s)), z)
       /\ Reap(z)
       /\ space' = [FreeSpace(space[z]) EXCEPT ![z] = 0]
       /\ pc'    = [pc EXCEPT ![s] = "user", ![z] = "none"]
  /\ UNCHANGED <<isThread, chan, idx, jpid, nextpid, disturbed>>

WaitGivesUp(s) ==
  /\ At(s, "wait")
  /\ Zombies(Children(s)) = {}
  /\ Children(s) = {} \/ killed[s]
  /\ Return(s)
  /\ UNCHANGED <<table, nextpid, disturbed>>

WaitSleeps(s) ==
  /\ At(s, "wait")
  /\ Zombies(Children(s)) = {}
  /\ Children(s) # {} /\ ~killed[s]
  /\ SleepOnSelf(s)
  /\ UNCHANGED <<pid, parent, killed, isThread, space, local, nextpid, disturbed>>

\* proc_join, called from sys_join ("join") or from exit ("exit_join").
Joining(s) == At(s, "join") \/ At(s, "exit_join")

AfterJoin(s) == IF pc[s] = "join" THEN "user" ELSE "exit_scan"

JoinReaps(s) ==
  /\ Joining(s)
  /\ \E z \in Slots :
       /\ IsFirst(Zombies(JoinSet(s)), z)
       /\ Reap(z)
       /\ space' = [space EXCEPT ![z] = 0]
       /\ pc'    = [pc EXCEPT ![s] = AfterJoin(s), ![z] = "none"]
  /\ jpid' = [jpid EXCEPT ![s] = 0]
  /\ UNCHANGED <<isThread, chan, idx, nextpid, disturbed>>

JoinGivesUp(s) ==
  /\ Joining(s)
  /\ Zombies(JoinSet(s)) = {}
  /\ JoinSet(s) = {} \/ killed[s]
  /\ Goto(s, AfterJoin(s))
  /\ jpid' = [jpid EXCEPT ![s] = 0]
  /\ UNCHANGED <<table, idx, nextpid, disturbed>>

\* Variant: proc_join does not look at killed before it sleeps.
JoinSleepsKilled(s) ==
  /\ Joining(s)
  /\ Zombies(JoinSet(s)) = {}
  /\ JoinSet(s) # {}
  /\ SleepOnSelf(s)
  /\ UNCHANGED <<pid, parent, killed, isThread, space, local, nextpid, disturbed>>

JoinSleeps(s) ==
  /\ Joining(s)
  /\ Zombies(JoinSet(s)) = {}
  /\ JoinSet(s) # {} /\ ~killed[s]
  /\ SleepOnSelf(s)
  /\ UNCHANGED <<pid, parent, killed, isThread, space, local, nextpid, disturbed>>

-----------------------------------------------------------------------------
(* kill, wake and ticket_sleep. *)

\* Variant: kill leaves a sleeper asleep.
KillNoWake(k) ==
  /\ UNCHANGED state
  /\ \/ \E q \in Slots : /\ IsFirst({r \in Slots : pid[r] = k}, q)
                        /\ killed' = [killed EXCEPT ![q] = TRUE]
     \/ {r \in Slots : pid[r] = k} = {} /\ UNCHANGED killed

\* kill(k): the first slot with that pid, whatever its state.
KillEffect(k) ==
  LET hit == {q \in Slots : pid[q] = k} IN
  IF hit = {} THEN UNCHANGED <<state, killed>>
  ELSE \E q \in Slots :
         /\ IsFirst(hit, q)
         /\ killed' = [killed EXCEPT ![q] = TRUE]
         /\ state'  = IF state[q] = "SLEEPING"
                       THEN [state EXCEPT ![q] = "RUNNABLE"] ELSE state

Kill(s) ==
  /\ Calls(s, "kill")
  /\ \E k \in KillArgs : KillEffect(k)
  /\ disturbed' = (disturbed \/ killed' # killed)
  /\ UNCHANGED <<pid, parent, isThread, chan, space, local, nextpid>>

\* proc_wakeup(k): every process with that pid that sleeps, on any channel.
Wake(s) ==
  /\ Calls(s, "wake")
  /\ \E k \in KillArgs :
       state' = [q \in Slots |-> IF state[q] = "SLEEPING" /\ pid[q] = k
                                   THEN "RUNNABLE" ELSE state[q]]
  /\ UNCHANGED <<pid, parent, killed, isThread, chan, space, local, nextpid, disturbed>>

CallTicketSleep(s) == Call(s, "ticket_sleep", 0)

\* ticket_sleep(getpid(), lock): no channel, and no look at killed.
TicketSleep(s) ==
  /\ At(s, "ticket_sleep")
  /\ state' = [state EXCEPT ![s] = "SLEEPING"]
  /\ Goto(s, "user")
  /\ UNCHANGED <<pid, parent, killed, isThread, chan, space, idx, jpid, nextpid, disturbed>>

-----------------------------------------------------------------------------
(* exit. *)

\* sys_exit, or trap() on behalf of a killed process.  exit() closes the files
\* before it takes the lock; from here on the process never is in user mode.
StartExit(s) ==
  /\ At(s, "user")
  /\ killed[s] \/ "exit" \in Ops(s)
  /\ s # InitProc
  /\ Goto(s, "exit_scan")
  /\ UNCHANGED <<table, idx, jpid, nextpid, disturbed>>

\* Variant: exit stops its children as well.
ThreadsAndChildren(s) == {q \in Slots : parent[q] = s /\ state[q] # "UNUSED"}

Threads(s)     == {q \in Slots : isThread[q] /\ parent[q] = s}
ThreadsLeft(s) == {q \in Threads(s) : q > idx[s]}
Siblings(s)    == {q \in Slots : isThread[q] /\ parent[q] = parent[s]}

\* Variants of the loop of exit: no wakeup1(initproc) for adopted zombies, no
\* wakeup1(proc->parent), no hand-over of children.
ScanNoInitWake(s, stop, more) ==
  LET adopted == {q \in Children(s) : idx[s] < q /\ q < stop}
  IN /\ parent' = [q \in Slots |-> IF q \in adopted THEN InitProc ELSE parent[q]]
     /\ state'  = [q \in Slots |-> IF q = s THEN IF more THEN state[s] ELSE "ZOMBIE"
                      ELSE WakeOn(Siblings(s) \cup (IF more THEN {} ELSE {parent[s]}))[q]]
ScanNoParentWake(s, stop, more) ==
  LET adopted == {q \in Children(s) : idx[s] < q /\ q < stop}
  IN /\ parent' = [q \in Slots |-> IF q \in adopted THEN InitProc ELSE parent[q]]
     /\ state'  = [q \in Slots |-> IF q = s THEN IF more THEN state[s] ELSE "ZOMBIE"
                      ELSE WakeOn(Siblings(s) \cup {InitProc})[q]]
ScanNoAdoption(s, stop, more) ==
  /\ UNCHANGED parent
  /\ state'  = [q \in Slots |-> IF q = s THEN IF more THEN state[s] ELSE "ZOMBIE"
                   ELSE WakeOn(Siblings(s) \cup (IF more THEN {} ELSE {parent[s]}))[q]]

\* The loop of exit up to, but not including, slot stop: children go to
\* initproc, sibling threads are woken.  idx[s] is the slot whose thread was
\* just joined, or 0.
ScanTo(s, stop, more) ==
  LET adopted == {q \in Children(s) : idx[s] < q /\ q < stop}
      woken   == {q \in Siblings(s) : idx[s] <= q /\ q < stop}
                   \cup (IF Zombies(adopted) # {} THEN {InitProc} ELSE {})
  IN /\ parent' = [q \in Slots |-> IF q \in adopted THEN InitProc ELSE parent[q]]
     /\ state'  = [q \in Slots |-> IF q = s THEN IF more THEN state[s] ELSE "ZOMBIE"
                      ELSE WakeOn(woken \cup (IF more THEN {} ELSE {parent[s]}))[q]]

\* The scan meets a thread of s and drops the lock to kill and join it.
ExitMeetsThread(s) ==
  /\ At(s, "exit_scan")
  /\ \E t \in Slots :
       /\ IsFirst(ThreadsLeft(s), t)
       /\ ScanTo(s, t, TRUE)
       /\ idx' = [idx EXCEPT ![s] = t]
  /\ Goto(s, "exit_read")
  /\ UNCHANGED <<pid, killed, isThread, chan, space, jpid, nextpid, disturbed>>

\* p->pid is read without the lock, once for kill and once for proc_join.
ExitReads(s) ==
  /\ At(s, "exit_read") \/ At(s, "exit_reread")
  /\ jpid' = [jpid EXCEPT ![s] = pid[idx[s]]]
  /\ Goto(s, IF pc[s] = "exit_read" THEN "exit_kill" ELSE "exit_join")
  /\ UNCHANGED <<table, idx, nextpid, disturbed>>

ExitKills(s) ==
  /\ At(s, "exit_kill")
  /\ KillEffect(jpid[s])
  /\ Goto(s, "exit_reread")
  /\ jpid' = [jpid EXCEPT ![s] = 0]
  /\ UNCHANGED <<pid, parent, isThread, chan, space, idx, nextpid, disturbed>>

\* The scan is through: the parent is woken and s becomes a zombie.
ExitEnds(s) ==
  /\ At(s, "exit_scan")
  /\ ThreadsLeft(s) = {}
  /\ ScanTo(s, NPROC + 1, FALSE)
  /\ Goto(s, "dead")
  /\ idx' = [idx EXCEPT ![s] = 0]
  /\ UNCHANGED <<pid, killed, isThread, chan, space, jpid, nextpid, disturbed>>

-----------------------------------------------------------------------------
Creates(s) == \/ ForkAlloc(s) \/ CloneAlloc(s) \/ AllocFails(s)
              \/ ForkFill(s) \/ ForkFlag(s) \/ CloneFill(s) \/ CloneFlag(s)
              \/ Publish(s) \/ Exec(s)
Waits(s)   == \/ CallWait(s) \/ WaitReaps(s) \/ WaitGivesUp(s) \/ WaitSleeps(s)
              \/ CallJoin(s) \/ JoinReaps(s) \/ JoinGivesUp(s) \/ JoinSleeps(s)
Signals(s) == Kill(s) \/ Wake(s) \/ CallTicketSleep(s) \/ TicketSleep(s)
Exits(s)   == \/ StartExit(s) \/ ExitMeetsThread(s) \/ ExitReads(s)
              \/ ExitKills(s) \/ ExitEnds(s)

Next == \E s \in Slots : \/ Schedule(s) \/ Yield(s) \/ Creates(s)
                         \/ Waits(s) \/ Signals(s) \/ Exits(s)

Spec == Init /\ [][Next]_vars

-----------------------------------------------------------------------------
(* Fairness.  scheduler() visits every slot in turn and the clock interrupts  *)
(* every processor: a process that is RUNNABLE again and again is picked, one *)
(* that runs is preempted, one that is inside the kernel gets on with its     *)
(* call whenever it is let in, and one that is killed is thrown out of user   *)
(* mode by trap().  Nothing is assumed of what user code calls.               *)

KernelStep(s) == pc[s] # "user" /\ (Creates(s) \/ Waits(s) \/ TicketSleep(s) \/ Exits(s))
ForcedExit(s) == killed[s] /\ StartExit(s)

Fairness == \A s \in Slots : /\ SF_vars(Schedule(s))
                             /\ WF_vars(Yield(s))
                             /\ SF_vars(KernelStep(s))
                             /\ SF_vars(ForcedExit(s))

FairSpec == Spec /\ Fairness

-----------------------------------------------------------------------------
(* Safety. *)

\* wait never sleeps through the death of a child: whoever becomes a zombie,
\* or is handed to initproc as one, wakes the process that has to collect it
\* (the wakeup1 calls of exit against the unlocked stretches of fork).
NoLostChild ==
  \A s \in Slots : state[s] = "SLEEPING" /\ pc[s] = "wait"
                    => Zombies(Children(s)) = {}

\* join by the owner of an address space, from the program or from exit, never
\* sleeps through the death of the thread it waits for.
NoLostThread ==
  \A s, q \in Slots :
     /\ state[s] = "SLEEPING" /\ pc[s] \in {"join", "exit_join"}
     /\ parent[q] = s /\ Joinable(s, jpid[s], q)
     => state[q] # "ZOMBIE"

\* Until somebody disturbs it: the parent of a process in use is in use itself
\* and was created before it: a parent pointer never names a slot that was given
\* to somebody else (exit hands children to initproc and joins threads before
\* the slot is reaped) ...
ParentIsOlder ==
  ~disturbed =>
    \A q \in Slots : InUse(q) /\ parent[q] # 0
       => InUse(parent[q]) /\ pid[parent[q]] < pid[q]

\* ... and no process that can still run has a page table that was freed: exit
\* joins the threads before wait can free what they run in ...
SpaceAlive == ~disturbed => \A q \in Slots : Live(q) => space[q] # Freed

\* ... and exit kills only the threads of the exiting process, although it reads
\* their pids after it has released the lock.
ExitKillsOwnThreads ==
  [][~disturbed => \A s, q \in Slots : ExitKills(s) /\ ~killed[q] /\ killed'[q]
        => isThread[q] /\ parent[q] = s]_vars

-----------------------------------------------------------------------------
(* Liveness. *)

\* A process that is killed while it is in use leaves: it becomes a zombie (or
\* is given back by the fork that was creating it).
KilledExits ==
  \A s \in Slots : (killed[s] /\ pc[s] # "none") ~> (state[s] \in {"ZOMBIE", "UNUSED"})

\* exit, once begun, ends, although it kills and joins every thread on its way.
ExitCompletes == \A s \in Slots : (pc[s] = "exit_scan") ~> (pc[s] = "dead")

-----------------------------------------------------------------------------
(* Four properties one would expect and the code does not have; no run claims *)
(* them, the README says with which constants TLC shows why.                  *)

\* A process is not killed before anybody could name its pid.  kill(0) marks an
\* unused slot and allocproc does not clear the mark.
BornUnkilled ==
  [][\A q \in Slots : ~InUse(q) /\ InUse(q)' => ~killed'[q]]_vars

\* A killed process does not go to sleep.  ticket_sleep does not look.
KilledDoesNotSleep ==
  [][\A q \in Slots : state[q] = "RUNNING" /\ state'[q] = "SLEEPING"
        => ~killed[q]]_vars

\* The same as NoLostThread for a sibling that joins.  exit wakes the siblings
\* in the middle of its scan, before it may drop the lock again.
NoLostJoin ==
  \A s \in Slots : state[s] = "SLEEPING" /\ pc[s] \in {"join", "exit_join"}
                    => Zombies(JoinSet(s)) = {}

\* A thread that sleeps in join waits for somebody other than itself.
\* proc_join counts the caller as one of its siblings.
JoinWaitsForAnother ==
  \A s \in Slots : state[s] = "SLEEPING" /\ pc[s] = "join"
                    => JoinSet(s) # {s}

=============================================================================
