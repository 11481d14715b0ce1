--------------------------- MODULE ProcTableProof ---------------------------
(***************************************************************************)
(* Proofs about ProcTable, for every number of slots, processors and pids  *)
(* and every choice of the system calls that are issued: the type          *)
(* invariant, and that neither wait nor an owner's join sleeps through the *)
(* death it is waiting for; and, until somebody disturbs, that parent      *)
(* pointers and page tables are never stale and exit kills only threads of *)
(* its own.                                                                *)
(*                                                                         *)
(* NoLostChild is not inductive: a step that makes a zombie must find the  *)
(* sleeping parent on the channel it wakes (Sleepers), a slot that is      *)
(* being filled without the lock must not be published twice (Fills), and  *)
(* no process may be its own child, since exit would hand it to initproc   *)
(* without a wake-up (NotOwnChild, Boot).                                  *)
(***************************************************************************)
EXTENDS ProcTable, TLAPS, FiniteSetTheorems

Filling == {"fork_fill", "fork_flag", "fork_run",
            "clone_fill", "clone_flag", "clone_run"}
Scanning == {"exit_read", "exit_kill", "exit_reread", "exit_join"}

\* Where a process is in the kernel and what the table says of it agree.
Phases ==
  \A s \in Slots :
    /\ state[s] \in {"UNUSED", "EMBRYO"} <=> pc[s] = "none"
    /\ state[s] = "ZOMBIE" <=> pc[s] = "dead"

\* Whoever sleeps in wait or join sleeps on its own struct proc.
Sleepers ==
  \A s \in Slots :
    state[s] = "SLEEPING" /\ pc[s] \in {"wait", "join", "exit_join"} => chan[s] = s

\* A slot that is being filled is an EMBRYO and has one process filling it.
Fills ==
  /\ \A s \in Slots : pc[s] \in Filling =>
       /\ idx[s] \in Slots
       /\ state[idx[s]] = "EMBRYO"
       /\ pc[s] \in {"fork_flag", "fork_run"} => parent[idx[s]] = s
       /\ pc[s] = "clone_run" => isThread[idx[s]]
  /\ \A s, t \in Slots :
       pc[s] \in Filling /\ pc[t] \in Filling /\ idx[s] = idx[t] => s = t

\* exit drops the lock only while it holds on to a slot.
Scans == \A s \in Slots : pc[s] \in Scanning => idx[s] \in Slots

NotOwnChild ==
  \A s \in Slots : pc[s] # "none" /\ ~isThread[s] => parent[s] # s

Boot == /\ pc[InitProc] \notin Scanning \cup {"none", "dead", "exit_scan"}
        /\ parent[InitProc] = 0

IInv == /\ TypeOK /\ Phases /\ Sleepers /\ Fills /\ Scans /\ NotOwnChild /\ Boot
        /\ NoLostChild /\ NoLostThread

-----------------------------------------------------------------------------
(* There is always an unused name for a page table. *)
LEMMA FreshSpaceIsFree ==
  ASSUME TypeOK PROVE FreshSpace \in Spaces /\ \A q \in Slots : space[q] # FreshSpace
<1>1. IsFiniteSet(Slots) /\ Cardinality(Slots) = NPROC
  BY ConstantsAssumption, FS_Interval DEF Slots
<1>2. IsFiniteSet(Spaces) /\ Cardinality(Spaces) = NPROC + 1
  BY ConstantsAssumption, FS_Interval DEF Spaces
<1>3. SUFFICES ASSUME \A v \in Spaces : \E q \in Slots : space[q] = v
               PROVE  FALSE
  BY DEF FreshSpace
<1> DEFINE f == [v \in Spaces |-> CHOOSE q \in Slots : space[q] = v]
<1>4. f \in [Spaces -> Slots] /\ \A v \in Spaces : space[f[v]] = v
  BY <1>3
<1>5. \E v, w \in Spaces : v # w /\ f[v] = f[w]
  <2> HIDE DEF f
  <2>1. Cardinality(Slots) < Cardinality(Spaces)
    BY <1>1, <1>2, ConstantsAssumption
  <2>2. QED BY <1>1, <1>2, <1>4, <2>1, FS_PigeonHole
<1>6. QED BY <1>4, <1>5

LEMMA FreshSpaceExists ==
  ASSUME TypeOK PROVE FreshSpace \in Spaces
  BY FreshSpaceIsFree

LEMMA Bounds ==
  /\ NPROC \in Nat /\ NPROC > 1 /\ MaxPid \in Nat
  /\ 0 \in 0..NPROC /\ Slots \subseteq 0..NPROC /\ 0 \notin Slots
  /\ InitProc \in Slots
  /\ 0 \in 0..MaxPid /\ 0..MaxPid \subseteq -1..MaxPid
  /\ JoinArgs \subseteq -1..MaxPid
  BY ConstantsAssumption DEF Slots, InitProc

LEMMA Initially == Init => IInv
<1> SUFFICES ASSUME Init PROVE IInv
  OBVIOUS
<1> USE ConstantsAssumption DEF Init, Slots, InitProc
<1>1. TypeOK
  BY DEF TypeOK, States, Places, Spaces, Freed
<1>2. Phases /\ Sleepers /\ Scans /\ NotOwnChild /\ Boot
  BY DEF Phases, Sleepers, Scans, NotOwnChild, Boot, Scanning
<1>3. Fills
  BY DEF Fills, Filling
<1>4. NoLostChild /\ NoLostThread
  BY DEF NoLostChild, NoLostThread, Zombies, Children
<1>5. QED BY <1>1, <1>2, <1>3, <1>4 DEF IInv

\* allocproc takes an UNUSED slot for s.
LEMMA Allocating ==
  ASSUME IInv, NEW s \in Slots, NEW j \in Slots, NEW place \in {"fork_fill", "clone_fill"},
         state[s] = "RUNNING", pc[s] = "user", Alloc(s, j), Goto(s, place)
  PROVE  IInv'
<1> USE DEF IInv
<1>1. /\ state[j] = "UNUSED" /\ nextpid <= MaxPid
      /\ state' = [state EXCEPT ![j] = "EMBRYO"]
      /\ pid' = [pid EXCEPT ![j] = nextpid]
      /\ nextpid' = nextpid + 1
      /\ idx' = [idx EXCEPT ![s] = j]
      /\ pc' = [pc EXCEPT ![s] = place]
      /\ UNCHANGED <<parent, killed, isThread, chan, space, jpid>>
  BY DEF Alloc, Goto, IsFirst, InUse
<1>2. TypeOK'
  <2>1. state' \in [Slots -> States] /\ pc' \in [Slots -> Places]
    BY <1>1 DEF TypeOK, States, Places
  <2>2. pid' \in [Slots -> 0..MaxPid] /\ nextpid' \in 1..(MaxPid + 1)
    BY <1>1, Bounds DEF TypeOK
  <2>3. idx' \in [Slots -> 0..NPROC]
    BY <1>1, Bounds DEF TypeOK
  <2>4. QED BY <1>1, <2>1, <2>2, <2>3 DEF TypeOK
<1>3. Phases' /\ Sleepers' /\ Scans' /\ NotOwnChild' /\ Boot'
  BY <1>1 DEF TypeOK, Phases, Sleepers, Scans, NotOwnChild, Boot, Scanning
<1>4. Fills'
  BY <1>1 DEF TypeOK, Phases, Fills, Filling
<1>5. NoLostChild' /\ NoLostThread'
  BY <1>1 DEF TypeOK, NoLostChild, NoLostThread, Zombies, Children, IsChild, Joinable
<1>6. QED BY <1>2, <1>3, <1>4, <1>5

\* wait or join gives back the slot of the zombie z.
LEMMA Reaping ==
  ASSUME IInv, NEW s \in Slots, NEW z \in Slots, NEW place \in {"user", "exit_scan"},
         state[s] = "RUNNING", pc[s] \in {"wait", "join", "exit_join"},
         place = "exit_scan" => pc[s] = "exit_join",
         state[z] = "ZOMBIE", Reap(z),
         pc' = [pc EXCEPT ![s] = place, ![z] = "none"],
         space' \in [Slots -> {Freed, 0} \cup Spaces],
         jpid' = [jpid EXCEPT ![s] = 0] \/ jpid' = jpid,
         UNCHANGED <<isThread, chan, idx, nextpid>>
  PROVE  IInv'
<1> USE DEF IInv, Reap
<1>1. TypeOK'
  <2>1. state' \in [Slots -> States] /\ pc' \in [Slots -> Places]
    BY DEF TypeOK, States, Places
  <2>2. pid' \in [Slots -> 0..MaxPid] /\ jpid' \in [Slots -> -1..MaxPid]
    BY Bounds DEF TypeOK
  <2>3. parent' \in [Slots -> 0..NPROC] /\ killed' \in [Slots -> BOOLEAN]
    BY Bounds DEF TypeOK
  <2>4. QED BY <2>1, <2>2, <2>3 DEF TypeOK
<1>2. Phases'
  BY DEF TypeOK, Phases
<1>3. Sleepers' /\ Scans'
  BY DEF TypeOK, Sleepers, Scans, Scanning
<1>4. NotOwnChild' /\ Boot'
  BY Bounds DEF TypeOK, Phases, NotOwnChild, Boot, Scanning, InitProc
<1>5. Fills'
  <2>1. \A t \in Slots : pc'[t] \in Filling => t \notin {s, z} /\ pc[t] \in Filling
    BY DEF TypeOK, Filling
  <2>2. QED BY <2>1 DEF TypeOK, Fills
<1>6. NoLostChild' /\ NoLostThread'
  <2>1. \A x \in Slots : state'[x] = "SLEEPING" =>
          x \notin {s, z} /\ state[x] = "SLEEPING" /\ pc'[x] = pc[x] /\ jpid'[x] = jpid[x]
    BY DEF TypeOK
  <2>2. \A q \in Slots : state'[q] = "ZOMBIE" =>
          q # z /\ state[q] = "ZOMBIE" /\ parent'[q] = parent[q] /\ pid'[q] = pid[q]
    BY DEF TypeOK
  <2>4. NoLostChild'
    BY <2>1, <2>2 DEF NoLostChild, Zombies, Children, IsChild
  <2>5. NoLostThread'
    BY <2>1, <2>2 DEF NoLostThread, Joinable
  <2>6. QED BY <2>4, <2>5
<1>7. QED BY <1>1, <1>2, <1>3, <1>4, <1>5, <1>6

\* What a stretch of the loop of exit does to the table.
LEMMA Scanned ==
  ASSUME IInv, NEW s \in Slots, NEW stop, NEW more \in BOOLEAN,
         state[s] = "RUNNING", pc[s] = "exit_scan", ScanTo(s, stop, more)
  PROVE  /\ parent' \in [Slots -> 0..NPROC] /\ state' \in [Slots -> States]
         /\ \A q \in Slots : parent'[q] = parent[q]
               \/ (parent[q] = s /\ ~isThread[q] /\ parent'[q] = InitProc)
         /\ \A q \in Slots \ {s} : state'[q] = state[q]
               \/ (state[q] = "SLEEPING" /\ state'[q] = "RUNNABLE")
         /\ state'[s] = IF more THEN "RUNNING" ELSE "ZOMBIE"
         /\ state[InitProc] = "SLEEPING" /\ chan[InitProc] = InitProc =>
              \/ state'[InitProc] = "RUNNABLE"
              \/ \A q \in Slots : state[q] = "ZOMBIE" => parent'[q] = parent[q]
         /\ ~more => \A x \in Slots \ {s} :
              state[x] = "SLEEPING" /\ chan[x] = x /\ parent[s] = x => state'[x] = "RUNNABLE"
<1> USE DEF IInv
<1> DEFINE adopted == {q \in Children(s) : idx[s] < q /\ q < stop}
           sibs    == {q \in Siblings(s) : idx[s] <= q /\ q < stop}
           woken   == sibs \cup (IF Zombies(adopted) # {} THEN {InitProc} ELSE {})
           all     == woken \cup (IF more THEN {} ELSE {parent[s]})
<1>1. /\ parent' = [q \in Slots |-> IF q \in adopted THEN InitProc ELSE parent[q]]
      /\ state'  = [q \in Slots |-> IF q = s THEN IF more THEN state[s] ELSE "ZOMBIE"
                                    ELSE WakeOn(all)[q]]
  BY DEF ScanTo
<1>2. \A q \in Slots : WakeOn(all)[q] =
         IF state[q] = "SLEEPING" /\ chan[q] \in all THEN "RUNNABLE" ELSE state[q]
  BY DEF WakeOn
<1>3. \A q \in adopted : q \in Slots /\ parent[q] = s /\ ~isThread[q]
  BY DEF Children, IsChild
<1>4. InitProc \in 0..NPROC /\ InitProc \in Slots /\ InitProc # s
  BY Bounds DEF InitProc, Slots, Boot
<1> HIDE DEF adopted, sibs, woken, all
<1>5. parent' \in [Slots -> 0..NPROC]
  BY <1>1, <1>4 DEF TypeOK
<1>6. state' \in [Slots -> States]
  BY <1>1, <1>2 DEF TypeOK, States
<1>7. \A q \in Slots : parent'[q] = parent[q]
               \/ (parent[q] = s /\ ~isThread[q] /\ parent'[q] = InitProc)
  BY <1>1, <1>3
<1>8. \A q \in Slots \ {s} : state'[q] = state[q]
               \/ (state[q] = "SLEEPING" /\ state'[q] = "RUNNABLE")
  BY <1>1, <1>2
<1>9. state[InitProc] = "SLEEPING" /\ chan[InitProc] = InitProc =>
        \/ state'[InitProc] = "RUNNABLE"
        \/ \A q \in Slots : state[q] = "ZOMBIE" => parent'[q] = parent[q]
  <2>1. CASE Zombies(adopted) = {}
    BY <1>1, <1>3, <2>1 DEF Zombies
  <2>2. CASE Zombies(adopted) # {}
    BY <1>1, <1>2, <1>4, <2>2 DEF woken, all
  <2>3. QED BY <2>1, <2>2
<1>10. ~more => \A x \in Slots \ {s} :
         state[x] = "SLEEPING" /\ chan[x] = x /\ parent[s] = x => state'[x] = "RUNNABLE"
  BY <1>1, <1>2 DEF all
<1>11. state'[s] = IF more THEN "RUNNING" ELSE "ZOMBIE"
  BY <1>1
<1>12. QED BY <1>5, <1>6, <1>7, <1>8, <1>9, <1>10, <1>11

\* A stretch of the loop of exit, whether it stops at a thread or ends.
LEMMA ExitScanning ==
  ASSUME IInv, NEW s \in Slots, NEW stop, NEW more \in BOOLEAN, NEW i \in 0..NPROC,
         state[s] = "RUNNING", pc[s] = "exit_scan", ScanTo(s, stop, more),
         more => i \in Slots,
         pc' = [pc EXCEPT ![s] = IF more THEN "exit_read" ELSE "dead"],
         idx' = [idx EXCEPT ![s] = i],
         UNCHANGED <<pid, killed, isThread, chan, space, jpid, nextpid>>
  PROVE  IInv'
<1> USE DEF IInv
<1>0. InitProc \in Slots /\ InitProc # s
  BY Bounds DEF InitProc, Slots, Boot
<1>1. /\ parent' \in [Slots -> 0..NPROC] /\ state' \in [Slots -> States]
      /\ \A q \in Slots : parent'[q] = parent[q]
            \/ (parent[q] = s /\ ~isThread[q] /\ parent'[q] = InitProc)
      /\ \A q \in Slots \ {s} : state'[q] = state[q]
            \/ (state[q] = "SLEEPING" /\ state'[q] = "RUNNABLE")
      /\ state'[s] = IF more THEN "RUNNING" ELSE "ZOMBIE"
  BY Scanned
<1>2. state[InitProc] = "SLEEPING" /\ chan[InitProc] = InitProc =>
        \/ state'[InitProc] = "RUNNABLE"
        \/ \A q \in Slots : state[q] = "ZOMBIE" => parent'[q] = parent[q]
  BY Scanned
<1>3. ~more => \A x \in Slots \ {s} :
        state[x] = "SLEEPING" /\ chan[x] = x /\ parent[s] = x => state'[x] = "RUNNABLE"
  BY Scanned
<1>4. /\ pc' \in [Slots -> Places]
      /\ pc'[s] \in {"exit_read", "dead"} /\ (more <=> pc'[s] = "exit_read")
      /\ \A q \in Slots \ {s} : pc'[q] = pc[q] /\ idx'[q] = idx[q]
      /\ idx'[s] = i /\ idx' \in [Slots -> 0..NPROC]
  BY DEF TypeOK, Places
<1>5. TypeOK'
  BY <1>1, <1>4 DEF TypeOK
<1>6. Phases'
  BY <1>1, <1>4 DEF Phases, TypeOK
<1>7. Sleepers' /\ Scans'
  BY <1>1, <1>4 DEF Sleepers, Scans, Scanning
<1>8. NotOwnChild' /\ Boot'
  <2>1. parent'[InitProc] = 0 /\ pc'[InitProc] = pc[InitProc]
    BY <1>0, <1>1, <1>4, Bounds DEF Boot, Slots
  <2>2. Boot'
    BY <2>1 DEF Boot
  <2>3. NotOwnChild'
    BY <1>0, <1>1, <1>4, <2>1, Bounds DEF NotOwnChild, InitProc
  <2>4. QED BY <2>2, <2>3
<1>9. Fills'
  <2>1. \A t \in Slots : pc'[t] \in Filling =>
          t # s /\ pc[t] \in Filling /\ idx'[t] = idx[t] /\ idx[t] \in Slots \ {s}
    BY <1>4 DEF Fills, Filling
  <2>2. \A t \in Slots : pc[t] \in Filling /\ t # s => state'[idx[t]] = "EMBRYO"
    BY <1>1 DEF Fills
  <2>3. \A t \in Slots : t # s /\ pc[t] \in {"fork_flag", "fork_run"} => parent'[idx[t]] = t
    BY <1>1 DEF Fills, Filling
  <2>4. QED BY <1>4, <2>1, <2>2, <2>3 DEF Fills, Filling
<1>10. NoLostChild'
  <2> SUFFICES ASSUME NEW x \in Slots, state'[x] = "SLEEPING", pc'[x] = "wait",
                      NEW q \in Slots, parent'[q] = x, ~isThread[q], state'[q] = "ZOMBIE"
               PROVE  FALSE
    BY DEF NoLostChild, Zombies, Children, IsChild
  <2>1. x # s /\ state[x] = "SLEEPING" /\ pc[x] = "wait" /\ chan[x] = x
    BY <1>1, <1>4 DEF Sleepers, TypeOK
  <2>2. CASE q = s
    <3>1. parent[s] # s
      BY <2>2 DEF NotOwnChild
    <3>2. parent[s] = x /\ ~more
      BY <1>1, <2>2, <3>1
    <3>3. QED BY <1>3, <2>1, <3>2
  <2>3. CASE q # s
    <3>1. state[q] = "ZOMBIE"
      BY <1>1, <2>3
    <3>2. CASE parent'[q] = parent[q]
      BY <2>1, <3>1, <3>2 DEF NoLostChild, Zombies, Children, IsChild
    <3>3. CASE parent'[q] # parent[q]
      BY <1>1, <1>2, <2>1, <3>1, <3>3
    <3>4. QED BY <3>2, <3>3
  <2>4. QED BY <2>2, <2>3
<1>11. NoLostThread'
  <2> SUFFICES ASSUME NEW x \in Slots, NEW q \in Slots,
                      state'[x] = "SLEEPING", pc'[x] \in {"join", "exit_join"},
                      parent'[q] = x, isThread[q], jpid[x] = -1 \/ pid[q] = jpid[x],
                      state'[q] = "ZOMBIE"
               PROVE  FALSE
    BY DEF NoLostThread, Joinable
  <2>1. x # s /\ state[x] = "SLEEPING" /\ pc[x] \in {"join", "exit_join"} /\ chan[x] = x
    BY <1>1, <1>4 DEF Sleepers, TypeOK
  <2>2. parent[q] = x
    BY <1>1
  <2>3. CASE q = s
    BY <1>1, <1>3, <2>1, <2>2, <2>3
  <2>4. CASE q # s
    BY <1>1, <2>1, <2>2, <2>4 DEF NoLostThread, Joinable
  <2>5. QED BY <2>3, <2>4
<1>12. QED BY <1>5, <1>6, <1>7, <1>8, <1>9, <1>10, <1>11

\* kill and wake only make sleepers runnable; exit calls kill with the lock dropped.
LEMMA Waking ==
  ASSUME IInv, NEW s \in Slots,
         state' \in [Slots -> States], killed' \in [Slots -> BOOLEAN],
         \A q \in Slots : state'[q] = state[q]
            \/ (state[q] = "SLEEPING" /\ state'[q] = "RUNNABLE"),
         \/ UNCHANGED <<pc, jpid>>
         \/ /\ state[s] = "RUNNING" /\ pc[s] = "exit_kill"
            /\ pc' = [pc EXCEPT ![s] = "exit_reread"] /\ jpid' = [jpid EXCEPT ![s] = 0],
         UNCHANGED <<pid, parent, isThread, chan, space, idx, nextpid>>
  PROVE  IInv'
<1> USE DEF IInv
<1>1. TypeOK'
  BY Bounds DEF TypeOK, Places
<1>2. Phases' /\ Sleepers'
  BY DEF TypeOK, Phases, Sleepers
<1>3. Scans' /\ NotOwnChild' /\ Boot'
  BY Bounds DEF TypeOK, Scans, NotOwnChild, Boot, Scanning
<1>9. Fills'
  BY DEF TypeOK, Fills, Filling
<1>4. \A x \in Slots : state'[x] = "SLEEPING" =>
        state[x] = "SLEEPING" /\ pc'[x] = pc[x] /\ jpid'[x] = jpid[x]
  BY DEF TypeOK
<1>5. \A q \in Slots : state'[q] = "ZOMBIE" => state[q] = "ZOMBIE"
  OBVIOUS
<1>6. NoLostChild'
  BY <1>4, <1>5 DEF NoLostChild, Zombies, Children, IsChild
<1>7. NoLostThread'
  BY <1>4, <1>5 DEF NoLostThread, Joinable
<1>8. QED BY <1>1, <1>2, <1>3, <1>6, <1>7, <1>9

LEMMA KillEffects ==
  ASSUME TypeOK, NEW k, KillEffect(k)
  PROVE  /\ state' \in [Slots -> States] /\ killed' \in [Slots -> BOOLEAN]
         /\ \A q \in Slots : state'[q] = state[q]
               \/ (state[q] = "SLEEPING" /\ state'[q] = "RUNNABLE")
<1>1. CASE UNCHANGED <<state, killed>>
  BY <1>1 DEF TypeOK
<1>2. CASE \E q \in Slots :
         /\ killed' = [killed EXCEPT ![q] = TRUE]
         /\ state'  = IF state[q] = "SLEEPING"
                       THEN [state EXCEPT ![q] = "RUNNABLE"] ELSE state
  BY <1>2 DEF TypeOK, States
<1>3. QED BY <1>1, <1>2 DEF KillEffect, IsFirst

\* The scheduler and the clock move a process between RUNNABLE and RUNNING.
LEMMA Dispatch ==
  ASSUME IInv, NEW s \in Slots, Schedule(s) \/ Yield(s) PROVE IInv'
<1> USE DEF IInv
<1>1. TypeOK'
  <2>1. state' \in [Slots -> States] /\ chan' \in [Slots -> 0..NPROC]
    BY Bounds DEF TypeOK, States, Schedule, Yield
  <2>2. UNCHANGED <<pid, parent, killed, isThread, space, pc, idx, jpid, nextpid>>
    BY DEF Schedule, Yield, local
  <2>3. QED BY <2>1, <2>2 DEF TypeOK
<1>2. Phases' /\ Sleepers' /\ Scans' /\ NotOwnChild' /\ Boot'
  BY DEF TypeOK, Phases, Sleepers, Scans, NotOwnChild, Boot, Schedule, Yield, local
<1>3. Fills'
  BY DEF TypeOK, Fills, Schedule, Yield, local
<1>4. NoLostChild' /\ NoLostThread'
  BY DEF TypeOK, NoLostChild, NoLostThread, Zombies, Children, IsChild, Joinable,
         Schedule, Yield, local
<1>5. QED BY <1>1, <1>2, <1>3, <1>4

\* fork and clone fill a slot that only they can see.
LEMMA Creating ==
  ASSUME IInv, NEW s \in Slots,
         ForkAlloc(s) \/ CloneAlloc(s) \/ AllocFails(s) \/ ForkFill(s) \/ ForkFlag(s) \/ CloneFill(s) \/ CloneFlag(s) \/ Publish(s) \/ Exec(s)
  PROVE  IInv'
<1> USE DEF IInv
<1>1. CASE ForkAlloc(s)
  BY <1>1, Allocating DEF ForkAlloc, Calls
<1>2. CASE CloneAlloc(s)
  BY <1>2, Allocating DEF CloneAlloc, Calls
<1>3. CASE AllocFails(s)
  <2>1. TypeOK'
    <3>1. /\ state' \in [Slots -> States]
          /\ pc' \in [Slots -> Places]
          /\ idx' \in [Slots -> 0..NPROC]
          /\ jpid' \in [Slots -> -1..MaxPid]
      BY <1>3, Bounds DEF TypeOK, States, Places, AllocFails, At, Goto, Return
    <3>2. UNCHANGED <<pid, parent, killed, isThread, chan, space, nextpid>>
      BY <1>3 DEF AllocFails, At, Goto, Return
    <3>3. QED BY <3>1, <3>2 DEF TypeOK
  <2>2. Phases' /\ Sleepers' /\ Scans' /\ NotOwnChild' /\ Boot'
    BY <1>3, Bounds DEF TypeOK, Phases, Sleepers, Scans, NotOwnChild, Boot, Scanning,
           Fills, Filling, InitProc, AllocFails, At, Goto, Return
  <2>3. Fills'
    BY <1>3, Bounds DEF TypeOK, Phases, Fills, Filling, AllocFails, At, Goto, Return
  <2>4. NoLostChild' /\ NoLostThread'
    BY <1>3, Bounds DEF TypeOK, Phases, Fills, Filling, NoLostChild, NoLostThread, Zombies,
           Children, IsChild, Joinable, AllocFails, At, Goto, Return
  <2>5. QED BY <2>1, <2>2, <2>3, <2>4
<1>4. CASE ForkFill(s)
  <2>1. TypeOK'
    <3>1. /\ space' \in [Slots -> {Freed, 0} \cup Spaces]
          /\ parent' \in [Slots -> 0..NPROC]
          /\ pc' \in [Slots -> Places]
      BY <1>4, FreshSpaceExists, Bounds DEF TypeOK, Places, ForkFill, At, Goto, Fills, Filling
    <3>2. UNCHANGED <<state, pid, killed, isThread, chan, idx, jpid, nextpid>>
      BY <1>4, FreshSpaceExists DEF ForkFill, At, Goto
    <3>3. QED BY <3>1, <3>2 DEF TypeOK
  <2>2. Phases' /\ Sleepers' /\ Scans' /\ NotOwnChild' /\ Boot'
    BY <1>4, FreshSpaceExists, Bounds DEF TypeOK, Phases, Sleepers, Scans, NotOwnChild, Boot, Scanning,
           Fills, Filling, InitProc, ForkFill, At, Goto
  <2>3. Fills'
    BY <1>4, FreshSpaceExists, Bounds DEF TypeOK, Phases, Fills, Filling, ForkFill, At, Goto
  <2>4. NoLostChild' /\ NoLostThread'
    BY <1>4, FreshSpaceExists, Bounds DEF TypeOK, Phases, Fills, Filling, NoLostChild, NoLostThread, Zombies,
           Children, IsChild, Joinable, ForkFill, At, Goto
  <2>5. QED BY <2>1, <2>2, <2>3, <2>4
<1>5. CASE ForkFlag(s)
  <2>1. TypeOK'
    <3>1. /\ isThread' \in [Slots -> BOOLEAN]
          /\ pc' \in [Slots -> Places]
      BY <1>5, Bounds DEF TypeOK, Places, ForkFlag, At, Goto
    <3>2. UNCHANGED <<state, pid, parent, killed, chan, space, idx, jpid, nextpid>>
      BY <1>5 DEF ForkFlag, At, Goto
    <3>3. QED BY <3>1, <3>2 DEF TypeOK
  <2>2. Phases' /\ Sleepers' /\ Scans' /\ NotOwnChild' /\ Boot'
    BY <1>5, Bounds DEF TypeOK, Phases, Sleepers, Scans, NotOwnChild, Boot, Scanning,
           Fills, Filling, InitProc, ForkFlag, At, Goto
  <2>3. Fills'
    BY <1>5, Bounds DEF TypeOK, Phases, Fills, Filling, ForkFlag, At, Goto
  <2>4. NoLostChild' /\ NoLostThread'
    BY <1>5, Bounds DEF TypeOK, Phases, Fills, Filling, NoLostChild, NoLostThread, Zombies,
           Children, IsChild, Joinable, ForkFlag, At, Goto
  <2>5. QED BY <2>1, <2>2, <2>3, <2>4
<1>6. CASE CloneFill(s)
  <2>1. TypeOK'
    <3>1. /\ parent' \in [Slots -> 0..NPROC]
          /\ pc' \in [Slots -> Places]
      BY <1>6, Bounds DEF TypeOK, Places, CloneFill, At, Goto
    <3>2. UNCHANGED <<state, pid, killed, isThread, chan, space, idx, jpid, nextpid>>
      BY <1>6 DEF CloneFill, At, Goto
    <3>3. QED BY <3>1, <3>2 DEF TypeOK
  <2>2. Phases' /\ Sleepers' /\ Scans' /\ NotOwnChild' /\ Boot'
    BY <1>6, Bounds DEF TypeOK, Phases, Sleepers, Scans, NotOwnChild, Boot, Scanning,
           Fills, Filling, InitProc, CloneFill, At, Goto
  <2>3. Fills'
    BY <1>6, Bounds DEF TypeOK, Phases, Fills, Filling, CloneFill, At, Goto
  <2>4. NoLostChild' /\ NoLostThread'
    BY <1>6, Bounds DEF TypeOK, Phases, Fills, Filling, NoLostChild, NoLostThread, Zombies,
           Children, IsChild, Joinable, CloneFill, At, Goto
  <2>5. QED BY <2>1, <2>2, <2>3, <2>4
<1>7. CASE CloneFlag(s)
  <2>1. TypeOK'
    <3>1. /\ space' \in [Slots -> {Freed, 0} \cup Spaces]
          /\ isThread' \in [Slots -> BOOLEAN]
          /\ pc' \in [Slots -> Places]
      BY <1>7, Bounds DEF TypeOK, Places, CloneFlag, At, Goto
    <3>2. UNCHANGED <<state, pid, parent, killed, chan, idx, jpid, nextpid>>
      BY <1>7 DEF CloneFlag, At, Goto
    <3>3. QED BY <3>1, <3>2 DEF TypeOK
  <2>2. Phases' /\ Sleepers' /\ Scans' /\ NotOwnChild' /\ Boot'
    BY <1>7, Bounds DEF TypeOK, Phases, Sleepers, Scans, NotOwnChild, Boot, Scanning,
           Fills, Filling, InitProc, CloneFlag, At, Goto
  <2>3. Fills'
    BY <1>7, Bounds DEF TypeOK, Phases, Fills, Filling, CloneFlag, At, Goto
  <2>4. NoLostChild' /\ NoLostThread'
    BY <1>7, Bounds DEF TypeOK, Phases, Fills, Filling, NoLostChild, NoLostThread, Zombies,
           Children, IsChild, Joinable, CloneFlag, At, Goto
  <2>5. QED BY <2>1, <2>2, <2>3, <2>4
<1>8. CASE Publish(s)
  <2>1. TypeOK'
    <3>1. /\ state' \in [Slots -> States]
          /\ pc' \in [Slots -> Places]
          /\ idx' \in [Slots -> 0..NPROC]
      BY <1>8, Bounds DEF TypeOK, States, Places, Publish, At
    <3>2. UNCHANGED <<pid, parent, killed, isThread, chan, space, jpid, nextpid>>
      BY <1>8 DEF Publish, At
    <3>3. QED BY <3>1, <3>2 DEF TypeOK
  <2>2. Phases' /\ Sleepers' /\ Scans' /\ NotOwnChild' /\ Boot'
    BY <1>8, Bounds DEF TypeOK, Phases, Sleepers, Scans, NotOwnChild, Boot, Scanning,
           Fills, Filling, InitProc, Publish, At
  <2>3. Fills'
    BY <1>8, Bounds DEF TypeOK, Phases, Fills, Filling, Publish, At
  <2>4. NoLostChild' /\ NoLostThread'
    BY <1>8, Bounds DEF TypeOK, Phases, Fills, Filling, NoLostChild, NoLostThread, Zombies,
           Children, IsChild, Joinable, Publish, At
  <2>5. QED BY <2>1, <2>2, <2>3, <2>4
<1>9. CASE Exec(s)
  <2>1. TypeOK'
    <3>1. /\ space' \in [Slots -> {Freed, 0} \cup Spaces]
      BY <1>9, FreshSpaceExists, Bounds DEF TypeOK, Exec, Calls, FreeSpace, local, Freed
    <3>2. UNCHANGED <<state, pid, parent, killed, isThread, chan, pc, idx, jpid, nextpid>>
      BY <1>9, FreshSpaceExists DEF Exec, Calls, FreeSpace, local
    <3>3. QED BY <3>1, <3>2 DEF TypeOK
  <2>2. Phases' /\ Sleepers' /\ Scans' /\ NotOwnChild' /\ Boot'
    BY <1>9, FreshSpaceExists, Bounds DEF TypeOK, Phases, Sleepers, Scans, NotOwnChild, Boot, Scanning,
           Fills, Filling, InitProc, Exec, Calls, FreeSpace, local
  <2>3. Fills'
    BY <1>9, FreshSpaceExists, Bounds DEF TypeOK, Phases, Fills, Filling, Exec, Calls, FreeSpace, local
  <2>4. NoLostChild' /\ NoLostThread'
    BY <1>9, FreshSpaceExists, Bounds DEF TypeOK, Phases, Fills, Filling, NoLostChild, NoLostThread, Zombies,
           Children, IsChild, Joinable, Exec, Calls, FreeSpace, local
  <2>5. QED BY <2>1, <2>2, <2>3, <2>4
<1>10. QED BY <1>1, <1>2, <1>3, <1>4, <1>5, <1>6, <1>7, <1>8, <1>9

\* wait and join.
LEMMA Waiting ==
  ASSUME IInv, NEW s \in Slots,
         CallWait(s) \/ CallJoin(s) \/ WaitReaps(s) \/ WaitGivesUp(s) \/ WaitSleeps(s) \/ JoinReaps(s) \/ JoinGivesUp(s) \/ JoinSleeps(s)
  PROVE  IInv'
<1> USE DEF IInv
<1>1. CASE CallWait(s)
  <2>1. TypeOK'
    <3>1. /\ pc' \in [Slots -> Places]
          /\ jpid' \in [Slots -> -1..MaxPid]
      BY <1>1, Bounds DEF TypeOK, Places, CallWait, Call, Calls, Goto, table
    <3>2. UNCHANGED <<state, pid, parent, killed, isThread, chan, space, idx, nextpid>>
      BY <1>1 DEF CallWait, Call, Calls, Goto, table
    <3>3. QED BY <3>1, <3>2 DEF TypeOK
  <2>2. Phases' /\ Sleepers' /\ Scans' /\ NotOwnChild' /\ Boot'
    BY <1>1, Bounds DEF TypeOK, Phases, Sleepers, Scans, NotOwnChild, Boot, Scanning,
           Fills, Filling, InitProc, CallWait, Call, Calls, Goto, table
  <2>3. Fills'
    BY <1>1, Bounds DEF TypeOK, Phases, Fills, Filling, CallWait, Call, Calls, Goto, table
  <2>4. NoLostChild' /\ NoLostThread'
    BY <1>1, Bounds DEF TypeOK, Phases, Fills, Filling, NoLostChild, NoLostThread, Zombies,
           Children, IsChild, Joinable, CallWait, Call, Calls, Goto, table
  <2>5. QED BY <2>1, <2>2, <2>3, <2>4
<1>2. CASE CallJoin(s)
  <2>1. TypeOK'
    <3>1. /\ pc' \in [Slots -> Places]
          /\ jpid' \in [Slots -> -1..MaxPid]
      BY <1>2, Bounds DEF TypeOK, Places, CallJoin, Call, Calls, Goto, table
    <3>2. UNCHANGED <<state, pid, parent, killed, isThread, chan, space, idx, nextpid>>
      BY <1>2 DEF CallJoin, Call, Calls, Goto, table
    <3>3. QED BY <3>1, <3>2 DEF TypeOK
  <2>2. Phases' /\ Sleepers' /\ Scans' /\ NotOwnChild' /\ Boot'
    BY <1>2, Bounds DEF TypeOK, Phases, Sleepers, Scans, NotOwnChild, Boot, Scanning,
           Fills, Filling, InitProc, CallJoin, Call, Calls, Goto, table
  <2>3. Fills'
    BY <1>2, Bounds DEF TypeOK, Phases, Fills, Filling, CallJoin, Call, Calls, Goto, table
  <2>4. NoLostChild' /\ NoLostThread'
    BY <1>2, Bounds DEF TypeOK, Phases, Fills, Filling, NoLostChild, NoLostThread, Zombies,
           Children, IsChild, Joinable, CallJoin, Call, Calls, Goto, table
  <2>5. QED BY <2>1, <2>2, <2>3, <2>4
<1>3. CASE WaitReaps(s)
  <2>1. PICK z \in Slots :
          /\ state[z] = "ZOMBIE" /\ Reap(z)
          /\ space' = [FreeSpace(space[z]) EXCEPT ![z] = 0]
          /\ pc' = [pc EXCEPT ![s] = "user", ![z] = "none"]
    BY <1>3 DEF WaitReaps, IsFirst, Zombies
  <2>2. space' \in [Slots -> {Freed, 0} \cup Spaces]
    BY <2>1 DEF FreeSpace, TypeOK
  <2>3. QED BY <1>3, <2>1, <2>2, Reaping DEF WaitReaps, At
<1>4. CASE WaitGivesUp(s)
  <2>1. TypeOK'
    <3>1. /\ pc' \in [Slots -> Places]
          /\ idx' \in [Slots -> 0..NPROC]
          /\ jpid' \in [Slots -> -1..MaxPid]
      BY <1>4, Bounds DEF TypeOK, Places, WaitGivesUp, At, Goto, Return, table
    <3>2. UNCHANGED <<state, pid, parent, killed, isThread, chan, space, nextpid>>
      BY <1>4 DEF WaitGivesUp, At, Goto, Return, table
    <3>3. QED BY <3>1, <3>2 DEF TypeOK
  <2>2. Phases' /\ Sleepers' /\ Scans' /\ NotOwnChild' /\ Boot'
    BY <1>4, Bounds DEF TypeOK, Phases, Sleepers, Scans, NotOwnChild, Boot, Scanning,
           Fills, Filling, InitProc, WaitGivesUp, At, Goto, Return, table
  <2>3. Fills'
    BY <1>4, Bounds DEF TypeOK, Phases, Fills, Filling, WaitGivesUp, At, Goto, Return, table
  <2>4. NoLostChild' /\ NoLostThread'
    BY <1>4, Bounds DEF TypeOK, Phases, Fills, Filling, NoLostChild, NoLostThread, Zombies,
           Children, IsChild, Joinable, WaitGivesUp, At, Goto, Return, table
  <2>5. QED BY <2>1, <2>2, <2>3, <2>4
<1>5. CASE WaitSleeps(s)
  <2>1. TypeOK'
    <3>1. /\ state' \in [Slots -> States]
          /\ chan' \in [Slots -> 0..NPROC]
      BY <1>5, Bounds DEF TypeOK, States, WaitSleeps, At, SleepOnSelf, local
    <3>2. UNCHANGED <<pid, parent, killed, isThread, space, pc, idx, jpid, nextpid>>
      BY <1>5 DEF WaitSleeps, At, SleepOnSelf, local
    <3>3. QED BY <3>1, <3>2 DEF TypeOK
  <2>2. Phases' /\ Sleepers' /\ Scans' /\ NotOwnChild' /\ Boot'
    BY <1>5, Bounds DEF TypeOK, Phases, Sleepers, Scans, NotOwnChild, Boot, Scanning,
           Fills, Filling, InitProc, WaitSleeps, At, SleepOnSelf, local
  <2>3. Fills'
    BY <1>5, Bounds DEF TypeOK, Phases, Fills, Filling, WaitSleeps, At, SleepOnSelf, local
  <2>4. NoLostChild' /\ NoLostThread'
    BY <1>5, Bounds DEF TypeOK, Phases, Fills, Filling, NoLostChild, NoLostThread, Zombies,
           Children, IsChild, Joinable, WaitSleeps, At, SleepOnSelf, local
  <2>5. QED BY <2>1, <2>2, <2>3, <2>4
<1>6. CASE JoinReaps(s)
  <2>1. PICK z \in Slots :
          /\ state[z] = "ZOMBIE" /\ Reap(z)
          /\ space' = [space EXCEPT ![z] = 0]
          /\ pc' = [pc EXCEPT ![s] = AfterJoin(s), ![z] = "none"]
    BY <1>6 DEF JoinReaps, IsFirst, Zombies
  <2>2. space' \in [Slots -> {Freed, 0} \cup Spaces]
    BY <2>1 DEF TypeOK
  <2>3. QED BY <1>6, <2>1, <2>2, Reaping DEF JoinReaps, Joining, AfterJoin, At
<1>7. CASE JoinGivesUp(s)
  <2>1. TypeOK'
    <3>1. /\ pc' \in [Slots -> Places]
          /\ jpid' \in [Slots -> -1..MaxPid]
      BY <1>7, Bounds DEF TypeOK, Places, JoinGivesUp, Joining, AfterJoin, At, Goto, table
    <3>2. UNCHANGED <<state, pid, parent, killed, isThread, chan, space, idx, nextpid>>
      BY <1>7 DEF JoinGivesUp, Joining, AfterJoin, At, Goto, table
    <3>3. QED BY <3>1, <3>2 DEF TypeOK
  <2>2. Phases' /\ Sleepers' /\ Scans' /\ NotOwnChild' /\ Boot'
    BY <1>7, Bounds DEF TypeOK, Phases, Sleepers, Scans, NotOwnChild, Boot, Scanning,
           Fills, Filling, InitProc, JoinGivesUp, Joining, AfterJoin, At, Goto, table
  <2>3. Fills'
    BY <1>7, Bounds DEF TypeOK, Phases, Fills, Filling, JoinGivesUp, Joining, AfterJoin, At, Goto, table
  <2>4. NoLostChild' /\ NoLostThread'
    BY <1>7, Bounds DEF TypeOK, Phases, Fills, Filling, NoLostChild, NoLostThread, Zombies,
           Children, IsChild, Joinable, JoinGivesUp, Joining, AfterJoin, At, Goto, table
  <2>5. QED BY <2>1, <2>2, <2>3, <2>4
<1>8. CASE JoinSleeps(s)
  <2>1. TypeOK'
    <3>1. /\ state' \in [Slots -> States]
          /\ chan' \in [Slots -> 0..NPROC]
      BY <1>8, Bounds DEF TypeOK, States, JoinSleeps, Joining, At, SleepOnSelf, local
    <3>2. UNCHANGED <<pid, parent, killed, isThread, space, pc, idx, jpid, nextpid>>
      BY <1>8 DEF JoinSleeps, Joining, At, SleepOnSelf, local
    <3>3. QED BY <3>1, <3>2 DEF TypeOK
  <2>2. Phases' /\ Sleepers' /\ Scans' /\ NotOwnChild' /\ Boot'
    BY <1>8, Bounds DEF TypeOK, Phases, Sleepers, Scans, NotOwnChild, Boot, Scanning,
           Fills, Filling, InitProc, JoinSleeps, Joining, At, SleepOnSelf, local
  <2>3. Fills'
    BY <1>8, Bounds DEF TypeOK, Phases, Fills, Filling, JoinSleeps, Joining, At, SleepOnSelf, local
  <2>4. NoLostChild' /\ NoLostThread'
    BY <1>8, Bounds DEF TypeOK, Phases, Fills, Filling, NoLostChild, NoLostThread, Zombies,
           Children, IsChild, Joinable, JoinSleeps, Joining, At, SleepOnSelf, local, JoinSet
  <2>5. QED BY <2>1, <2>2, <2>3, <2>4
<1>9. QED BY <1>1, <1>2, <1>3, <1>4, <1>5, <1>6, <1>7, <1>8

\* kill, wake and ticket_sleep.
LEMMA Signalling ==
  ASSUME IInv, NEW s \in Slots,
         Kill(s) \/ Wake(s) \/ CallTicketSleep(s) \/ TicketSleep(s)
  PROVE  IInv'
<1> USE DEF IInv
<1>1. CASE Kill(s)
  <2>1. PICK k \in KillArgs : KillEffect(k)
    BY <1>1 DEF Kill
  <2>2. QED BY <1>1, <2>1, KillEffects, Waking DEF Kill, local
<1>2. CASE Wake(s)
  <2>1. PICK k \in KillArgs :
          state' = [q \in Slots |-> IF state[q] = "SLEEPING" /\ pid[q] = k
                                      THEN "RUNNABLE" ELSE state[q]]
    BY <1>2 DEF Wake
  <2>2. state' \in [Slots -> States]
    BY <2>1 DEF TypeOK, States
  <2>3. killed' \in [Slots -> BOOLEAN]
    BY <1>2 DEF Wake, TypeOK
  <2>4. QED BY <1>2, <2>1, <2>2, <2>3, Waking DEF Wake, local
<1>3. CASE CallTicketSleep(s)
  <2>1. TypeOK'
    <3>1. /\ pc' \in [Slots -> Places]
          /\ jpid' \in [Slots -> -1..MaxPid]
      BY <1>3, Bounds DEF TypeOK, Places, CallTicketSleep, Call, Calls, Goto, table
    <3>2. UNCHANGED <<state, pid, parent, killed, isThread, chan, space, idx, nextpid>>
      BY <1>3 DEF CallTicketSleep, Call, Calls, Goto, table
    <3>3. QED BY <3>1, <3>2 DEF TypeOK
  <2>2. Phases' /\ Sleepers' /\ Scans' /\ NotOwnChild' /\ Boot'
    BY <1>3, Bounds DEF TypeOK, Phases, Sleepers, Scans, NotOwnChild, Boot, Scanning,
           Fills, Filling, InitProc, CallTicketSleep, Call, Calls, Goto, table
  <2>3. Fills'
    BY <1>3, Bounds DEF TypeOK, Phases, Fills, Filling, CallTicketSleep, Call, Calls, Goto, table
  <2>4. NoLostChild' /\ NoLostThread'
    BY <1>3, Bounds DEF TypeOK, Phases, Fills, Filling, NoLostChild, NoLostThread, Zombies,
           Children, IsChild, Joinable, CallTicketSleep, Call, Calls, Goto, table
  <2>5. QED BY <2>1, <2>2, <2>3, <2>4
<1>4. CASE TicketSleep(s)
  <2>1. TypeOK'
    <3>1. /\ state' \in [Slots -> States]
          /\ pc' \in [Slots -> Places]
      BY <1>4, Bounds DEF TypeOK, States, Places, TicketSleep, At, Goto
    <3>2. UNCHANGED <<pid, parent, killed, isThread, chan, space, idx, jpid, nextpid>>
      BY <1>4 DEF TicketSleep, At, Goto
    <3>3. QED BY <3>1, <3>2 DEF TypeOK
  <2>2. Phases' /\ Sleepers' /\ Scans' /\ NotOwnChild' /\ Boot'
    BY <1>4, Bounds DEF TypeOK, Phases, Sleepers, Scans, NotOwnChild, Boot, Scanning,
           Fills, Filling, InitProc, TicketSleep, At, Goto
  <2>3. Fills'
    BY <1>4, Bounds DEF TypeOK, Phases, Fills, Filling, TicketSleep, At, Goto
  <2>4. NoLostChild' /\ NoLostThread'
    BY <1>4, Bounds DEF TypeOK, Phases, Fills, Filling, NoLostChild, NoLostThread, Zombies,
           Children, IsChild, Joinable, TicketSleep, At, Goto
  <2>5. QED BY <2>1, <2>2, <2>3, <2>4
<1>5. QED BY <1>1, <1>2, <1>3, <1>4

\* exit.
LEMMA Exiting ==
  ASSUME IInv, NEW s \in Slots,
         StartExit(s) \/ ExitMeetsThread(s) \/ ExitReads(s) \/ ExitKills(s) \/ ExitEnds(s)
  PROVE  IInv'
<1> USE DEF IInv
<1>1. CASE StartExit(s)
  <2>1. TypeOK'
    <3>1. /\ pc' \in [Slots -> Places]
      BY <1>1, Bounds DEF TypeOK, Places, StartExit, At, Goto, table
    <3>2. UNCHANGED <<state, pid, parent, killed, isThread, chan, space, idx, jpid, nextpid>>
      BY <1>1 DEF StartExit, At, Goto, table
    <3>3. QED BY <3>1, <3>2 DEF TypeOK
  <2>2. Phases' /\ Sleepers' /\ Scans' /\ NotOwnChild' /\ Boot'
    BY <1>1, Bounds DEF TypeOK, Phases, Sleepers, Scans, NotOwnChild, Boot, Scanning,
           Fills, Filling, InitProc, StartExit, At, Goto, table
  <2>3. Fills'
    BY <1>1, Bounds DEF TypeOK, Phases, Fills, Filling, StartExit, At, Goto, table
  <2>4. NoLostChild' /\ NoLostThread'
    BY <1>1, Bounds DEF TypeOK, Phases, Fills, Filling, NoLostChild, NoLostThread, Zombies,
           Children, IsChild, Joinable, StartExit, At, Goto, table
  <2>5. QED BY <2>1, <2>2, <2>3, <2>4
<1>2. CASE ExitMeetsThread(s)
  <2>1. PICK t \in Slots : ScanTo(s, t, TRUE) /\ idx' = [idx EXCEPT ![s] = t]
    BY <1>2 DEF ExitMeetsThread
  <2>2. t \in 0..NPROC
    BY Bounds
  <2>3. QED BY <1>2, <2>1, <2>2, ExitScanning DEF ExitMeetsThread, At, Goto
<1>3. CASE ExitReads(s)
  <2>1. TypeOK'
    <3>1. /\ jpid' \in [Slots -> -1..MaxPid]
          /\ pc' \in [Slots -> Places]
      BY <1>3, Bounds DEF TypeOK, Places, Scans, Scanning, ExitReads, At, Goto, table
    <3>2. UNCHANGED <<state, pid, parent, killed, isThread, chan, space, idx, nextpid>>
      BY <1>3 DEF ExitReads, At, Goto, table
    <3>3. QED BY <3>1, <3>2 DEF TypeOK
  <2>2. Phases' /\ Sleepers' /\ Scans' /\ NotOwnChild' /\ Boot'
    BY <1>3, Bounds DEF TypeOK, Phases, Sleepers, Scans, NotOwnChild, Boot, Scanning,
           Fills, Filling, InitProc, ExitReads, At, Goto, table
  <2>3. Fills'
    BY <1>3, Bounds DEF TypeOK, Phases, Fills, Filling, ExitReads, At, Goto, table
  <2>4. NoLostChild' /\ NoLostThread'
    BY <1>3, Bounds DEF TypeOK, Phases, Fills, Filling, NoLostChild, NoLostThread, Zombies,
           Children, IsChild, Joinable, ExitReads, At, Goto, table
  <2>5. QED BY <2>1, <2>2, <2>3, <2>4
<1>4. CASE ExitKills(s)
  BY <1>4, KillEffects, Waking DEF ExitKills, At, Goto
<1>5. CASE ExitEnds(s)
  BY <1>5, ExitScanning, Bounds DEF ExitEnds, At, Goto
<1>6. QED BY <1>1, <1>2, <1>3, <1>4, <1>5

LEMMA Inductive == IInv /\ [Next]_vars => IInv'
<1> SUFFICES ASSUME IInv, [Next]_vars PROVE IInv'
  OBVIOUS
<1>1. CASE UNCHANGED vars
  BY <1>1 DEF IInv, vars, TypeOK, Phases, Sleepers, Fills, Scans, NotOwnChild, Boot,
         NoLostChild, NoLostThread, Zombies, Children, IsChild, Joinable
<1>2. CASE Next
  <2>1. PICK s \in Slots : \/ Schedule(s) \/ Yield(s) \/ Creates(s)
                            \/ Waits(s) \/ Signals(s) \/ Exits(s)
    BY <1>2 DEF Next
  <2>2. CASE Schedule(s) \/ Yield(s)
    BY <2>2, Dispatch
  <2>3. CASE Creates(s)
    BY <2>3, Creating DEF Creates
  <2>4. CASE Waits(s)
    BY <2>4, Waiting DEF Waits
  <2>5. CASE Signals(s)
    BY <2>5, Signalling DEF Signals
  <2>6. CASE Exits(s)
    BY <2>6, Exiting DEF Exits
  <2>7. QED BY <2>1, <2>2, <2>3, <2>4, <2>5, <2>6
<1>3. QED BY <1>1, <1>2

LEMMA Invariance == Spec => []IInv
  BY Initially, Inductive, PTL DEF Spec

\* Every step of the kernel keeps the table well-formed, whatever is called.
THEOREM TypeCorrect == Spec => []TypeOK
  BY Invariance, PTL DEF IInv

\* wait (proc.c:239-282) never sleeps while a zombie child is there to be
\* collected: no wakeup1 of exit is lost, although fork fills the child's slot
\* and exit hands children to initproc in steps of their own.
THEOREM ChildrenAreNotLost == Spec => []NoLostChild
  BY Invariance, PTL DEF IInv

\* proc_join (proc.c:550-591) called by the owner of the address space never
\* sleeps while the thread it waits for is a zombie.
THEOREM ThreadsAreNotLost == Spec => []NoLostThread
  BY Invariance, PTL DEF IInv

-----------------------------------------------------------------------------
(* Families: an owner, its threads and its children, and what exit has done  *)
(* to them.  ParentIsOlder is not inductive: a dead owner must have nobody   *)
(* left (Disposed), which needs that nobody joins its family behind the scan *)
(* (Embryos) and that the scan is not cut short by a kill (ThreadPhases).    *)
(* Pids, Locals and Blank hold whatever is called.                           *)

\* A pid is given once, initproc has the first and is no thread.
Pids ==
  /\ \A q \in Slots : pid[q] < nextpid /\ (InUse(q) => pid[q] # 0)
  /\ \A q, r \in Slots : pid[q] = pid[r] /\ q # r => pid[q] = 0
  /\ pid[InitProc] = 1 /\ ~isThread[InitProc]

\* The local slot number means something only while a slot is filled or scanned.
Locals ==
  \A s \in Slots : pc[s] \notin Filling \cup Scanning \cup {"exit_scan"} => idx[s] = 0

\* What allocproc may rely on although it does not reset it, and how much of
\* the slot is filled.
Blank ==
  /\ \A q \in Slots : state[q] = "UNUSED" => parent[q] = 0 /\ space[q] = 0
  /\ \A s \in Slots : pc[s] \in {"fork_fill", "clone_fill"} =>
       parent[idx[s]] = 0 /\ space[idx[s]] = 0
  /\ \A s \in Slots : /\ pc[s] = "clone_flag" => space[idx[s]] = 0
                     /\ pc[s] = "fork_flag" => space[idx[s]] # 0

(* The others hold until somebody disturbs. *)

\* The parent is an owner, older, and has not passed the scan of its exit.
Parents ==
  \A q, p \in Slots : parent[q] = p =>
    pc[p] \notin {"none", "dead"} /\ ~isThread[p] /\ pid[p] < pid[q]

\* A child that is not published yet is the one its parent is filling.
Embryos ==
  /\ \A q, p \in Slots : state[q] = "EMBRYO" /\ parent[q] = p =>
       pc[p] \in Filling /\ idx[p] = q
  /\ \A s \in Slots : pc[s] \in {"clone_flag", "clone_run"} => parent[idx[s]] = s
  /\ \A s \in Slots : pc[s] \in Filling => pid[s] < pid[idx[s]]

\* A thread neither creates nor waits, and only a thread is killed.
ThreadPhases ==
  \A q \in Slots : /\ isThread[q] /\ pc[q] # "none" =>
                        pc[q] \in {"user", "ticket_sleep", "exit_scan", "dead"}
                   /\ killed[q] => isThread[q] /\ pc[q] # "none"

\* exit has disposed of everybody it has passed, and works on a thread of its own.
Disposed ==
  \A s \in Slots :
    /\ pc[s] = "exit_scan" => \A q \in Slots : parent[q] = s => q > idx[s]
    /\ pc[s] \in Scanning =>
         /\ \A q \in Slots : parent[q] = s => q >= idx[s]
         /\ isThread[idx[s]] /\ parent[idx[s]] = s /\ pc[idx[s]] # "none"
    /\ pc[s] \in {"exit_kill", "exit_join"} => jpid[s] = pid[idx[s]]

Kin(q, r) == \/ isThread[q] /\ parent[q] = r
             \/ isThread[r] /\ parent[r] = q
             \/ isThread[q] /\ isThread[r] /\ parent[q] = parent[r]

\* Only an owner and its threads share a page table.
Sharing ==
  /\ \A q \in Slots : space[q] # Freed
  /\ \A q, r \in Slots : q # r /\ space[q] = space[r] => space[q] = 0 \/ Kin(q, r)
  /\ \A s, r \in Slots : pc[s] = "fork_flag" /\ r # idx[s] => space[r] # space[idx[s]]

Family == Parents /\ Embryos /\ ThreadPhases /\ Disposed /\ Sharing

FInv == Pids /\ Locals /\ Blank /\ (~disturbed => Family)

-----------------------------------------------------------------------------
\* Only initproc and the shell are there at boot.
LEMMA FamilyInitially == Init => FInv
<1> SUFFICES ASSUME Init PROVE FInv
  OBVIOUS
<1> USE ConstantsAssumption DEF Init, Slots, InitProc
<1>1. Pids /\ Locals /\ Blank
  BY DEF Pids, Locals, Blank, InUse, Filling, Scanning
<1>2. Parents /\ Embryos /\ ThreadPhases /\ Disposed
  BY DEF Parents, Embryos, ThreadPhases, Disposed, Filling, Scanning
<1>3. Sharing
  BY DEF Sharing, Freed, Kin
<1>4. QED BY <1>1, <1>2, <1>3 DEF FInv, Family

\* A step that moves at most s, and only between user mode and the calls that
\* leave the families alone.
LEMMA Quiet ==
  ASSUME IInv, IInv', FInv, NEW s \in Slots,
         UNCHANGED <<pid, parent, isThread, space, idx, nextpid>>,
         \A q \in Slots : state'[q] = state[q]
            \/ (/\ state[q] \notin {"UNUSED", "EMBRYO", "ZOMBIE"}
                /\ state'[q] \notin {"UNUSED", "EMBRYO", "ZOMBIE"}),
         \A q \in Slots \ {s} : pc'[q] = pc[q] /\ jpid'[q] = jpid[q],
         \/ pc'[s] = pc[s] /\ jpid'[s] = jpid[s]
         \/ /\ pc[s] \in {"user", "wait", "join", "ticket_sleep"}
            /\ pc'[s] \in {"user", "wait", "join", "ticket_sleep", "exit_scan"}
            /\ \/ disturbed' \/ ~isThread[s]
               \/ pc'[s] \in {"user", "ticket_sleep", "exit_scan"},
         ~disturbed' => ~disturbed /\ killed' = killed
  PROVE  FInv'
<1> USE DEF IInv, FInv
<1>1. Pids' /\ Locals' /\ Blank'
  BY DEF Pids, Locals, Blank, TypeOK, InUse, Filling, Scanning
<1>2. ASSUME ~disturbed' PROVE Family'
  <2>1. Parents'
    BY <1>2, Bounds DEF Family, Parents, TypeOK, Phases
  <2>2. Embryos'
    BY <1>2, Bounds DEF Family, Embryos, Parents, TypeOK, Filling
  <2>3. ThreadPhases'
    BY <1>2 DEF Family, ThreadPhases, TypeOK
  <2>4. Disposed'
    <3>1. idx[s] = 0 \/ (pc'[s] = pc[s] /\ jpid'[s] = jpid[s])
      BY DEF Locals, Filling, Scanning
    <3>2. \A q \in Slots : q > 0 /\ parent'[q] = parent[q] /\ pid'[q] = pid[q]
      BY DEF Slots
    <3>3. Disposed /\ (pc'[s] \in Scanning \cup {"exit_scan"} => pc'[s] = pc[s] \/ pc'[s] = "exit_scan")
      BY <1>2 DEF Family, Scanning
    <3>4. \A t \in Slots : pc'[t] = "exit_scan" => \A q \in Slots : parent[q] = t => q > idx[t]
      BY <3>1, <3>2, <3>3 DEF Disposed
    <3>5. \A t \in Slots : pc'[t] \in Scanning => pc[t] = pc'[t] /\ jpid'[t] = jpid[t] 
      BY DEF Scanning
    <3>6. \A t \in Slots : pc[t] \in Scanning => idx[t] \in Slots /\ (pc[idx[t]] # "none" => pc'[idx[t]] # "none")
      BY DEF Scans, Phases, Scanning
    <3>7. QED BY <3>3, <3>4, <3>5, <3>6 DEF Disposed, Scanning
  <2>5. Sharing'
    BY <1>2 DEF Family, Sharing, Kin, TypeOK
  <2>6. QED BY <2>1, <2>2, <2>3, <2>4, <2>5 DEF Family
<1>3. QED BY <1>1, <1>2

\* Who fills a slot is an owner, and nobody else has to do with that slot.
LEMMA Filled ==
  ASSUME IInv, FInv, NEW s \in Slots, pc[s] \in Filling
  PROVE  /\ idx[s] \in Slots \ {s, InitProc}
         /\ state[idx[s]] = "EMBRYO" /\ pc[idx[s]] = "none"
         /\ \A t \in Slots : pc[t] \in Filling /\ idx[t] = idx[s] => t = s
         /\ ~disturbed =>
              /\ ~isThread[s] /\ ~killed[idx[s]] /\ pid[s] < pid[idx[s]]
              /\ parent[idx[s]] \in {0, s}
              /\ \A q \in Slots : parent[q] # idx[s]
<1>1. idx[s] \in Slots /\ state[idx[s]] = "EMBRYO"
  BY DEF IInv, Fills
<1>2. pc[idx[s]] = "none" /\ idx[s] # s /\ idx[s] # InitProc
  BY <1>1, Bounds DEF IInv, Phases, Boot, Filling
<1>3. \A t \in Slots : pc[t] \in Filling /\ idx[t] = idx[s] => t = s
  BY DEF IInv, Fills
<1>4. ASSUME ~disturbed
      PROVE  /\ ~isThread[s] /\ ~killed[idx[s]] /\ pid[s] < pid[idx[s]]
             /\ \A q \in Slots : parent[q] # idx[s]
    BY <1>1, <1>2, <1>4 DEF FInv, Family, Parents, Embryos, ThreadPhases, Filling
<1>5. ASSUME ~disturbed PROVE parent[idx[s]] \in {0, s}
  <2>1. parent[idx[s]] \in Slots => idx[parent[idx[s]]] = idx[s] /\ pc[parent[idx[s]]] \in Filling
    BY <1>1, <1>5 DEF FInv, Family, Embryos
  <2>2. parent[idx[s]] \in Slots \cup {0}
    BY <1>1 DEF IInv, TypeOK, Slots
  <2>3. QED BY <1>3, <2>1, <2>2
<1>6. QED BY <1>1, <1>2, <1>3, <1>4, <1>5

\* allocproc takes an UNUSED slot for s, in fork or clone.
LEMMA FamilyAllocating ==
  ASSUME IInv, IInv', FInv, NEW s \in Slots, NEW j \in Slots,
         NEW place \in {"fork_fill", "clone_fill"},
         state[s] = "RUNNING", pc[s] = "user", Alloc(s, j), Goto(s, place),
         ~disturbed' => ~disturbed /\ ~isThread[s]
  PROVE  FInv'
<1> USE DEF IInv, FInv
<1>0. /\ state[j] = "UNUSED" /\ j # s /\ nextpid <= MaxPid
      /\ state' = [state EXCEPT ![j] = "EMBRYO"]
      /\ pid' = [pid EXCEPT ![j] = nextpid]
      /\ nextpid' = nextpid + 1
      /\ idx' = [idx EXCEPT ![s] = j]
      /\ pc' = [pc EXCEPT ![s] = place]
      /\ UNCHANGED <<parent, killed, isThread, chan, space, jpid>>
  BY DEF Alloc, Goto, IsFirst, InUse
<1>9. pc[j] = "none" /\ parent[j] = 0 /\ space[j] = 0 /\ j # InitProc /\ nextpid \in Nat \ {0}
  BY <1>0, Bounds DEF Phases, Boot, Blank, TypeOK
<1>1. Pids'
  BY <1>0, <1>9, Bounds DEF Pids, InUse, TypeOK, Phases, Fills
<1>2. Locals'
  BY <1>0, <1>9, Bounds DEF Locals, TypeOK, Fills, Scans, Filling, Scanning
<1>3. Blank'
  BY <1>0, <1>9, Bounds DEF Blank, TypeOK, Phases, Fills, Filling
<1>4. ASSUME ~disturbed' PROVE Family'
  <2>1. Family
    BY <1>4, <1>0, <1>9, Bounds DEF FInv
  <2>2. Parents'
    BY <2>1, <1>4, <1>0, <1>9, Bounds DEF Family, Parents, TypeOK, Phases, Fills, Filling
  <2>3. Embryos'
    <3>1. \A q, p \in Slots : state'[q] = "EMBRYO" /\ parent'[q] = p =>
            pc'[p] \in Filling /\ idx'[p] = q
      <4>1. \A q, p \in Slots : state'[q] = "EMBRYO" /\ parent'[q] = p => state[q] = "EMBRYO" /\ p # s
        BY <2>1, <1>0, <1>9, Bounds DEF Family, Embryos, TypeOK, Filling
      <4>2. QED BY <2>1, <4>1, <1>0, <1>9 DEF Family, Embryos, TypeOK
    <3>2. \A t \in Slots : pc'[t] \in {"clone_flag", "clone_run"} => parent'[idx'[t]] = t
      BY <2>1, <1>0 DEF Family, Embryos, TypeOK
    <3>3. \A t \in Slots : pc'[t] \in Filling => pid'[t] < pid'[idx'[t]]
      <4>1. \A t \in Slots \ {s} : pc'[t] \in Filling =>
              pc[t] \in Filling /\ idx'[t] = idx[t] /\ idx[t] \in Slots \ {j} /\ t # j
        BY <1>0, <1>9 DEF TypeOK, Fills, Phases, Filling
      <4>2. pid'[s] = pid[s] /\ pid'[j] = nextpid /\ idx'[s] = j /\ pid[s] < nextpid
        BY <1>0 DEF TypeOK, Pids
      <4>3. \A q \in Slots \ {j} : pid'[q] = pid[q]
        BY <1>0 DEF TypeOK
      <4>4. QED BY <2>1, <4>1, <4>2, <4>3 DEF Family, Embryos
    <3>4. QED BY <3>1, <3>2, <3>3 DEF Embryos
  <2>4. ThreadPhases'
    BY <2>1, <1>4, <1>0, <1>9, Bounds DEF Family, ThreadPhases, TypeOK, Phases, Fills, Filling
  <2>5. Disposed'
    BY <2>1, <1>4, <1>0, <1>9, Bounds DEF Family, Disposed, TypeOK, Phases, Fills, Filling, Scanning, Scans
  <2>6. Sharing'
    BY <2>1, <1>4, <1>0, <1>9, Bounds DEF Family, Sharing, Kin, TypeOK, Phases, Fills, Filling
  <2>7. QED BY <2>2, <2>3, <2>4, <2>5, <2>6 DEF Family
<1>5. QED BY <1>1, <1>2, <1>3, <1>4

\* One lemma for each step of fork, clone and exec.
LEMMA FamilyFailing ==
  ASSUME IInv, IInv', FInv, NEW s \in Slots, AllocFails(s)
  PROVE  FInv'
<1> USE DEF IInv, FInv
<1>i. PICK i \in Slots \ {s, InitProc} :
        /\ i = idx[s] /\ state[i] = "EMBRYO" /\ pc[i] = "none"
        /\ \A t \in Slots : pc[t] \in Filling /\ idx[t] = i => t = s
        /\ ~disturbed =>
             /\ ~isThread[s] /\ ~killed[i] /\ pid[s] < pid[i]
             /\ parent[i] \in {0, s}
             /\ \A q \in Slots : parent[q] # i
  BY Filled DEF AllocFails, At, Filling
<1>u. /\ state' = [state EXCEPT ![i] = "UNUSED"]
      /\ pc' = [pc EXCEPT ![s] = "user"] /\ pc[s] \in {"fork_fill", "clone_fill"}
      /\ idx' = [idx EXCEPT ![s] = 0] /\ jpid' = [jpid EXCEPT ![s] = 0]
      /\ UNCHANGED <<pid, parent, killed, isThread, chan, space, nextpid, disturbed>>
  BY <1>i DEF AllocFails, At, Goto, Return
<1>1. Pids'
  BY <1>i, <1>u, Bounds DEF Pids, InUse, TypeOK, Phases, Fills
<1>2. Locals'
  BY <1>i, <1>u, Bounds DEF Locals, TypeOK, Fills, Scans, Filling, Scanning
<1>3. Blank'
  BY <1>i, <1>u, Bounds DEF Blank, TypeOK, Phases, Fills, Filling
<1>4. ASSUME ~disturbed' PROVE Family'
  <2>1. Family
    BY <1>4, <1>i, <1>u, Bounds DEF FInv
  <2>2. Parents'
    BY <2>1, <1>4, <1>i, <1>u, Bounds DEF Family, Parents, TypeOK, Phases, Fills, Filling
  <2>3. Embryos'
    BY <2>1, <1>4, <1>i, <1>u, Bounds DEF Family, Embryos, TypeOK, Phases, Fills, Filling
  <2>4. ThreadPhases'
    BY <2>1, <1>4, <1>i, <1>u, Bounds DEF Family, ThreadPhases, TypeOK, Phases, Fills, Filling
  <2>5. Disposed'
    BY <2>1, <1>4, <1>i, <1>u, Bounds DEF Family, Disposed, TypeOK, Phases, Fills, Filling, Scanning, Scans
  <2>6. Sharing'
    BY <2>1, <1>4, <1>i, <1>u, Bounds DEF Family, Sharing, Kin, TypeOK, Phases, Fills, Filling
  <2>7. QED BY <2>2, <2>3, <2>4, <2>5, <2>6 DEF Family
<1>5. QED BY <1>1, <1>2, <1>3, <1>4

LEMMA FamilyForkFilling ==
  ASSUME IInv, IInv', FInv, NEW s \in Slots, ForkFill(s)
  PROVE  FInv'
<1> USE DEF IInv, FInv
<1>i. PICK i \in Slots \ {s, InitProc} :
        /\ i = idx[s] /\ state[i] = "EMBRYO" /\ pc[i] = "none"
        /\ \A t \in Slots : pc[t] \in Filling /\ idx[t] = i => t = s
        /\ ~disturbed =>
             /\ ~isThread[s] /\ ~killed[i] /\ pid[s] < pid[i]
             /\ parent[i] \in {0, s}
             /\ \A q \in Slots : parent[q] # i
  BY Filled DEF ForkFill, At, Filling
<1>f. FreshSpace \in Spaces /\ \A q \in Slots : space[q] # FreshSpace
  BY FreshSpaceIsFree
<1>u. /\ pc[s] = "fork_fill" /\ pc' = [pc EXCEPT ![s] = "fork_flag"]
      /\ space' = [space EXCEPT ![i] = FreshSpace]
      /\ parent' = [parent EXCEPT ![i] = s]
      /\ UNCHANGED <<state, pid, killed, isThread, chan, idx, jpid, nextpid, disturbed>>
  BY <1>i DEF ForkFill, At, Goto, Return
<1>1. Pids'
  BY <1>i, <1>u, <1>f, Bounds DEF Pids, InUse, TypeOK, Phases, Fills
<1>2. Locals'
  BY <1>i, <1>u, <1>f, Bounds DEF Locals, TypeOK, Fills, Scans, Filling, Scanning
<1>3. Blank'
  BY <1>i, <1>u, <1>f, Bounds DEF Blank, TypeOK, Phases, Fills, Filling
<1>4. ASSUME ~disturbed' PROVE Family'
  <2>1. Family
    BY <1>4, <1>i, <1>u, <1>f, Bounds DEF FInv
  <2>2. Parents'
    BY <2>1, <1>4, <1>i, <1>u, <1>f, Bounds DEF Family, Parents, TypeOK, Phases, Fills, Filling
  <2>3. Embryos'
    BY <2>1, <1>4, <1>i, <1>u, <1>f, Bounds DEF Family, Embryos, TypeOK, Phases, Fills, Filling
  <2>4. ThreadPhases'
    BY <2>1, <1>4, <1>i, <1>u, <1>f, Bounds DEF Family, ThreadPhases, TypeOK, Phases, Fills, Filling
  <2>5. Disposed'
    BY <2>1, <1>4, <1>i, <1>u, <1>f, Bounds DEF Family, Disposed, TypeOK, Phases, Fills, Filling, Scanning, Scans
  <2>6. Sharing'
    <3>1. /\ \A q \in Slots \ {i} : space'[q] = space[q] /\ parent'[q] = parent[q]
          /\ space'[i] = FreshSpace /\ FreshSpace # Freed
      BY <1>u, <1>f DEF TypeOK, Freed, Spaces
    <3>2. \A q, r \in Slots : q # r /\ space'[q] = space'[r] => q # i /\ r # i
      BY <3>1, <1>f
    <3>3. \A q, r \in Slots : q # r /\ space'[q] = space'[r] => space'[q] = 0 \/ Kin(q, r)'
      BY <2>1, <3>1, <3>2, <1>u DEF Family, Sharing, Kin
    <3>4. \A t, r \in Slots : pc'[t] = "fork_flag" /\ r # idx'[t] => space'[r] # space'[idx'[t]]
      <4>1. \A t \in Slots \ {s} : pc'[t] = "fork_flag" =>
              pc[t] = "fork_flag" /\ idx[t] \in Slots \ {i}
        BY <1>i, <1>u DEF TypeOK, Fills, Filling
      <4>2. QED BY <2>1, <3>1, <4>1, <1>i, <1>u, <1>f DEF Family, Sharing
    <3>5. QED BY <2>1, <3>1, <3>3, <3>4, <1>u DEF Family, Sharing
  <2>7. QED BY <2>2, <2>3, <2>4, <2>5, <2>6 DEF Family
<1>5. QED BY <1>1, <1>2, <1>3, <1>4

LEMMA FamilyForkFlagging ==
  ASSUME IInv, IInv', FInv, NEW s \in Slots, ForkFlag(s)
  PROVE  FInv'
<1> USE DEF IInv, FInv
<1>i. PICK i \in Slots \ {s, InitProc} :
        /\ i = idx[s] /\ state[i] = "EMBRYO" /\ pc[i] = "none"
        /\ \A t \in Slots : pc[t] \in Filling /\ idx[t] = i => t = s
        /\ ~disturbed =>
             /\ ~isThread[s] /\ ~killed[i] /\ pid[s] < pid[i]
             /\ parent[i] \in {0, s}
             /\ \A q \in Slots : parent[q] # i
  BY Filled DEF ForkFlag, At, Filling
<1>u. /\ pc[s] = "fork_flag" /\ pc' = [pc EXCEPT ![s] = "fork_run"]
      /\ isThread' = [isThread EXCEPT ![i] = FALSE]
      /\ UNCHANGED <<state, pid, parent, killed, chan, space, idx, jpid, nextpid, disturbed>>
  BY <1>i DEF ForkFlag, At, Goto, Return
<1>1. Pids'
  BY <1>i, <1>u, Bounds DEF Pids, InUse, TypeOK, Phases, Fills
<1>2. Locals'
  BY <1>i, <1>u, Bounds DEF Locals, TypeOK, Fills, Scans, Filling, Scanning
<1>3. Blank'
  BY <1>i, <1>u, Bounds DEF Blank, TypeOK, Phases, Fills, Filling
<1>4. ASSUME ~disturbed' PROVE Family'
  <2>1. Family
    BY <1>4, <1>i, <1>u, Bounds DEF FInv
  <2>2. Parents'
    BY <2>1, <1>4, <1>i, <1>u, Bounds DEF Family, Parents, TypeOK, Phases, Fills, Filling
  <2>3. Embryos'
    BY <2>1, <1>4, <1>i, <1>u, Bounds DEF Family, Embryos, TypeOK, Phases, Fills, Filling
  <2>4. ThreadPhases'
    BY <2>1, <1>4, <1>i, <1>u, Bounds DEF Family, ThreadPhases, TypeOK, Phases, Fills, Filling
  <2>5. Disposed'
    BY <2>1, <1>4, <1>i, <1>u, Bounds DEF Family, Disposed, TypeOK, Phases, Fills, Filling, Scanning, Scans
  <2>6. Sharing'
    BY <2>1, <1>4, <1>i, <1>u, Bounds DEF Family, Sharing, Kin, TypeOK, Phases, Fills, Filling
  <2>7. QED BY <2>2, <2>3, <2>4, <2>5, <2>6 DEF Family
<1>5. QED BY <1>1, <1>2, <1>3, <1>4

LEMMA FamilyCloneFilling ==
  ASSUME IInv, IInv', FInv, NEW s \in Slots, CloneFill(s)
  PROVE  FInv'
<1> USE DEF IInv, FInv
<1>i. PICK i \in Slots \ {s, InitProc} :
        /\ i = idx[s] /\ state[i] = "EMBRYO" /\ pc[i] = "none"
        /\ \A t \in Slots : pc[t] \in Filling /\ idx[t] = i => t = s
        /\ ~disturbed =>
             /\ ~isThread[s] /\ ~killed[i] /\ pid[s] < pid[i]
             /\ parent[i] \in {0, s}
             /\ \A q \in Slots : parent[q] # i
  BY Filled DEF CloneFill, At, Filling
<1>u. /\ pc[s] = "clone_fill" /\ pc' = [pc EXCEPT ![s] = "clone_flag"]
      /\ parent' = [parent EXCEPT ![i] = IF isThread[s] THEN parent[s] ELSE s]
      /\ UNCHANGED <<state, pid, killed, isThread, chan, space, idx, jpid, nextpid, disturbed>>
  BY <1>i DEF CloneFill, At, Goto, Return
<1>1. Pids'
  BY <1>i, <1>u, Bounds DEF Pids, InUse, TypeOK, Phases, Fills
<1>2. Locals'
  BY <1>i, <1>u, Bounds DEF Locals, TypeOK, Fills, Scans, Filling, Scanning
<1>3. Blank'
  BY <1>i, <1>u, Bounds DEF Blank, TypeOK, Phases, Fills, Filling
<1>4. ASSUME ~disturbed' PROVE Family'
  <2>1. Family
    BY <1>4, <1>i, <1>u, Bounds DEF FInv
  <2>2. Parents'
    BY <2>1, <1>4, <1>i, <1>u, Bounds DEF Family, Parents, TypeOK, Phases, Fills, Filling
  <2>3. Embryos'
    BY <2>1, <1>4, <1>i, <1>u, Bounds DEF Family, Embryos, TypeOK, Phases, Fills, Filling
  <2>4. ThreadPhases'
    BY <2>1, <1>4, <1>i, <1>u, Bounds DEF Family, ThreadPhases, TypeOK, Phases, Fills, Filling
  <2>5. Disposed'
    BY <2>1, <1>4, <1>i, <1>u, Bounds DEF Family, Disposed, TypeOK, Phases, Fills, Filling, Scanning, Scans
  <2>6. Sharing'
    <3>1. /\ \A q \in Slots \ {i} : parent'[q] = parent[q]
          /\ space[i] = 0
      BY <1>i, <1>u DEF TypeOK, Blank
    <3>2. \A q, r \in Slots : q # r /\ space[q] = space[r] => space[q] = 0 \/ Kin(q, r)'
      BY <2>1, <3>1, <1>u DEF Family, Sharing, Kin
    <3>3. \A t, r \in Slots : pc'[t] = "fork_flag" /\ r # idx'[t] => space'[r] # space'[idx'[t]]
      BY <2>1, <1>u DEF Family, Sharing, TypeOK
    <3>4. QED BY <2>1, <3>2, <3>3, <1>u DEF Family, Sharing
  <2>7. QED BY <2>2, <2>3, <2>4, <2>5, <2>6 DEF Family
<1>5. QED BY <1>1, <1>2, <1>3, <1>4

LEMMA FamilyCloneFlagging ==
  ASSUME IInv, IInv', FInv, NEW s \in Slots, CloneFlag(s)
  PROVE  FInv'
<1> USE DEF IInv, FInv
<1>i. PICK i \in Slots \ {s, InitProc} :
        /\ i = idx[s] /\ state[i] = "EMBRYO" /\ pc[i] = "none"
        /\ \A t \in Slots : pc[t] \in Filling /\ idx[t] = i => t = s
        /\ ~disturbed =>
             /\ ~isThread[s] /\ ~killed[i] /\ pid[s] < pid[i]
             /\ parent[i] \in {0, s}
             /\ \A q \in Slots : parent[q] # i
  BY Filled DEF CloneFlag, At, Filling
<1>u. /\ pc[s] = "clone_flag" /\ pc' = [pc EXCEPT ![s] = "clone_run"]
      /\ space' = [space EXCEPT ![i] = space[s]]
      /\ isThread' = [isThread EXCEPT ![i] = TRUE]
      /\ UNCHANGED <<state, pid, parent, killed, chan, idx, jpid, nextpid, disturbed>>
  BY <1>i DEF CloneFlag, At, Goto, Return
<1>1. Pids'
  BY <1>i, <1>u, Bounds DEF Pids, InUse, TypeOK, Phases, Fills
<1>2. Locals'
  BY <1>i, <1>u, Bounds DEF Locals, TypeOK, Fills, Scans, Filling, Scanning
<1>3. Blank'
  BY <1>i, <1>u, Bounds DEF Blank, TypeOK, Phases, Fills, Filling
<1>4. ASSUME ~disturbed' PROVE Family'
  <2>1. Family
    BY <1>4, <1>i, <1>u, Bounds DEF FInv
  <2>2. Parents'
    BY <2>1, <1>4, <1>i, <1>u, Bounds DEF Family, Parents, TypeOK, Phases, Fills, Filling
  <2>3. Embryos'
    BY <2>1, <1>4, <1>i, <1>u, Bounds DEF Family, Embryos, TypeOK, Phases, Fills, Filling
  <2>4. ThreadPhases'
    BY <2>1, <1>4, <1>i, <1>u, Bounds DEF Family, ThreadPhases, TypeOK, Phases, Fills, Filling
  <2>5. Disposed'
    BY <2>1, <1>4, <1>i, <1>u, Bounds DEF Family, Disposed, TypeOK, Phases, Fills, Filling, Scanning, Scans
  <2>6. Sharing'
    <3>1. /\ \A q \in Slots \ {i} : space'[q] = space[q] /\ isThread'[q] = isThread[q]
          /\ space'[i] = space[s] /\ isThread'[i] = TRUE /\ parent[i] = s
      BY <1>i, <1>u, <2>1 DEF TypeOK, Family, Embryos
    <3>2. \A r \in Slots \ {i} : space'[i] = space'[r]
              => space'[i] = 0 \/ (Kin(i, r)' /\ Kin(r, i)')
      <4>1. ~isThread[s]
        BY <1>i, <1>4, <1>u
      <4>2. \A r \in Slots \ {i, s} : space[s] = space[r] => space[s] = 0 \/ (isThread[r] /\ parent[r] = s)
        BY <2>1, <4>1 DEF Family, Sharing, Kin
      <4>3. QED BY <3>1, <4>2, <1>u DEF Kin
    <3>3. \A q, r \in Slots : q # r /\ space'[q] = space'[r] => space'[q] = 0 \/ Kin(q, r)'
      BY <2>1, <3>1, <3>2, <1>u DEF Family, Sharing, Kin
    <3>4. \A t, r \in Slots : pc'[t] = "fork_flag" /\ r # idx'[t] => space'[r] # space'[idx'[t]]
      <4>1. \A t \in Slots : pc'[t] = "fork_flag" =>
              pc[t] = "fork_flag" /\ idx[t] \in Slots \ {i, s}
        BY <1>i, <1>u DEF TypeOK, Fills, Filling, Phases
      <4>2. QED BY <2>1, <3>1, <4>1, <1>u DEF Family, Sharing
    <3>5. QED BY <2>1, <3>1, <3>3, <3>4, <1>u DEF Family, Sharing
  <2>7. QED BY <2>2, <2>3, <2>4, <2>5, <2>6 DEF Family
<1>5. QED BY <1>1, <1>2, <1>3, <1>4

LEMMA FamilyPublishing ==
  ASSUME IInv, IInv', FInv, NEW s \in Slots, Publish(s)
  PROVE  FInv'
<1> USE DEF IInv, FInv
<1>i. PICK i \in Slots \ {s, InitProc} :
        /\ i = idx[s] /\ state[i] = "EMBRYO" /\ pc[i] = "none"
        /\ \A t \in Slots : pc[t] \in Filling /\ idx[t] = i => t = s
        /\ ~disturbed =>
             /\ ~isThread[s] /\ ~killed[i] /\ pid[s] < pid[i]
             /\ parent[i] \in {0, s}
             /\ \A q \in Slots : parent[q] # i
  BY Filled DEF Publish, At, Filling
<1>u. /\ pc[s] \in {"fork_run", "clone_run"}
      /\ state' = [state EXCEPT ![i] = "RUNNABLE"]
      /\ pc' = [pc EXCEPT ![s] = "user", ![i] = "user"]
      /\ idx' = [idx EXCEPT ![s] = 0]
      /\ UNCHANGED <<pid, parent, killed, isThread, chan, space, jpid, nextpid, disturbed>>
  BY <1>i DEF Publish, At, Goto, Return
<1>1. Pids'
  BY <1>i, <1>u, Bounds DEF Pids, InUse, TypeOK, Phases, Fills
<1>2. Locals'
  BY <1>i, <1>u, Bounds DEF Locals, TypeOK, Fills, Scans, Filling, Scanning
<1>3. Blank'
  BY <1>i, <1>u, Bounds DEF Blank, TypeOK, Phases, Fills, Filling
<1>4. ASSUME ~disturbed' PROVE Family'
  <2>1. Family
    BY <1>4, <1>i, <1>u, Bounds DEF FInv
  <2>2. Parents'
    BY <2>1, <1>4, <1>i, <1>u, Bounds DEF Family, Parents, TypeOK, Phases, Fills, Filling
  <2>3. Embryos'
    BY <2>1, <1>4, <1>i, <1>u, Bounds DEF Family, Embryos, TypeOK, Phases, Fills, Filling
  <2>4. ThreadPhases'
    BY <2>1, <1>4, <1>i, <1>u, Bounds DEF Family, ThreadPhases, TypeOK, Phases, Fills, Filling
  <2>5. Disposed'
    BY <2>1, <1>4, <1>i, <1>u, Bounds DEF Family, Disposed, TypeOK, Phases, Fills, Filling, Scanning, Scans
  <2>6. Sharing'
    BY <2>1, <1>4, <1>i, <1>u, Bounds DEF Family, Sharing, Kin, TypeOK, Phases, Fills, Filling
  <2>7. QED BY <2>2, <2>3, <2>4, <2>5, <2>6 DEF Family
<1>5. QED BY <1>1, <1>2, <1>3, <1>4

LEMMA FamilyReplacing ==
  ASSUME IInv, IInv', FInv, NEW s \in Slots, Exec(s)
  PROVE  FInv'
<1> USE DEF IInv, FInv
<1>f. FreshSpace \in Spaces /\ \A q \in Slots : space[q] # FreshSpace
  BY FreshSpaceIsFree
<1>u. /\ state[s] = "RUNNING" /\ pc[s] = "user"
      /\ space' \in [Slots -> {Freed, 0} \cup Spaces] /\ space'[s] = FreshSpace
      /\ \A q \in Slots \ {s} : space'[q] = space[q] 
           \/ (space'[q] = Freed /\ space[q] = space[s] /\ disturbed' /\ space[q] \in Spaces)
      /\ ~disturbed' => ~disturbed /\ \A q \in Slots \ {s} : space[q] # space[s]
      /\ UNCHANGED <<state, pid, parent, killed, isThread, chan, pc, idx, jpid, nextpid>>
  BY <1>f, FreshSpaceExists DEF Exec, Calls, FreeSpace, local, TypeOK, Freed
<1>1. Pids'
  BY <1>f, <1>u, Bounds DEF Pids, InUse, TypeOK, Phases, Fills
<1>2. Locals'
  BY <1>f, <1>u, Bounds DEF Locals, TypeOK, Fills, Scans, Filling, Scanning
<1>3. Blank'
  <2>1. \A q \in Slots : space[q] = 0 => space'[q] = 0 \/ q = s
    BY <1>u, Bounds DEF Spaces
  <2>2. \A t \in Slots : pc[t] \in Filling => idx[t] \in Slots \ {s}
    BY <1>u, Bounds DEF Fills, Phases
  <2>3. QED BY <1>u, <2>1, <2>2 DEF Blank, Filling, Freed
<1>4. ASSUME ~disturbed' PROVE Family'
  <2>1. Family
    BY <1>4, <1>f, <1>u, Bounds DEF FInv
  <2>2. Parents'
    BY <2>1, <1>4, <1>f, <1>u, Bounds DEF Family, Parents, TypeOK, Phases, Fills, Filling
  <2>3. Embryos'
    BY <2>1, <1>4, <1>f, <1>u, Bounds DEF Family, Embryos, TypeOK, Phases, Fills, Filling
  <2>4. ThreadPhases'
    BY <2>1, <1>4, <1>f, <1>u, Bounds DEF Family, ThreadPhases, TypeOK, Phases, Fills, Filling
  <2>5. Disposed'
    BY <2>1, <1>4, <1>f, <1>u, Bounds DEF Family, Disposed, TypeOK, Phases, Fills, Filling, Scanning, Scans
  <2>6. Sharing'
    <3>1. \A q \in Slots \ {s} : space'[q] = space[q]
      BY <1>4, <1>u
    <3>2. \A q \in Slots : space'[q] # Freed
      BY <2>1, <3>1, <1>u, <1>f DEF Family, Sharing, Freed, Spaces
    <3>3. \A q, r \in Slots : q # r /\ space'[q] = space'[r] => space'[q] = 0 \/ Kin(q, r)'
      BY <2>1, <3>1, <1>u, <1>f DEF Family, Sharing, Kin
    <3>4. \A t, r \in Slots : pc[t] = "fork_flag" /\ r # idx[t] => space'[r] # space'[idx[t]]
      <4>1. \A t \in Slots : pc[t] = "fork_flag" => idx[t] \in Slots \ {s}
        BY <1>u DEF Fills, Filling, Phases
      <4>2. QED BY <2>1, <3>1, <4>1, <1>u, <1>f DEF Family, Sharing
    <3>5. QED BY <3>2, <3>3, <3>4, <1>u DEF Sharing
  <2>7. QED BY <2>2, <2>3, <2>4, <2>5, <2>6 DEF Family
<1>5. QED BY <1>1, <1>2, <1>3, <1>4

\* exit reads the pid of the thread it has met.
LEMMA FamilyReadingPid ==
  ASSUME IInv, IInv', FInv, NEW s \in Slots, ExitReads(s)
  PROVE  FInv'
<1> USE DEF IInv, FInv
<1>1. Pids'
  BY Bounds DEF Pids, InUse, TypeOK, Phases, Fills, ExitReads, At, Goto, table
<1>2. Locals'
  BY Bounds DEF Locals, TypeOK, Fills, Scans, Filling, Scanning, ExitReads, At, Goto, table
<1>3. Blank'
  BY Bounds DEF Blank, TypeOK, Phases, Fills, Filling, ExitReads, At, Goto, table
<1>4. ASSUME ~disturbed' PROVE Family'
  <2>1. Family
    BY <1>4, Bounds DEF FInv, ExitReads, At, Goto, table
  <2>2. Parents'
    BY <2>1, <1>4, Bounds DEF Family, Parents, TypeOK, Phases, Fills, Filling, ExitReads, At, Goto, table
  <2>3. Embryos'
    BY <2>1, <1>4, Bounds DEF Family, Embryos, TypeOK, Phases, Fills, Filling, ExitReads, At, Goto, table
  <2>4. ThreadPhases'
    BY <2>1, <1>4, Bounds DEF Family, ThreadPhases, TypeOK, Phases, Fills, Filling, ExitReads, At, Goto, table
  <2>5. Disposed'
    BY <2>1, <1>4, Bounds DEF Family, Disposed, TypeOK, Phases, Fills, Filling, Scanning, Scans, ExitReads, At, Goto, table
  <2>6. Sharing'
    BY <2>1, <1>4, Bounds DEF Family, Sharing, Kin, TypeOK, Phases, Fills, Filling, ExitReads, At, Goto, table
  <2>7. QED BY <2>2, <2>3, <2>4, <2>5, <2>6 DEF Family
<1>5. QED BY <1>1, <1>2, <1>3, <1>4

\* kill marks nobody but a process with that pid.
LEMMA KillMarks ==
  ASSUME TypeOK, NEW k, KillEffect(k)
  PROVE  /\ killed' \in [Slots -> BOOLEAN]
         /\ \A q \in Slots : killed'[q] /\ ~killed[q] => pid[q] = k
<1>1. CASE UNCHANGED <<state, killed>>
  BY <1>1 DEF TypeOK
<1>2. CASE \E q \in Slots : pid[q] = k /\ killed' = [killed EXCEPT ![q] = TRUE]
  BY <1>2 DEF TypeOK
<1>3. QED BY <1>1, <1>2 DEF KillEffect, IsFirst

\* exit kills that thread, and no other slot has its pid.
LEMMA FamilyKilling ==
  ASSUME IInv, IInv', FInv, NEW s \in Slots, ExitKills(s)
  PROVE  FInv'
<1> USE DEF IInv, FInv
<1>1. /\ pc[s] = "exit_kill" /\ pc' = [pc EXCEPT ![s] = "exit_reread"]
      /\ jpid' = [jpid EXCEPT ![s] = 0]
      /\ UNCHANGED <<pid, parent, isThread, chan, space, idx, nextpid, disturbed>>
      /\ KillEffect(jpid[s])
  BY DEF ExitKills, At, Goto
<1>2. /\ killed' \in [Slots -> BOOLEAN]
      /\ \A q \in Slots : killed'[q] /\ ~killed[q] => pid[q] = jpid[s]
      /\ \A q \in Slots : state'[q] = state[q]
            \/ (state[q] = "SLEEPING" /\ state'[q] = "RUNNABLE")
  BY <1>1, KillMarks, KillEffects
<1> HIDE DEF ExitKills
<1>3. Pids' /\ Locals' /\ Blank'
  BY <1>1, <1>2 DEF Pids, Locals, Blank, InUse, TypeOK, Filling, Scanning
<1>4. ASSUME ~disturbed' PROVE Family'
  <2>1. Family
    BY <1>1, <1>4
  <2>2. Parents' /\ Sharing'
    BY <2>1, <1>1 DEF Family, Parents, Sharing, Kin, TypeOK
  <2>3. Embryos'
    BY <2>1, <1>1, <1>2 DEF Family, Embryos, TypeOK, Filling
  <2>4. Disposed'
    <3>1. idx[s] \in Slots
      BY <1>1 DEF Scans, Scanning
    <3>2. QED BY <2>1, <3>1, <1>1 DEF Family, Disposed, TypeOK, Scanning, Scans
  <2>5. ThreadPhases'
    <3>1. idx[s] \in Slots /\ jpid[s] = pid[idx[s]] /\ isThread[idx[s]] /\ pc[idx[s]] # "none"
      BY <2>1, <1>1 DEF Family, Disposed, Scanning, Scans
    <3>2. pid[idx[s]] # 0
      BY <3>1 DEF Pids, InUse, Phases
    <3>3. \A q \in Slots : killed'[q] => killed[q] \/ q = idx[s]
      BY <1>2, <3>1, <3>2 DEF Pids
    <3>4. QED BY <2>1, <3>1, <3>3, <1>1 DEF Family, ThreadPhases, TypeOK
  <2>6. QED BY <2>2, <2>3, <2>4, <2>5 DEF Family
<1>5. QED BY <1>3, <1>4

\* A killed owner gives up the join in its exit: somebody has disturbed.
LEMMA FamilyGivingUp ==
  ASSUME IInv, IInv', FInv, NEW s \in Slots, JoinGivesUp(s), pc[s] = "exit_join"
  PROVE  FInv'
<1> USE DEF IInv, FInv
<1>1. /\ pc' = [pc EXCEPT ![s] = "exit_scan"]
      /\ JoinSet(s) = {} \/ killed[s]
      /\ UNCHANGED <<state, pid, parent, killed, isThread, chan, space, idx, nextpid, disturbed>>
  BY DEF JoinGivesUp, AfterJoin, Goto, table
<1>2. Pids' /\ Locals' /\ Blank'
  BY <1>1 DEF Pids, Locals, Blank, InUse, TypeOK, Filling, Scanning
<1>3. disturbed
  <2> SUFFICES ASSUME Family PROVE FALSE
    OBVIOUS
  <2>1. idx[s] \in Slots /\ isThread[idx[s]] /\ parent[idx[s]] = s /\ jpid[s] = pid[idx[s]]
    BY DEF Family, Disposed, Scanning, Scans
  <2>2. idx[s] \in JoinSet(s)
    BY <2>1 DEF JoinSet, Joinable
  <2>3. ~isThread[s]
    BY <2>1 DEF Family, Parents
  <2>4. QED BY <2>2, <2>3, <1>1 DEF Family, ThreadPhases
<1>4. QED BY <1>1, <1>2, <1>3

\* wait or join gives back the slot of z, which has nobody left.
LEMMA FamilyReaping ==
  ASSUME IInv, IInv', FInv, NEW s \in Slots, NEW z \in Slots,
         NEW place \in {"user", "exit_scan"},
         pc[s] \in {"wait", "join", "exit_join"},
         place = "exit_scan" <=> pc[s] = "exit_join",
         state[s] = "RUNNING", state[z] = "ZOMBIE", Reap(z),
         \A q \in Slots : pc'[q] = IF q = z THEN "none" ELSE IF q = s THEN place ELSE pc[q],
         parent[z] = s \/ isThread[s],
         pc[s] = "exit_join" => jpid[s] \in {-1, pid[z]},
         space'[z] = 0,
         \A q \in Slots \ {z} : space'[q] = space[q]
            \/ (space[q] \in Spaces /\ space[q] = space[z] /\ ~isThread[z] /\ space'[q] = Freed),
         \A q \in Slots \ {s} : jpid'[q] = jpid[q],
         UNCHANGED <<isThread, chan, idx, nextpid, disturbed>>
  PROVE  FInv'
<1>a. TypeOK /\ Phases /\ Fills /\ Scans /\ Boot /\ Pids /\ Locals /\ Blank
  BY DEF IInv, FInv
<1>1. /\ state' = [state EXCEPT ![z] = "UNUSED"] /\ pid' = [pid EXCEPT ![z] = 0]
      /\ parent' = [parent EXCEPT ![z] = 0] /\ killed' = [killed EXCEPT ![z] = FALSE]
  BY <1>a DEF Reap
<1>2. pc[z] = "dead" /\ z # s /\ z # InitProc
  BY <1>a, Bounds DEF Phases, Boot
<1>3. Pids'
  BY <1>a, <1>1, <1>2, Bounds DEF Pids, InUse, TypeOK
<1>4. Locals'
  BY <1>a, <1>2 DEF Locals, TypeOK, Filling, Scanning
<1>5. Blank'
  <2>1. \A t \in Slots : pc'[t] \in Filling => pc[t] = pc'[t] /\ idx[t] \in Slots \ {z}
    BY <1>a, <1>2 DEF TypeOK, Fills, Filling
  <2>2. \A q \in Slots : space[q] = 0 => space'[q] = 0
    BY Bounds DEF Spaces
  <2>3. \A q \in Slots \ {z} : space[q] # 0 => space'[q] # 0
    BY <1>a DEF Freed
  <2>4. \A q \in Slots \ {z} : parent'[q] = parent[q] /\ state'[q] = state[q]
    BY <1>a, <1>1 DEF TypeOK
  <2>5. parent'[z] = 0 /\ space'[z] = 0
    BY <1>a, <1>1 DEF TypeOK
  <2>6. QED BY <1>a, <2>1, <2>2, <2>3, <2>4, <2>5 DEF Blank, Filling
<1>6. ASSUME ~disturbed' PROVE Family'
  <2>1. Family
    BY <1>6 DEF FInv
  <2>2. ~isThread[s] /\ parent[z] = s
    BY <1>a, <2>1 DEF Family, ThreadPhases
  <2>3. \A q \in Slots : parent[q] # z
    BY <2>1, <1>2 DEF Family, Parents
  <2>4. \A q \in Slots \ {z} : space'[q] = space[q]
    <3>1. SUFFICES ASSUME NEW q \in Slots \ {z}, space[q] \in Spaces, space[q] = space[z], ~isThread[z]
                   PROVE FALSE
      OBVIOUS
    <3>2. Kin(q, z)
      BY <2>1, <3>1, Bounds DEF Family, Sharing, Spaces
    <3>3. QED BY <2>3, <3>1, <3>2 DEF Kin
  <2>5. Parents'
    <3>1. \A q \in Slots \ {z} : parent'[q] = parent[q] /\ pid'[q] = pid[q] /\ pc'[q] \in {pc[q], place}
      BY <1>a, <1>1 DEF TypeOK
    <3>2. parent'[z] = 0 /\ 0 \notin Slots
      BY <1>a, <1>1, Bounds DEF TypeOK
    <3>3. SUFFICES ASSUME NEW q \in Slots, NEW p \in Slots, parent'[q] = p
                   PROVE  pc'[p] \notin {"none", "dead"} /\ ~isThread[p] /\ pid'[p] < pid'[q]
      BY <1>a DEF Parents
    <3>4. q # z /\ p # z /\ parent[q] = p
      BY <2>3, <3>1, <3>2, <3>3
    <3>5. QED BY <2>1, <3>1, <3>4 DEF Family, Parents
  <2>6. Embryos'
    <3>1. \A t \in Slots : pc'[t] \in Filling => pc[t] = pc'[t] /\ idx[t] \in Slots \ {z} /\ t # z
      BY <1>a, <1>2 DEF TypeOK, Fills, Filling
    <3>2. \A q \in Slots : state'[q] = "EMBRYO" => state[q] = "EMBRYO" /\ q # z /\ parent'[q] = parent[q]
      BY <1>a, <1>1 DEF TypeOK
    <3>3. \A q, p \in Slots : state'[q] = "EMBRYO" /\ parent'[q] = p => pc'[p] \in Filling /\ idx'[p] = q
      BY <1>a, <2>1, <2>3, <3>2, <1>2 DEF Family, Embryos, TypeOK, Filling
    <3>4. \A q \in Slots \ {z} : parent'[q] = parent[q] /\ pid'[q] = pid[q]
      BY <1>a, <1>1 DEF TypeOK
    <3>5. QED BY <2>1, <3>1, <3>3, <3>4 DEF Family, Embryos, Filling
  <2>7. ThreadPhases'
    BY <1>a, <2>1, <2>2, <1>1, <1>2 DEF Family, ThreadPhases, TypeOK
  <2>8. Disposed'
    <3>1. pc[s] = "exit_join" => z = idx[s]
      <4>1. ASSUME pc[s] = "exit_join" PROVE z = idx[s]
        <5>1. idx[s] \in Slots /\ jpid[s] = pid[idx[s]] /\ pc[idx[s]] # "none"
          BY <1>a, <2>1, <4>1 DEF Family, Disposed, Scans, Scanning
        <5>2. pid[idx[s]] # 0 /\ pid[idx[s]] # -1
          BY <1>a, <5>1 DEF Pids, InUse, Phases, TypeOK
        <5>3. QED BY <1>a, <4>1, <5>1, <5>2 DEF Pids
      <4>2. QED BY <4>1
    <3>2. \A t \in Slots : pc'[t] \in Scanning =>
            /\ t # s /\ pc[t] = pc'[t] /\ idx[t] \in Slots \ {z} /\ jpid'[t] = jpid[t]
            /\ parent[idx[t]] = t /\ isThread[idx[t]] /\ pc[idx[t]] # "none"
      BY <1>a, <2>1, <2>2, <1>2 DEF Family, Disposed, Scans, Scanning, TypeOK
    <3>3. \A t \in Slots : pc'[t] \in Scanning => pc'[idx[t]] # "none"
      BY <1>a, <3>2, <1>2 DEF TypeOK
    <3>4. \A q \in Slots \ {z} : parent'[q] = parent[q] /\ pid'[q] = pid[q]
      BY <1>a, <1>1 DEF TypeOK
    <3>5. parent'[z] = 0 /\ 0 \notin Slots
      BY <1>a, <1>1, Bounds DEF TypeOK
    <3>6. \A t \in Slots : pc'[t] = "exit_scan" => \A q \in Slots : parent'[q] = t => q > idx[t]
      <4>1. SUFFICES ASSUME NEW t \in Slots, pc'[t] = "exit_scan", NEW q \in Slots, parent'[q] = t
                     PROVE  q > idx[t]
        OBVIOUS
      <4>2. q # z /\ parent[q] = t
        BY <3>4, <3>5, <4>1
      <4>3. CASE t = s
        <5>1. pc[s] = "exit_join" /\ q >= idx[s] /\ q # idx[s]
          BY <1>a, <2>1, <3>1, <4>1, <4>2, <4>3, <1>2 DEF Family, Disposed, Scanning, TypeOK
        <5>2. QED BY <1>a, <4>3, <5>1 DEF TypeOK, Slots
      <4>4. CASE t # s
        BY <1>a, <2>1, <4>1, <4>2, <4>4, <1>2 DEF Family, Disposed, TypeOK
      <4>5. QED BY <4>3, <4>4
    <3>7. \A t \in Slots : pc'[t] \in Scanning => \A q \in Slots : parent'[q] = t => q >= idx[t]
      BY <2>1, <3>2, <3>4, <3>5 DEF Family, Disposed
    <3>8. \A t \in Slots : pc'[t] \in {"exit_kill", "exit_join"} => jpid'[t] = pid'[idx[t]]
      BY <2>1, <3>2, <3>4 DEF Family, Disposed, Scanning
    <3>9. \A t \in Slots : pc'[t] \in Scanning =>
            isThread'[idx'[t]] /\ parent'[idx'[t]] = t /\ pc'[idx'[t]] # "none"
      BY <3>2, <3>3, <3>4
    <3>10. QED BY <3>6, <3>7, <3>8, <3>9 DEF Disposed
  <2>9. Sharing'
    <3>1. \A q, r \in Slots : q # r /\ space'[q] = space'[r] => space'[q] = 0 \/ Kin(q, r)'
      <4>1. \A q \in Slots \ {z} : parent'[q] = parent[q]
        BY <1>a, <1>1 DEF TypeOK
      <4>2. QED BY <2>1, <2>4, <4>1 DEF Family, Sharing, Kin
    <3>2. \A t, r \in Slots : pc'[t] = "fork_flag" /\ r # idx[t] => space'[r] # space'[idx[t]]
      <4>1. \A t \in Slots : pc'[t] = "fork_flag" =>
              pc[t] = "fork_flag" /\ idx[t] \in Slots \ {z} /\ space[idx[t]] # 0
        BY <1>a, <1>2 DEF TypeOK, Fills, Filling, Blank
      <4>2. QED BY <2>1, <2>4, <4>1 DEF Family, Sharing
    <3>3. \A q \in Slots : space'[q] # Freed
      BY <2>1, <2>4 DEF Family, Sharing, Freed
    <3>4. QED BY <3>1, <3>2, <3>3 DEF Sharing
  <2>10. QED BY <2>5, <2>6, <2>7, <2>8, <2>9 DEF Family
<1>7. QED BY <1>3, <1>4, <1>5, <1>6 DEF FInv

\* A stretch of the loop of exit passes no thread and hands over each child.
LEMMA FamilyScanning ==
  ASSUME IInv, IInv', FInv, NEW s \in Slots, NEW stop \in Int, NEW more \in BOOLEAN,
         NEW i \in 0..NPROC,
         state[s] = "RUNNING", pc[s] = "exit_scan", ScanTo(s, stop, more),
         \A q \in ThreadsLeft(s) : q >= stop,
         IF more THEN i = stop /\ stop \in ThreadsLeft(s) ELSE stop = NPROC + 1 /\ i = 0,
         pc' = [pc EXCEPT ![s] = IF more THEN "exit_read" ELSE "dead"],
         idx' = [idx EXCEPT ![s] = i],
         UNCHANGED <<pid, killed, isThread, chan, space, jpid, nextpid, disturbed>>
  PROVE  FInv'
<1> USE DEF IInv, FInv
<1>0. InitProc \in Slots /\ InitProc # s /\ pc[InitProc] \notin {"none", "dead"}
      /\ parent[InitProc] = 0 /\ 0 \notin Slots
  BY Bounds DEF Boot
<1>1. /\ \A q \in Slots : parent'[q] = parent[q]
            \/ (parent[q] = s /\ ~isThread[q] /\ parent'[q] = InitProc)
      /\ \A q \in Slots \ {s} : state'[q] = state[q]
            \/ (state[q] = "SLEEPING" /\ state'[q] = "RUNNABLE")
      /\ state'[s] = IF more THEN "RUNNING" ELSE "ZOMBIE"
  BY Scanned
<1>2. /\ pc'[s] = IF more THEN "exit_read" ELSE "dead"
      /\ \A q \in Slots \ {s} : pc'[q] = pc[q] /\ idx'[q] = idx[q]
      /\ idx'[s] = i
  BY DEF TypeOK
<1>3. Pids' /\ Locals'
  BY <1>1, <1>2 DEF Pids, Locals, InUse, Scanning, Filling
<1>4. Blank'
  <2>1. \A t \in Slots : pc'[t] \in Filling => t # s /\ pc[t] = pc'[t]
          /\ idx'[t] = idx[t] /\ idx[t] \in Slots
    BY <1>2 DEF Fills, Filling
  <2>2. \A q \in Slots : parent[q] = 0 => parent'[q] = 0
    BY <1>0, <1>1
  <2>3. \A q \in Slots : state'[q] = "UNUSED" => state[q] = "UNUSED"
    BY <1>1
  <2>4. QED BY <2>1, <2>2, <2>3 DEF Blank, Filling
<1>5. ASSUME ~disturbed' PROVE Family'
  <2>1. Family
    BY <1>5
  <2>2. \A q \in Slots : parent'[q] = s => parent[q] = s /\ q >= stop
    <3>1. SUFFICES ASSUME NEW q \in Slots, parent'[q] = s PROVE parent[q] = s /\ q >= stop
      OBVIOUS
    <3>2. parent[q] = s
      BY <1>0, <1>1, <3>1
    <3>3. q > idx[s]
      BY <2>1, <3>2 DEF Family, Disposed
    <3>4. CASE isThread[q]
      BY <3>2, <3>3, <3>4 DEF ThreadsLeft, Threads
    <3>5. CASE ~isThread[q]
      <4>1. ~(q < stop)
        BY <1>0, <3>1, <3>2, <3>3, <3>5 DEF ScanTo, Children, IsChild
      <4>2. QED BY <3>2, <4>1 DEF Slots
    <3>6. QED BY <3>4, <3>5
  <2>3. ~more => \A q \in Slots : parent'[q] # s
    BY <2>2, Bounds DEF Slots
  <2>4. \A q \in Slots : parent[q] = s => pc[q] # "none" 
    BY <2>1, Bounds DEF Family, Embryos, Blank, Phases, Filling
  <2>5. Parents'
    <3>1. SUFFICES ASSUME NEW q \in Slots, NEW p \in Slots, parent'[q] = p
                   PROVE  pc'[p] \notin {"none", "dead"} /\ ~isThread[p] /\ pid[p] < pid[q]
      BY DEF Parents
    <3>2. CASE parent[q] = p
      BY <2>1, <2>3, <3>1, <3>2, <1>2 DEF Family, Parents
    <3>3. CASE parent[q] # p
      <4>1. parent[q] = s /\ p = InitProc /\ q # InitProc
        BY <1>0, <1>1, <3>1, <3>3
      <4>2. pid[s] < pid[q] /\ pid[q] # 1 /\ pid[s] \in Nat /\ pid[q] \in Nat
        BY <2>1, <1>0, <4>1 DEF Family, Parents, Pids, TypeOK
      <4>3. QED BY <1>0, <1>2, <4>1, <4>2 DEF Pids
    <3>4. QED BY <3>2, <3>3
  <2>6. Embryos'
    <3>1. \A t \in Slots : pc'[t] \in Filling => t # s /\ pc[t] = pc'[t]
            /\ idx'[t] = idx[t] /\ idx[t] \in Slots
      BY <1>2 DEF Fills, Filling
    <3>2. \A q \in Slots : state'[q] = "EMBRYO" => state[q] = "EMBRYO" /\ parent[q] # s
      BY <1>1, <2>4 DEF Phases
    <3>3. \A q, p \in Slots : state'[q] = "EMBRYO" /\ parent'[q] = p => pc'[p] \in Filling /\ idx'[p] = q
      BY <2>1, <3>2, <1>1, <1>2 DEF Family, Embryos
    <3>4. \A t \in Slots : pc'[t] \in {"clone_flag", "clone_run"} => parent'[idx'[t]] = t
      BY <2>1, <3>1, <1>1 DEF Family, Embryos, Filling
    <3>5. QED BY <2>1, <3>1, <3>3, <3>4 DEF Family, Embryos
  <2>7. ThreadPhases'
    <3>1. more => ~isThread[s]
      BY <2>1 DEF ThreadsLeft, Threads, Family, Parents
    <3>2. QED BY <2>1, <3>1, <1>2 DEF Family, ThreadPhases
  <2>8. Disposed'
    <3>1. \A t, q \in Slots : parent'[q] = t /\ pc[t] \in Scanning \cup {"exit_scan"} => parent[q] = t
      BY <1>1 DEF Boot
    <3>2. more => /\ stop \in Slots /\ isThread[stop] /\ parent[stop] = s /\ parent'[stop] = s
      BY <1>1 DEF ThreadsLeft, Threads
    <3>3. \A t \in Slots \ {s} : pc[t] \in Scanning =>
            isThread[idx[t]] /\ parent'[idx[t]] = t /\ pc'[idx[t]] # "none" /\ idx[t] \in Slots
      BY <2>1, <1>1, <1>2 DEF Family, Disposed, Scans
    <3>4. \A t \in Slots : pc'[t] = "exit_scan" => t # s
      BY <1>2
    <3>5. \A t \in Slots : pc'[t] = "exit_scan" => \A q \in Slots : parent'[q] = t => q > idx'[t]
      BY <2>1, <3>1, <3>4, <1>2 DEF Family, Disposed
    <3>6. \A t \in Slots : pc'[t] \in Scanning => \A q \in Slots : parent'[q] = t => q >= idx'[t]
      <4>1. \A t \in Slots \ {s} : pc'[t] \in Scanning => \A q \in Slots : parent'[q] = t => q >= idx'[t]
        BY <2>1, <3>1, <1>2 DEF Family, Disposed
      <4>2. pc'[s] \in Scanning => \A q \in Slots : parent'[q] = s => q >= idx'[s]
        BY <2>2, <1>2 DEF Scanning
      <4>3. QED BY <4>1, <4>2
    <3>7. \A t \in Slots : pc'[t] \in Scanning =>
            isThread[idx'[t]] /\ parent'[idx'[t]] = t /\ pc'[idx'[t]] # "none"
      <4>1. more => pc'[stop] # "none"
        BY <2>4, <3>2, <1>2
      <4>2. QED BY <3>2, <3>3, <4>1, <1>2 DEF Scanning
    <3>8. \A t \in Slots : pc'[t] \in {"exit_kill", "exit_join"} => jpid[t] = pid[idx'[t]]
      BY <2>1, <1>2 DEF Family, Disposed
    <3>9. QED BY <3>5, <3>6, <3>7, <3>8 DEF Disposed
  <2>9. Sharing'
    <3>1. \A q \in Slots : isThread[q] => parent'[q] = parent[q]
      BY <1>1
    <3>2. \A q, r \in Slots : Kin(q, r) => Kin(q, r)'
      BY <3>1 DEF Kin
    <3>3. \A t \in Slots : pc'[t] = "fork_flag" => pc[t] = "fork_flag" /\ idx'[t] = idx[t]
      BY <1>2
    <3>4. QED BY <2>1, <3>2, <3>3 DEF Family, Sharing
  <2>10. QED BY <2>5, <2>6, <2>7, <2>8, <2>9 DEF Family
<1>6. QED BY <1>3, <1>4, <1>5

\* Every step keeps the families.
LEMMA FamilyInductive == IInv /\ IInv' /\ FInv /\ [Next]_vars => FInv'
<1> SUFFICES ASSUME IInv, IInv', FInv, [Next]_vars PROVE FInv'
  OBVIOUS
<1>1. CASE UNCHANGED vars
  BY <1>1 DEF FInv, vars, Pids, Locals, Blank, Family, Parents, Embryos, ThreadPhases, Disposed,
         Sharing, Kin, InUse
<1>2. ASSUME NEW s \in Slots, Schedule(s) \/ Yield(s) PROVE FInv'
  BY <1>2, Quiet DEF Schedule, Yield, local, IInv, TypeOK
<1>3. ASSUME NEW s \in Slots, Creates(s) PROVE FInv'
  <2>1. CASE ForkAlloc(s)
    BY <2>1, FamilyAllocating DEF ForkAlloc, Calls
  <2>2. CASE CloneAlloc(s)
    BY <2>2, FamilyAllocating DEF CloneAlloc, Calls
  <2>3. QED
    BY <1>3, <2>1, <2>2, FamilyFailing, FamilyForkFilling, FamilyForkFlagging, FamilyCloneFilling,
       FamilyCloneFlagging, FamilyPublishing, FamilyReplacing DEF Creates
<1>4. ASSUME NEW s \in Slots, Waits(s) PROVE FInv'
  <2>1. CASE CallWait(s)
    BY <2>1, Quiet DEF CallWait, Call, Calls, Goto, table, IInv, TypeOK
  <2>2. CASE CallJoin(s)
    <3>1. PICK k \in JoinArgs : Call(s, "join", k)
      BY <2>2 DEF CallJoin
    <3>2. disturbed' \/ ~isThread[s]
      BY <3>1 DEF Call
    <3>3. QED BY <3>1, <3>2, Quiet DEF Call, Calls, Goto, table, IInv, TypeOK
  <2>3. CASE WaitGivesUp(s)
    <3>1. idx' = idx
      BY <2>3 DEF WaitGivesUp, At, Return, FInv, Locals, Filling, Scanning, IInv, TypeOK
    <3>2. QED BY <2>3, <3>1, Quiet DEF WaitGivesUp, At, Return, Goto, table, IInv, TypeOK
  <2>4. CASE WaitSleeps(s) \/ JoinSleeps(s)
    BY <2>4, Quiet DEF WaitSleeps, JoinSleeps, Joining, At, SleepOnSelf, local, IInv, TypeOK
  <2>5. CASE JoinGivesUp(s) /\ pc[s] = "join"
    BY <2>5, Quiet DEF JoinGivesUp, AfterJoin, Goto, table, IInv, TypeOK
  <2>6. CASE JoinGivesUp(s) /\ pc[s] = "exit_join"
    BY <2>6, FamilyGivingUp
  <2>7. CASE WaitReaps(s)
    <3>1. PICK z \in Slots :
            /\ state[z] = "ZOMBIE" /\ parent[z] = s /\ ~isThread[z] /\ Reap(z)
            /\ space' = [FreeSpace(space[z]) EXCEPT ![z] = 0]
            /\ pc' = [pc EXCEPT ![s] = "user", ![z] = "none"]
      BY <2>7 DEF WaitReaps, IsFirst, Zombies, Children, IsChild
    <3>2. /\ space' \in [Slots -> {Freed, 0} \cup Spaces] /\ space'[z] = 0
          /\ \A q \in Slots \ {z} : space'[q] = space[q]
               \/ (space[q] \in Spaces /\ space[q] = space[z] /\ ~isThread[z] /\ space'[q] = Freed)
      BY <3>1 DEF FreeSpace, IInv, TypeOK
    <3>3. pc[s] = "wait" /\ state[s] = "RUNNING"
      BY <2>7 DEF WaitReaps, At
    <3>4. UNCHANGED <<isThread, chan, idx, jpid, nextpid, disturbed>>
      BY <2>7 DEF WaitReaps
    <3>5. \A q \in Slots : pc'[q] = IF q = z THEN "none" ELSE IF q = s THEN "user" ELSE pc[q]
      BY <3>1 DEF IInv, TypeOK
    <3>6. \A q \in Slots \ {s} : jpid'[q] = jpid[q]
      BY <3>4
    <3>7. QED BY <3>1, <3>2, <3>3, <3>4, <3>5, <3>6, FamilyReaping
  <2>8. CASE JoinReaps(s)
    <3>1. PICK z \in Slots :
            /\ state[z] = "ZOMBIE" /\ z \in JoinSet(s) /\ Reap(z)
            /\ space' = [space EXCEPT ![z] = 0]
            /\ pc' = [pc EXCEPT ![s] = AfterJoin(s), ![z] = "none"]
      BY <2>8 DEF JoinReaps, IsFirst, Zombies
    <3>2. /\ parent[z] = s \/ isThread[s]
          /\ jpid[s] \in {-1, pid[z]}
      BY <3>1 DEF JoinSet, Joinable
    <3>3. /\ space' \in [Slots -> {Freed, 0} \cup Spaces] /\ space'[z] = 0
          /\ \A q \in Slots \ {z} : space'[q] = space[q]
      BY <3>1 DEF IInv, TypeOK
    <3>4. /\ pc[s] \in {"join", "exit_join"} /\ state[s] = "RUNNING"
          /\ jpid' = [jpid EXCEPT ![s] = 0]
          /\ UNCHANGED <<isThread, chan, idx, nextpid, disturbed>>
      BY <2>8 DEF JoinReaps, Joining, At
    <3>5. /\ AfterJoin(s) \in {"user", "exit_scan"}
          /\ AfterJoin(s) = "exit_scan" <=> pc[s] = "exit_join"
      BY <3>4 DEF AfterJoin
    <3>6. \A q \in Slots : pc'[q] = IF q = z THEN "none" ELSE IF q = s THEN AfterJoin(s) ELSE pc[q]
      BY <3>1 DEF IInv, TypeOK
    <3>7. \A q \in Slots \ {s} : jpid'[q] = jpid[q]
      BY <3>4 DEF IInv, TypeOK
    <3>8. QED BY <3>1, <3>2, <3>3, <3>4, <3>5, <3>6, <3>7, FamilyReaping
  <2>9. JoinGivesUp(s) => pc[s] \in {"join", "exit_join"}
    BY DEF JoinGivesUp, Joining, At
  <2>10. QED BY <1>4, <2>1, <2>2, <2>3, <2>4, <2>5, <2>6, <2>7, <2>8, <2>9 DEF Waits
<1>5. ASSUME NEW s \in Slots, Signals(s) PROVE FInv'
  <2>1. CASE Kill(s)
    <3>1. PICK k \in KillArgs : KillEffect(k)
      BY <2>1 DEF Kill
    <3>2. /\ state' \in [Slots -> States]
          /\ \A q \in Slots : state'[q] = state[q]
                \/ (state[q] = "SLEEPING" /\ state'[q] = "RUNNABLE")
      BY <3>1, KillEffects DEF IInv
    <3>3. QED BY <2>1, <3>2, Quiet DEF Kill, local
  <2>2. CASE Wake(s)
    <3>1. PICK k \in KillArgs :
            state' = [q \in Slots |-> IF state[q] = "SLEEPING" /\ pid[q] = k
                                         THEN "RUNNABLE" ELSE state[q]]
      BY <2>2 DEF Wake
    <3>2. QED BY <2>2, <3>1, Quiet DEF Wake, local
  <2>3. CASE CallTicketSleep(s)
    BY <2>3, Quiet DEF CallTicketSleep, Call, Calls, Goto, table, IInv, TypeOK
  <2>4. CASE TicketSleep(s)
    BY <2>4, Quiet DEF TicketSleep, At, Goto, IInv, TypeOK
  <2>5. QED BY <1>5, <2>1, <2>2, <2>3, <2>4 DEF Signals
<1>6. ASSUME NEW s \in Slots, Exits(s) PROVE FInv'
  <2>1. CASE StartExit(s)
    BY <2>1, Quiet DEF StartExit, At, Goto, table, IInv, TypeOK
  <2>2. CASE ExitMeetsThread(s)
    <3>1. PICK t \in Slots : /\ t \in ThreadsLeft(s) /\ \A q \in ThreadsLeft(s) : t <= q
                             /\ ScanTo(s, t, TRUE) /\ idx' = [idx EXCEPT ![s] = t]
      BY <2>2 DEF ExitMeetsThread, IsFirst
    <3>2. t \in Int /\ t \in 0..NPROC /\ \A q \in ThreadsLeft(s) : q >= t
      BY <3>1, Bounds DEF Slots, ThreadsLeft, Threads
    <3>3. QED BY <2>2, <3>1, <3>2, FamilyScanning DEF ExitMeetsThread, At, Goto
  <2>3. CASE ExitEnds(s)
    <3>1. NPROC + 1 \in Int /\ 0 \in 0..NPROC
      BY Bounds
    <3>2. QED BY <2>3, <3>1, FamilyScanning DEF ExitEnds, At, Goto
  <2>4. QED BY <1>6, <2>1, <2>2, <2>3, FamilyReadingPid, FamilyKilling DEF Exits
<1>7. QED BY <1>1, <1>2, <1>3, <1>4, <1>5, <1>6 DEF Next

LEMMA FamilyInvariance == Spec => [](IInv /\ FInv)
<1>1. IInv /\ FInv /\ [Next]_vars => (IInv /\ FInv)'
  BY Inductive, FamilyInductive
<1>2. QED BY Initially, FamilyInitially, <1>1, PTL DEF Spec

\* Unless somebody disturbs, a parent pointer (proc.c:166, 212, 514) names a live
\* process that was created earlier: exit hands over its children and collects
\* its threads before its own slot can be reaped and given to somebody else.
THEOREM ParentsAreOlder == Spec => []ParentIsOlder
<1>1. FInv /\ IInv => ParentIsOlder
  <2> SUFFICES ASSUME FInv, IInv, ~disturbed, NEW q \in Slots, parent[q] # 0
               PROVE  InUse(parent[q]) /\ pid[parent[q]] < pid[q]
    BY DEF ParentIsOlder
  <2>1. parent[q] \in Slots
    BY DEF IInv, TypeOK, Slots
  <2>2. QED BY <2>1 DEF FInv, Family, Parents, IInv, Phases, InUse
<1>2. QED BY <1>1, FamilyInvariance, PTL

\* Unless somebody disturbs, nobody in the table holds a page table that wait or
\* exec has freed: exit joins every thread before the owner is a zombie.
THEOREM SpacesAreAlive == Spec => []SpaceAlive
<1>1. FInv => SpaceAlive
  BY DEF FInv, Family, Sharing, SpaceAlive
<1>2. QED BY <1>1, FamilyInvariance, PTL

\* Unless somebody disturbs, the kill that exit sends with the lock dropped hits
\* the thread it has met in its scan: the slot is not reaped in between, and no
\* other slot has that pid.
THEOREM OnlyOwnThreadsKilled == Spec => ExitKillsOwnThreads
<1>1. IInv /\ FInv /\ [Next]_vars =>
        [~disturbed => \A s, q \in Slots : ExitKills(s) /\ ~killed[q] /\ killed'[q]
           => isThread[q] /\ parent[q] = s]_vars
  <2> SUFFICES ASSUME IInv, FInv, ~disturbed, NEW s \in Slots, NEW q \in Slots,
                      ExitKills(s), ~killed[q], killed'[q]
               PROVE  isThread[q] /\ parent[q] = s
    OBVIOUS
  <2>1. pid[q] = jpid[s] /\ pc[s] = "exit_kill"
    BY KillMarks DEF ExitKills, At, IInv
  <2>2. /\ idx[s] \in Slots /\ jpid[s] = pid[idx[s]] /\ pc[idx[s]] # "none"
        /\ isThread[idx[s]] /\ parent[idx[s]] = s
    BY <2>1 DEF FInv, Family, Disposed, IInv, Scans, Scanning
  <2>3. pid[idx[s]] # 0
    BY <2>2 DEF FInv, Pids, InUse, IInv, Phases
  <2>4. q = idx[s]
    BY <2>1, <2>2, <2>3 DEF FInv, Pids
  <2>5. QED BY <2>2, <2>4
<1>2. QED BY <1>1, FamilyInvariance, PTL DEF Spec, ExitKillsOwnThreads

=============================================================================
