----------------------------- MODULE SharedSpace -----------------------------
(***************************************************************************)
(* The address space of a process and its threads (p4/xv6): every struct   *)
(* proc has its own copy of sz, clone and fork read it without a lock, and *)
(* growproc, under ptable.lock, changes the page table and the copies it   *)
(* finds.  What happens under the lock is one step, and so is what runs    *)
(* between two moments at which another processor or the timer could get   *)
(* in.  How processes end is in ProcTable.                                 *)
(*                                                                         *)
(* Slot 1 is a process whose parent is not in the picture.  A page table   *)
(* is named by the slot of the process it was made for.  Sizes are in      *)
(* half pages, so that requests need not fill whole pages.                 *)
(***************************************************************************)
EXTENDS Integers, FiniteSets

CONSTANTS
  NPROC,      \* slots
  Start,      \* half pages of slot 1 at the start
  Team,       \* slots that are threads of slot 1 at the start
  Top,        \* USERTOP in half pages
  Memory,     \* pages kalloc has, at most
  Amounts,    \* arguments of sbrk
  Ops         \* the calls processes issue: "sbrk", "clone", "fork"

Slots == 1..NPROC

PageUp(u) == (u + 1) \div 2    \* PGROUNDUP, in pages

\* The pages that begin between two sizes.
Pages(from, to) == PageUp(from)..(PageUp(to) - 1)

ASSUME SpaceAssumption ==
  /\ NPROC \in Nat \ {0} /\ Team \subseteq Slots \ {1}
  /\ Start \in Nat \ {0} /\ Top \in Nat /\ Start <= Top
  /\ Memory \in Nat /\ PageUp(Start) <= Memory
  /\ Amounts \subseteq Int
  /\ Ops \subseteq {"sbrk", "clone", "fork"}

VARIABLES
  alive,      \* the slots in use, the half-made ones included
  parent, isThread, sz, space,   \* struct proc; space names pgdir
  mapped,     \* mapped[v] : the pages that page table v maps
  free,       \* pages kalloc still has
  pc,         \* where the kernel code of a slot is
  new,        \* the slot it fills
  arg, addr,  \* of sys_sbrk
  locked,     \* ptable.lock has been left locked
  panicked,   \* mappages found a page that was there, copyuvm missed one
  disturbed   \* history: has anybody done what breaks the sizes (Disturbs)?

vars == <<alive, parent, isThread, sz, space, mapped, free, pc, new, arg, addr,
          locked, panicked, disturbed>>

procs == <<alive, parent, isThread, space>>
memory == <<mapped, free>>

-----------------------------------------------------------------------------

Kind(s) == IF isThread[s] THEN "thread" ELSE IF s = 1 THEN "main" ELSE "child"

\* s is in the middle of clone or fork.
Making(s) == pc[s] \in {"clone_size", "clone_flag", "fork_bound", "fork_copy", "fork_size"}

\* What the code does not provide for: s runs while another one is in the
\* middle of clone or fork, or s is a child of fork that grows (growproc then
\* also updates threads of its parent).
Disturbs(s) == \/ \E q \in alive \ {s} : Making(q)
               \/ pc[s] = "grow" /\ Kind(s) = "child"

\* s is on a processor.
Runs(s) == /\ ~panicked /\ s \in alive
           /\ disturbed' = (disturbed \/ Disturbs(s))

\* s traps into the kernel.
Calls(s, op) == Runs(s) /\ op \in Ops /\ pc[s] = "user"

\* The locals of a call that is over are dead.
Done(s) == /\ new' = [new EXCEPT ![s] = 0] /\ arg' = [arg EXCEPT ![s] = 0]
           /\ addr' = [addr EXCEPT ![s] = 0]

Goes(s, from, to) == Runs(s) /\ pc[s] = from /\ pc' = [pc EXCEPT ![s] = to]

Init ==
  /\ alive = {1} \cup Team
  /\ parent = [q \in Slots |-> IF q \in Team THEN 1 ELSE 0]
  /\ isThread = [q \in Slots |-> q \in Team]
  /\ sz = [q \in Slots |-> IF q \in Team \cup {1} THEN Start ELSE 0]
  /\ space = [q \in Slots |-> IF q \in Team \cup {1} THEN 1 ELSE q]
  /\ mapped = [q \in Slots |-> IF q = 1 THEN Pages(0, Start) ELSE {}]
  /\ free = Memory - PageUp(Start)
  /\ pc = [q \in Slots |-> IF q \in Team \cup {1} THEN "user" ELSE "born"]
  /\ new = [q \in Slots |-> 0] /\ arg = [q \in Slots |-> 0] /\ addr = [q \in Slots |-> 0]
  /\ locked = FALSE /\ panicked = FALSE /\ disturbed = FALSE

-----------------------------------------------------------------------------
(* sbrk. *)

\* sys_sbrk: the address it will return is read without the lock.
Sbrk(s) ==
  /\ Calls(s, "sbrk")
  /\ \E n \in Amounts : arg' = [arg EXCEPT ![s] = n]
  /\ addr' = [addr EXCEPT ![s] = sz[s]]
  /\ pc' = [pc EXCEPT ![s] = "grow"]
  /\ UNCHANGED <<procs, sz, memory, new, locked, panicked>>

Want(s) == sz[s] + arg[s]

\* The pages allocuvm maps, one after the other, each with a page of kalloc.
NewPages(s) == Pages(sz[s], Want(s))

\* mappages panics on a page that is mapped already, if memory lasts that far.
Remaps(s) == /\ arg[s] > 0 /\ Want(s) <= Top
             /\ \E a \in NewPages(s) \cap mapped[space[s]] : a - PageUp(sz[s]) < free

\* allocuvm: beyond USERTOP.
TooBig(s) == arg[s] > 0 /\ Want(s) > Top

\* allocuvm: out of memory.
OutOfMemory(s) == /\ arg[s] > 0 /\ Want(s) <= Top /\ ~Remaps(s)
                  /\ free < PageUp(Want(s)) - PageUp(sz[s])

\* deallocuvm down to nothing returns 0, which growproc takes for an error.
ToNothing(s) == arg[s] < 0 /\ Want(s) = 0

\* Below nothing the sum wraps, and deallocuvm returns the old size.
NewSize(s) == IF arg[s] < 0 /\ Want(s) < 0 THEN sz[s] ELSE Want(s)

\* The page table after allocuvm or deallocuvm.
Remapped(s) == IF NewSize(s) >= sz[s] THEN mapped[space[s]] \cup Pages(sz[s], NewSize(s))
               ELSE mapped[space[s]] \ Pages(NewSize(s), sz[s])

\* Variant: growproc updates only the threads of s.
UpdatedDown(s, q) == parent[q] = s /\ isThread[q]

\* The scan of growproc: threads of s, the parent of thread s, and threads
\* with the parent of s, even if s itself is no thread.
Updated(s, q) == \/ parent[q] = s /\ isThread[q]
                 \/ q = parent[s] /\ isThread[s]
                 \/ isThread[q] /\ parent[q] = parent[s]

\* Variant: pages that are given up do not go back to kalloc.
RepageLoses(v, pages) == /\ mapped' = [mapped EXCEPT ![v] = pages]
                         /\ free' = IF pages \subseteq mapped[v] THEN free
                                    ELSE free + Cardinality(mapped[v]) - Cardinality(pages)

\* Pages move between kalloc and page table v.
Repage(v, pages) == /\ mapped' = [mapped EXCEPT ![v] = pages]
                    /\ free' = free + Cardinality(mapped[v]) - Cardinality(pages)

Grow(s) ==
  /\ Goes(s, "grow", "user") /\ ~locked
  /\ ~Remaps(s) /\ ~TooBig(s) /\ ~OutOfMemory(s) /\ ~ToNothing(s)
  /\ sz' = [q \in Slots |-> IF q = s \/ Updated(s, q) THEN NewSize(s) ELSE sz[q]]
  /\ Repage(space[s], Remapped(s))
  /\ Done(s)
  /\ UNCHANGED <<procs, locked, panicked>>

\* The error returns of growproc do not release ptable.lock.
GrowFails(s) ==
  /\ Goes(s, "grow", "user") /\ ~locked
  /\ locked' = TRUE
  /\ \/ TooBig(s) /\ UNCHANGED memory
     \/ OutOfMemory(s) /\ Repage(space[s], mapped[space[s]] \ NewPages(s))
     \/ ToNothing(s) /\ Repage(space[s], mapped[space[s]] \ Pages(0, sz[s]))
  /\ Done(s)
  /\ UNCHANGED <<procs, sz, panicked>>

GrowPanics(s) ==
  /\ Goes(s, "grow", "dead") /\ ~locked
  /\ Remaps(s)
  /\ panicked' = TRUE
  /\ UNCHANGED <<procs, sz, memory, new, arg, addr, locked>>

-----------------------------------------------------------------------------
(* clone and fork. *)

\* allocproc, under the lock.
Alloc(s) ==
  /\ ~locked
  /\ \E j \in Slots \ alive : /\ \A k \in Slots \ alive : j <= k
                              /\ alive' = alive \cup {j}
                              /\ new' = [new EXCEPT ![s] = j]
  /\ UNCHANGED <<parent, isThread, space, sz, memory, arg, addr, locked, panicked>>

\* proc_clone wants a page of stack below sz.
Clone(s) == /\ Calls(s, "clone") /\ sz[s] >= 2
            /\ pc' = [pc EXCEPT ![s] = "clone_size"]
            /\ Alloc(s)

\* np->parent and np->sz.
CloneSize(s) ==
  /\ Goes(s, "clone_size", "clone_flag")
  /\ parent' = [parent EXCEPT ![new[s]] = IF isThread[s] THEN parent[s] ELSE s]
  /\ sz' = [sz EXCEPT ![new[s]] = sz[s]]
  /\ UNCHANGED <<alive, isThread, space, memory, new, arg, addr, locked, panicked>>

\* np->pgdir, np->isThread, and np->state = RUNNABLE at the end.
CloneFlag(s) ==
  /\ Runs(s) /\ pc[s] = "clone_flag"
  /\ pc' = [pc EXCEPT ![s] = "user", ![new[s]] = "user"]
  /\ space' = [space EXCEPT ![new[s]] = space[s]]
  /\ isThread' = [isThread EXCEPT ![new[s]] = TRUE]
  /\ Done(s)
  /\ UNCHANGED <<alive, parent, sz, memory, locked, panicked>>

Fork(s) == /\ Calls(s, "fork") /\ ~isThread[s]
           /\ pc' = [pc EXCEPT ![s] = "fork_bound"]
           /\ Alloc(s)

\* The call of copyuvm: sz is its argument.
ForkBound(s) ==
  /\ Goes(s, "fork_bound", "fork_copy")
  /\ arg' = [arg EXCEPT ![s] = sz[s]]
  /\ UNCHANGED <<procs, sz, memory, new, addr, locked, panicked>>

\* copyuvm: a page for every page below that; it panics if one is missing.
CopyMisses(s) == \E a \in Pages(0, arg[s]) \ mapped[space[s]] : a <= free

\* Variant: copyuvm leaves the last page out.
ForkCopyShort(s) ==
  /\ Goes(s, "fork_copy", "fork_size")
  /\ ~CopyMisses(s) /\ free >= PageUp(arg[s])
  /\ Repage(new[s], Pages(0, arg[s] - 2))
  /\ UNCHANGED <<procs, sz, new, arg, addr, locked, panicked>>

ForkCopy(s) ==
  /\ Goes(s, "fork_copy", "fork_size")
  /\ ~CopyMisses(s) /\ free >= PageUp(arg[s])
  /\ Repage(new[s], Pages(0, arg[s]))
  /\ UNCHANGED <<procs, sz, new, arg, addr, locked, panicked>>

\* copyuvm runs out of memory: the slot is given back.
ForkFails(s) ==
  /\ Goes(s, "fork_copy", "user")
  /\ ~CopyMisses(s) /\ free < PageUp(arg[s])
  /\ alive' = alive \ {new[s]}
  /\ Done(s)
  /\ UNCHANGED <<parent, isThread, space, sz, memory, locked, panicked>>

ForkPanics(s) ==
  /\ Goes(s, "fork_copy", "dead")
  /\ CopyMisses(s)
  /\ panicked' = TRUE
  /\ UNCHANGED <<procs, sz, memory, new, arg, addr, locked>>

\* sz is read once more, now for the child.
ForkSize(s) ==
  /\ Runs(s) /\ pc[s] = "fork_size"
  /\ pc' = [pc EXCEPT ![s] = "user", ![new[s]] = "user"]
  /\ sz' = [sz EXCEPT ![new[s]] = sz[s]]
  /\ parent' = [parent EXCEPT ![new[s]] = s]
  /\ isThread' = [isThread EXCEPT ![new[s]] = FALSE]
  /\ Done(s)
  /\ UNCHANGED <<alive, space, memory, locked, panicked>>

Next == \E s \in Slots :
  \/ Sbrk(s) \/ Grow(s) \/ GrowFails(s) \/ GrowPanics(s)
  \/ Clone(s) \/ CloneSize(s) \/ CloneFlag(s)
  \/ Fork(s) \/ ForkBound(s) \/ ForkCopy(s) \/ ForkFails(s) \/ ForkPanics(s) \/ ForkSize(s)

Spec == Init /\ [][Next]_vars

-----------------------------------------------------------------------------
(* Properties. *)

Places == {"born", "user", "grow", "dead", "clone_size", "clone_flag",
           "fork_bound", "fork_copy", "fork_size"}

\* Processes, page tables and the calls under way have their shape.
TypeOK ==
  /\ alive \in SUBSET Slots
  /\ parent \in [Slots -> 0..NPROC] /\ isThread \in [Slots -> BOOLEAN]
  /\ sz \in [Slots -> Nat] /\ space \in [Slots -> Slots]
  /\ mapped \in [Slots -> SUBSET Nat]
  /\ pc \in [Slots -> Places] /\ new \in [Slots -> 0..NPROC]
  /\ arg \in [Slots -> Int] /\ addr \in [Slots -> Nat]
  /\ locked \in BOOLEAN /\ panicked \in BOOLEAN /\ disturbed \in BOOLEAN

Ready(q) == q \in alive /\ pc[q] # "born"

\* Until somebody disturbs them, and until growproc has failed (ptable.lock is
\* held for good then), the copies of sz and the page table go together.
Settled == ~disturbed /\ ~locked

\* A process and its threads agree on how large their address space is, after
\* every growproc of any of them and with every clone.
SizesAgree == Settled =>
  \A p, q \in Slots : Ready(p) /\ Ready(q) /\ space[p] = space[q] => sz[p] = sz[q]

\* Exactly the pages below sz are mapped: argptr lets no address through that
\* is not there, allocuvm finds none that is there, copyuvm misses none.
MappedIsSize == Settled =>
  \A q \in Slots : Ready(q) => mapped[space[q]] = Pages(0, sz[q])

\* The entries of all page tables.
Entries == {x \in Slots \X Pages(0, Top) : x[2] \in mapped[x[1]]}

\* Pages are free or in one page table; whatever growproc and fork do in
\* whichever order, and however they fail, none gets lost, and kalloc never
\* gives more than it has.
PagesConserved == free \in Nat /\ free + Cardinality(Entries) = Memory

\* The kernel does not panic over a page table until somebody disturbs it.
NoPanic == ~disturbed => ~panicked

-----------------------------------------------------------------------------
(* Two properties the code does not have; no run claims them, the README says *)
(* with which constants TLC shows why.                                        *)

\* growproc gives the lock back, also when it fails.  Its error returns do not.
LockGivenBack == ~locked

\* The address sbrk returns is where the memory it got begins.  sys_sbrk reads
\* it before growproc takes the lock.
SbrkReturnsItsOwn ==
  [][\A s \in Slots : pc[s] = "grow" /\ pc'[s] = "user" /\ ~locked' => addr[s] = sz[s]]_vars

=============================================================================
