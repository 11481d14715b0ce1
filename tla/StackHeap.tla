----------------------------- MODULE StackHeap -----------------------------
(***************************************************************************)
(* The address space with a stack of its own (p3/xv6): program and heap    *)
(* grow up from the first page to sz, the stack grows down from USERTOP to *)
(* stackSz, a page for every page fault just below it, and a page between  *)
(* the two is to stay unmapped.  sbrk, the page fault, exec, fork, exit    *)
(* and wait, as far as they touch pages, and the tests of the arguments of *)
(* system calls.                                                           *)
(*                                                                         *)
(* kalloc takes one page at a time and processes share what is left, so    *)
(* the loops of allocuvm and copyuvm are a step for every page; the rest   *)
(* of a call is a step.  Addresses and sizes are in half pages: an even    *)
(* address is the first byte of a page, an odd one a byte inside it.       *)
(***************************************************************************)
EXTENDS Integers, FiniteSets

CONSTANTS
  Procs,      \* slots of the process table
  Boot,       \* the process to start with, a shell just executed
  Top,        \* USERTOP, in pages
  Memory,     \* pages for user memory
  Images,     \* ends of the programs exec can load, in half pages
  Amounts,    \* arguments of sbrk
  UInt        \* number of values of a uint, in half pages (2^21)

ASSUME StackHeapAssumption ==
  /\ IsFiniteSet(Procs) /\ Boot \in Procs
  /\ Top \in Nat /\ Top > 3 /\ Memory \in Nat
  /\ Images \subseteq Nat
  /\ Amounts \subseteq Int
  /\ UInt \in Nat /\ UInt >= 4 * Top

UserTop == 2 * Top
PageOf(a) == a \div 2            \* PGROUNDDOWN, in pages
PageUp(a) == (a + 1) \div 2      \* PGROUNDUP, in pages
UserPages == 0..(Top - 1)

\* The pages that begin between two sizes: what allocuvm maps and deallocuvm frees.
Pages(from, to) == PageUp(from)..(PageUp(to) - 1)

VARIABLES
  state,      \* "unused", "embryo", "user" or "zombie"
  sz, stackSz,
  mapped,     \* the pages of pgdir that are present
  free,       \* pages kalloc still has
  call,       \* what the kernel does for a process: "none", "sbrk", "fork", "exec"
  arg,        \* the size it is to have after sbrk or exec
  todo,       \* pages its loop has still to map
  fresh,      \* the pages of the page table that fork or exec builds
  child,      \* the slot fork fills
  panicked

vars == <<state, sz, stackSz, mapped, free, call, arg, todo, fresh, child, panicked>>
space == <<sz, stackSz, mapped>>
loop  == <<call, arg, todo, fresh, child>>

-----------------------------------------------------------------------------
\* Program and heap begin at page 1: page 0 catches null pointers.
HeapPages(size)  == Pages(2, size)
StackPages(base) == PageOf(base)..(Top - 1)

\* p executes user code, which needs the first page of its program.
Runs(p) == ~panicked /\ state[p] = "user" /\ call[p] = "none" /\ 1 \in mapped[p]

InKernel(p, c) == ~panicked /\ call[p] = c

\* Back to user mode.
Done(p) == /\ call'  = [call EXCEPT ![p] = "none"]
           /\ arg'   = [arg EXCEPT ![p] = 0]
           /\ todo'  = [todo EXCEPT ![p] = {}]
           /\ fresh' = [fresh EXCEPT ![p] = {}]
           /\ child' = [child EXCEPT ![p] = p]

\* The next page of a loop that goes up.
IsNext(p, g) == g \in todo[p] /\ \A h \in todo[p] : g <= h

\* The shell, just executed.
Init ==
  \E e \in {i \in Images : 3 <= i /\ i <= UserTop - 4 /\ PageUp(i) <= Memory} :
    /\ state   = [p \in Procs |-> IF p = Boot THEN "user" ELSE "unused"]
    /\ sz      = [p \in Procs |-> IF p = Boot THEN e ELSE 0]
    /\ stackSz = [p \in Procs |-> IF p = Boot THEN UserTop - 2 ELSE 0]
    /\ mapped  = [p \in Procs |-> IF p = Boot THEN HeapPages(e) \cup {Top - 1} ELSE {}]
    /\ free    = Memory - PageUp(e)
    /\ call    = [p \in Procs |-> "none"]
    /\ arg     = [p \in Procs |-> 0]
    /\ todo    = [p \in Procs |-> {}]
    /\ fresh   = [p \in Procs |-> {}]
    /\ child   = [p \in Procs |-> p]
    /\ panicked = FALSE

-----------------------------------------------------------------------------
(* sbrk. *)

\* Variant of growproc: the page below the stack is not left out.
NoRoomAtAll(p, n) == sz[p] + n > stackSz[p]

\* growproc leaves the page below the stack alone.
NoRoom(p, n) == sz[p] + n > stackSz[p] - 2

SbrkUp(p) ==
  /\ Runs(p)
  /\ \E n \in Amounts :
       /\ n > 0 /\ ~NoRoom(p, n) /\ sz[p] + n <= UserTop
       /\ call' = [call EXCEPT ![p] = "sbrk"]
       /\ arg'  = [arg EXCEPT ![p] = sz[p] + n]
       /\ todo' = [todo EXCEPT ![p] = Pages(sz[p], sz[p] + n)]
  /\ UNCHANGED <<state, space, free, fresh, child, panicked>>

\* kalloc and mappages, which panics on a page that is present.
SbrkPage(p) ==
  /\ InKernel(p, "sbrk") /\ free > 0
  /\ \E g \in todo[p] :
       /\ IsNext(p, g)
       /\ panicked' = (g \in mapped[p])
       /\ mapped' = [mapped EXCEPT ![p] = @ \cup {g}]
       /\ todo' = [todo EXCEPT ![p] = @ \ {g}]
  /\ free' = free - 1
  /\ UNCHANGED <<state, sz, stackSz, call, arg, fresh, child>>

\* What deallocuvm takes away again.
GivenBack(p) == mapped[p] \cap Pages(sz[p], arg[p])

SbrkNoMemory(p) ==
  /\ InKernel(p, "sbrk") /\ todo[p] # {} /\ free = 0
  /\ free' = Cardinality(GivenBack(p))
  /\ mapped' = [mapped EXCEPT ![p] = @ \ GivenBack(p)]
  /\ Done(p)
  /\ UNCHANGED <<state, sz, stackSz, panicked>>

SbrkDone(p) ==
  /\ InKernel(p, "sbrk") /\ todo[p] = {}
  /\ sz' = [sz EXCEPT ![p] = arg[p]]
  /\ Done(p)
  /\ UNCHANGED <<state, stackSz, mapped, free, panicked>>

\* sbrk of a negative number.  Down to exactly nothing deallocuvm returns 0,
\* which growproc takes for an error after the pages are gone; further down
\* the sum wraps, deallocuvm returns the old size and nothing changes.
SbrkDown(p) ==
  /\ Runs(p)
  /\ \E n \in Amounts :
       /\ n < 0 /\ sz[p] + n >= 0
       /\ LET gone == mapped[p] \cap Pages(sz[p] + n, sz[p])
          IN /\ mapped' = [mapped EXCEPT ![p] = @ \ gone]
             /\ free' = free + Cardinality(gone)
       /\ sz' = [sz EXCEPT ![p] = IF sz[p] + n = 0 THEN @ ELSE @ + n]
  /\ UNCHANGED <<state, stackSz, loop, panicked>>

-----------------------------------------------------------------------------
(* The page fault of an access inside the page below the stack, while there *)
(* is room for it and for the page between.  Any other fault ends in exit.  *)

StackRoom(p) == sz[p] + 2 < stackSz[p] - 2

Faults(p, a) ==
  /\ Runs(p)
  /\ PageOf(a) \notin mapped[p]
  /\ stackSz[p] - 2 < a /\ a < stackSz[p] /\ StackRoom(p)

StackGrows(p) ==
  /\ \E a \in 0..(UserTop - 1) : Faults(p, a)
  /\ free > 0 /\ free' = free - 1
  /\ mapped' = [mapped EXCEPT ![p] = @ \cup Pages(stackSz[p] - 2, stackSz[p])]
  /\ stackSz' = [stackSz EXCEPT ![p] = @ - 2]
  /\ UNCHANGED <<state, sz, loop, panicked>>

\* Variant of trap: the process is not killed.
StackNoMemoryLives(p) ==
  /\ \E a \in 0..(UserTop - 1) : Faults(p, a)
  /\ free = 0
  /\ stackSz' = [stackSz EXCEPT ![p] = @ - 2]
  /\ UNCHANGED <<state, sz, mapped, free, loop, panicked>>

\* allocuvm fails: the base is lowered all the same, but p is killed on the
\* way out of the trap.
StackNoMemory(p) ==
  /\ \E a \in 0..(UserTop - 1) : Faults(p, a)
  /\ free = 0
  /\ stackSz' = [stackSz EXCEPT ![p] = @ - 2]
  /\ state' = [state EXCEPT ![p] = "zombie"]
  /\ UNCHANGED <<sz, mapped, free, loop, panicked>>

-----------------------------------------------------------------------------
\* Variant of freevm: only what lies below sz.
FreedBelowSz(p) == mapped[p] \cap Pages(0, sz[p])

\* What freevm gives back of the page table of p.
Freed(p) == mapped[p] \cap Pages(0, UserTop)

(* fork and exec build a page table of their own. *)

Fork(p) ==
  /\ Runs(p)
  /\ \E c \in Procs :
       /\ state[c] = "unused"
       /\ state' = [state EXCEPT ![c] = "embryo"]
       /\ child' = [child EXCEPT ![p] = c]
  /\ call' = [call EXCEPT ![p] = "fork"]
  /\ todo' = [todo EXCEPT ![p] = HeapPages(sz[p]) \cup StackPages(stackSz[p])]
  /\ UNCHANGED <<space, free, arg, fresh, panicked>>

\* copyuvm panics on a page of the parent that is not present.
ForkPage(p) ==
  /\ InKernel(p, "fork")
  /\ \E g \in todo[p] :
       /\ IsNext(p, g)
       /\ panicked' = (g \notin mapped[p])
       /\ g \in mapped[p] => free > 0
       /\ todo'  = [todo EXCEPT ![p] = @ \ {g}]
       /\ fresh' = [fresh EXCEPT ![p] = IF g \in mapped[p] THEN @ \cup {g} ELSE @]
       /\ free'  = IF g \in mapped[p] THEN free - 1 ELSE free
  /\ UNCHANGED <<state, space, call, arg, child>>

ForkNoMemory(p) ==
  /\ InKernel(p, "fork") /\ free = 0
  /\ \E g \in todo[p] : IsNext(p, g) /\ g \in mapped[p]
  /\ free' = Cardinality(fresh[p])
  /\ state' = [state EXCEPT ![child[p]] = "unused"]
  /\ Done(p)
  /\ UNCHANGED <<space, panicked>>

\* Variant of fork: the child starts with a stack of one page.
ForkDoneOnePage(p) ==
  /\ InKernel(p, "fork") /\ todo[p] = {}
  /\ state'   = [state EXCEPT ![child[p]] = "user"]
  /\ mapped'  = [mapped EXCEPT ![child[p]] = fresh[p]]
  /\ sz'      = [sz EXCEPT ![child[p]] = sz[p]]
  /\ stackSz' = [stackSz EXCEPT ![child[p]] = UserTop - 2]
  /\ Done(p)
  /\ UNCHANGED <<free, panicked>>

ForkDone(p) ==
  /\ InKernel(p, "fork") /\ todo[p] = {}
  /\ state'   = [state EXCEPT ![child[p]] = "user"]
  /\ mapped'  = [mapped EXCEPT ![child[p]] = fresh[p]]
  /\ sz'      = [sz EXCEPT ![child[p]] = sz[p]]
  /\ stackSz' = [stackSz EXCEPT ![child[p]] = stackSz[p]]
  /\ Done(p)
  /\ UNCHANGED <<free, panicked>>

\* exec of a program that ends at e.
Exec(p) ==
  /\ Runs(p)
  /\ \E e \in Images :
       /\ e <= UserTop
       /\ arg'  = [arg EXCEPT ![p] = IF e < 2 THEN 2 ELSE e]
       /\ todo' = [todo EXCEPT ![p] = Pages(2, e)]
  /\ call' = [call EXCEPT ![p] = "exec"]
  /\ UNCHANGED <<state, space, free, fresh, child, panicked>>

ExecPage(p) ==
  /\ InKernel(p, "exec") /\ free > 0
  /\ \E g \in todo[p] :
       /\ IsNext(p, g)
       /\ todo'  = [todo EXCEPT ![p] = @ \ {g}]
       /\ fresh' = [fresh EXCEPT ![p] = @ \cup {g}]
  /\ free' = free - 1
  /\ UNCHANGED <<state, space, call, arg, child, panicked>>

\* Memory runs out, or the file turns out not to be a program, at any page.
ExecFails(p) ==
  /\ InKernel(p, "exec")
  /\ free' = free + Cardinality(fresh[p])
  /\ Done(p)
  /\ UNCHANGED <<state, space, panicked>>

\* The page of the stack, which a program may have reached.
ExecPanics(p) ==
  /\ InKernel(p, "exec") /\ todo[p] = {} /\ free > 0
  /\ Top - 1 \in fresh[p]
  /\ panicked' = TRUE
  /\ free' = free - 1
  /\ UNCHANGED <<state, space, loop>>

\* The stack page and the commit; the old page table is freed.
ExecDone(p) ==
  /\ InKernel(p, "exec") /\ todo[p] = {} /\ free > 0
  /\ Top - 1 \notin fresh[p]
  /\ mapped'  = [mapped EXCEPT ![p] = fresh[p] \cup {Top - 1}]
  /\ free'    = free - 1 + Cardinality(Freed(p))
  /\ sz'      = [sz EXCEPT ![p] = arg[p]]
  /\ stackSz' = [stackSz EXCEPT ![p] = UserTop - 2]
  /\ Done(p)
  /\ UNCHANGED <<state, panicked>>

-----------------------------------------------------------------------------
\* exit, or an access that trap() does not forgive.
Exit(p) ==
  /\ ~panicked /\ state[p] = "user" /\ call[p] = "none"
  /\ state' = [state EXCEPT ![p] = "zombie"]
  /\ UNCHANGED <<space, free, loop, panicked>>

\* wait, in whoever is the parent by now.
Reap(p) ==
  /\ ~panicked /\ state[p] = "zombie"
  /\ state'   = [state EXCEPT ![p] = "unused"]
  /\ mapped'  = [mapped EXCEPT ![p] = {}]
  /\ free'    = free + Cardinality(Freed(p))
  /\ UNCHANGED <<sz, stackSz, loop, panicked>>

Next == \E p \in Procs :
  \/ SbrkUp(p) \/ SbrkPage(p) \/ SbrkNoMemory(p) \/ SbrkDone(p) \/ SbrkDown(p)
  \/ StackGrows(p) \/ StackNoMemory(p)
  \/ Fork(p) \/ ForkPage(p) \/ ForkNoMemory(p) \/ ForkDone(p)
  \/ Exec(p) \/ ExecPage(p) \/ ExecFails(p) \/ ExecPanics(p) \/ ExecDone(p)
  \/ Exit(p) \/ Reap(p)

Spec == Init /\ [][Next]_vars

-----------------------------------------------------------------------------
(* The tests of the arguments of a system call, for any process but init,    *)
(* which the code lets use the first page.  A word is as long as a unit.     *)

Addresses == 0..(UInt - 1)
Sizes     == (-(UInt \div 2))..(UInt \div 2 - 1)     \* an int

\* An address, which is unsigned, and a size, which is not.
Sum(a, n) == (a + n) % UInt

\* The last word of the stack does not pass.
FetchInt(p, a) ==
  /\ a >= 2
  /\ \/ a < sz[p] /\ Sum(a, 1) <= sz[p]
     \/ a >= stackSz[p] /\ a < UserTop /\ Sum(a, 1) < UserTop

\* Only the start is tested; the search for the end goes on up to USERTOP.
FetchStr(p, a) == a >= 2 /\ (a < sz[p] \/ (a >= stackSz[p] /\ a < UserTop))

ArgPtr(p, a, n) ==
  /\ a >= 2
  /\ \/ a < sz[p] /\ Sum(a, n) <= sz[p]
     \/ a >= stackSz[p] /\ a < UserTop /\ Sum(a, n) <= UserTop

-----------------------------------------------------------------------------
(* Safety. *)

TypeOK ==
  /\ state \in [Procs -> {"unused", "embryo", "user", "zombie"}]
  /\ sz \in [Procs -> 0..UserTop] /\ stackSz \in [Procs -> 0..UserTop]
  /\ mapped \in [Procs -> SUBSET UserPages]
  /\ call \in [Procs -> {"none", "sbrk", "fork", "exec"}]
  /\ arg \in [Procs -> 0..UserTop]
  /\ todo \in [Procs -> SUBSET UserPages] /\ fresh \in [Procs -> SUBSET UserPages]
  /\ child \in [Procs -> Procs]
  /\ panicked \in BOOLEAN

\* Two numbers say what is mapped: for whoever executes user code, the pages of
\* program and heap below sz and those of the stack above stackSz are present,
\* no other is, and the two do not meet; so fork, which copies by the numbers,
\* never panics, and only exec of a program that reaches the top page does.
LayoutSound ==
  /\ \A p \in Procs : Runs(p) =>
       /\ mapped[p] = HeapPages(sz[p]) \cup StackPages(stackSz[p])
       /\ PageUp(sz[p]) <= PageOf(stackSz[p])
  /\ panicked => \E p \in Procs : call[p] = "exec" /\ arg[p] > UserTop - 2

\* Between heap and stack a page stays unmapped whichever of the two grows
\* ("We have to arrange to have a 1 page buffer between the stack and the
\* heap", discussion_notes.markdown), unless the program itself fills it.
GuardPage ==
  \A p \in Procs : Runs(p) /\ sz[p] <= UserTop - 4
    => PageOf(stackSz[p]) - 1 \notin mapped[p]

\* The end of the heap or of the stack, whichever a is in.
RegionEnd(p, a) == IF a < sz[p] THEN sz[p] ELSE UserTop

\* What the tests let through is there: the word that fetchint reads; a block of
\* n bytes, n not negative; a string that ends where its heap or stack ends, or
\* before.  The tests know sz and stackSz only, and trust them through every fault,
\* sbrk, fork and exec.
ArgsAreMapped ==
  \A p \in Procs : Runs(p) => \A a \in Addresses :
    /\ FetchInt(p, a) => PageOf(a) \in mapped[p]
    /\ \A n \in 0..(UInt \div 2 - 1) :
         ArgPtr(p, a, n) => \A b \in a..(a + n - 1) : PageOf(b) \in mapped[p]
    /\ FetchStr(p, a) => \A b \in a..(RegionEnd(p, a) - 1) : PageOf(b) \in mapped[p]

\* The entries of one page table for every process.
Entries(table) == {x \in Procs \X UserPages : x[2] \in table[x[1]]}

\* Whatever fails half-way, and with others taking pages meanwhile, every page
\* is free or in one page table, and kalloc never gives more than it has.
PagesConserved ==
  ~panicked => /\ free \in Nat
               /\ free + Cardinality(Entries(mapped)) + Cardinality(Entries(fresh)) = Memory

-----------------------------------------------------------------------------
(* Two properties the code does not have; no run claims them, the README says *)
(* where.                                                                     *)

\* No block has a negative size.  argptr does not look at the sign: an address
\* and a negative size have a small sum.
SizesAreChecked ==
  \A p \in Procs : Runs(p) =>
    \A a \in Addresses, n \in Sizes : ArgPtr(p, a, n) => n >= 0

\* fetchstr looks for the end of a string in mapped pages only.  A string at the
\* end of the heap that has no end leads it on, into the pages before the stack.
StringsAreMapped ==
  \A p \in Procs : Runs(p) =>
    \A a \in Addresses : FetchStr(p, a) => \A b \in a..(UserTop - 1) : PageOf(b) \in mapped[p]

=============================================================================
