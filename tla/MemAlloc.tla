------------------------------ MODULE MemAlloc ------------------------------
(***************************************************************************)
(* The two allocators of p3/mem/mem.c: a stack of slabs in the first       *)
(* quarter of the region, a next-fit free list in the rest, each under a   *)
(* mutex of its own.  An address is its distance from regionStartPtr, in   *)
(* bytes.  What a mutex protects is one step; Mem_Alloc is two such        *)
(* regions and, outside both, the clearing of the block.                   *)
(*                                                                         *)
(* Callers free what they were given and, at the next-fit part, also       *)
(* pointers that nobody owns any more; they do not write outside their     *)
(* blocks, and no data of theirs look like MAGIC.  Sizes are not negative. *)
(***************************************************************************)
EXTENDS Integers, FiniteSets, SequencesExt

CONSTANTS
  Threads,        \* the threads that call the allocators
  Region,         \* sizeOfRegion
  SlabSize,       \* slabSize of Mem_Init, slabUnitSize
  Sizes,          \* the sizes the callers ask for
  EarlyCallers,   \* may Mem_Alloc be called while Mem_Init is running?
  Null

Align == 16

HDR == 16    \* sizeof(struct FreeHeader) = sizeof(struct AllocatedHeader)

\* Variant: rounds down.
FitDown(size) == (size \div Align) * Align

Fit(size) == ((size + Align - 1) \div Align) * Align

Rounded == Fit(SlabSize)

NFStart == Region \div 4

\* The arguments that Mem_Init does not refuse.
ASSUME MemAssumption ==
  /\ Region \in Nat /\ SlabSize \in Nat \ {0} /\ Sizes \subseteq Nat
  /\ Region % 4 = 0 /\ Rounded <= NFStart /\ HDR <= Region - NFStart
  /\ EarlyCallers \in BOOLEAN

VARIABLES
  phase,    \* of Mem_Init: "off", "slabs" while it pushes them, "on"
  itr,      \* the slab Mem_Init pushes next
  linked,   \* what the next field of that slab points to, once it is set
  slabs,    \* the slab stack from topOfSlabStack on
  fit,      \* nextFitAllocator: the list from freeHead on, and nextPtr
  busy,     \* the headers that hold MAGIC
  call,     \* call[t] : how far Mem_Alloc is in thread t, with which block
  held,     \* the blocks Mem_Alloc has returned and nobody has freed
  dirty     \* the 16-byte cells that may hold something other than zeros

vars == <<phase, itr, linked, slabs, fit, busy, call, held, dirty>>

Node(at, len) == [at |-> at, len |-> len]

Block(p, n) == [ptr |-> p, size |-> n]

At(list) == {list[i].at : i \in DOMAIN list}

After(n) == n.at + HDR + n.len    \* where the next header begins

Cells(from, to) == {c \in 0..Region : c % Align = NFStart % Align /\ from <= c /\ c < to}

-----------------------------------------------------------------------------
(* The free list. *)

\* addFreeNode: nothing if the node is in the list, else before the first
\* node with a greater address.
AddFreeNode(list, n) ==
  LET k == SelectInSeq(list, LAMBDA m : m.at > n.at)
  IN  IF n.at \in At(list) THEN list
      ELSE IF k = 0 THEN Append(list, n) ELSE InsertAt(list, k, n)

RemoveFreeNode(list, at) == SelectSeq(list, LAMBDA m : m.at # at)

\* Variant: nextPtr stays at b.
AbsorbKeepsCursor(f, a, b) ==
  [f EXCEPT !.free = [i \in DOMAIN RemoveFreeNode(@, b.at) |->
                        LET m == RemoveFreeNode(@, b.at)[i]
                        IN  IF m.at = a.at THEN Node(a.at, a.len + HDR + b.len) ELSE m]]

\* One neighbour into the other: b goes, a grows, nextPtr moves along.
Absorb(f, a, b) ==
  [free |-> [i \in DOMAIN RemoveFreeNode(f.free, b.at) |->
               LET m == RemoveFreeNode(f.free, b.at)[i]
               IN  IF m.at = a.at THEN Node(a.at, a.len + HDR + b.len) ELSE m],
   next |-> IF f.next = b.at THEN a.at ELSE f.next]

\* nextFitCoalesce: first with the right neighbour, then with the left one.
Coalesce(f, n) ==
  LET right == {m \in ToSet(f.free) : m.at = After(n)}
      left  == {m \in ToSet(f.free) : After(m) = n.at}
      wide  == IF right = {} THEN n ELSE Node(n.at, n.len + HDR + (CHOOSE m \in right : TRUE).len)
      f1    == IF right = {} THEN f ELSE Absorb(f, n, CHOOSE m \in right : TRUE)
  IN  IF left = {} THEN f1 ELSE Absorb(f1, CHOOSE m \in left : TRUE, wide)

\* Variant: first fit.
StartAtHead(f) == IF f.free = <<>> THEN Null ELSE f.free[1].at

\* Where the scan starts: at nextPtr, at freeHead when nextPtr is NULL.
Start(f) == IF f.free = <<>> THEN Null
            ELSE IF f.next = Null THEN f.free[1].at ELSE f.next

\* The positions of the list in the order of the scan, from Start around.
ScanOrder(f) ==
  LET s == SelectInSeq(f.free, LAMBDA m : m.at = Start(f))
  IN  [k \in DOMAIN f.free |-> ((s + k - 2) % Len(f.free)) + 1]

\* The first position whose node is long enough, 0 when none is.
Found(f, size) ==
  LET k == SelectInSeq(ScanOrder(f), LAMBDA i : f.free[i].len >= Fit(size))
  IN  IF k = 0 THEN 0 ELSE ScanOrder(f)[k]

\* Takes node i for size bytes; what is left over is a free node again.
Carve(f, i, size) ==
  LET n    == f.free[i]
      rest == Node(n.at + HDR + Fit(size), n.len - Fit(size) - HDR)
      less == RemoveFreeNode(f.free, n.at)
  IN  IF n.len = Fit(size)
      THEN [free |-> less, next |-> IF i < Len(f.free) THEN f.free[i + 1].at ELSE Null]
      ELSE [free |-> AddFreeNode(less, rest), next |-> rest.at]

-----------------------------------------------------------------------------
(* Mem_Init. *)

Init == /\ phase = "off" /\ itr = NFStart - Rounded /\ linked = Null
        /\ slabs = <<>> /\ fit = [free |-> <<>>, next |-> Null]
        /\ busy = {} /\ held = {} /\ dirty = {}
        /\ call = [t \in Threads |-> [pc |-> "out", ptr |-> Null, size |-> 0]]

\* initializedOnce is set before anything is ready.
InitFlag == /\ phase = "off" /\ phase' = "slabs"
            /\ UNCHANGED <<itr, linked, slabs, fit, busy, call, held, dirty>>

\* slabPush(itr), in two steps, since Mem_Init does not take slabLock.
InitLink == /\ phase = "slabs" /\ itr >= 0 /\ linked = Null
            /\ linked' = slabs
            /\ dirty' = dirty \cup {itr}
            /\ UNCHANGED <<phase, itr, slabs, fit, busy, call, held>>

InitPush == /\ phase = "slabs" /\ linked # Null
            /\ slabs' = <<itr>> \o linked /\ linked' = Null
            /\ itr' = itr - Rounded
            /\ UNCHANGED <<phase, fit, busy, call, held, dirty>>

\* The free list; one step, for until the length is there nothing fits.
InitHeap == /\ phase = "slabs" /\ itr < 0
            /\ phase' = "on"
            /\ fit' = [free |-> <<Node(NFStart, Region - NFStart - HDR)>>, next |-> NFStart]
            /\ dirty' = dirty \cup {NFStart}
            /\ UNCHANGED <<itr, linked, slabs, busy, call, held>>

-----------------------------------------------------------------------------
(* Mem_Alloc and Mem_Free. *)

\* Mem_Alloc looks only at initializedOnce.
MayCall == phase = "on" \/ (EarlyCallers /\ phase # "off")

Calls(t, pc, ptr, size) == call' = [call EXCEPT ![t] = [pc |-> pc, ptr |-> ptr, size |-> size]]

AllocSlab(t) ==
  /\ MayCall /\ call[t].pc = "out"
  /\ IF slabs = <<>>
     THEN Calls(t, "missed", Null, SlabSize) /\ UNCHANGED slabs
     ELSE Calls(t, "clearing", Head(slabs), SlabSize) /\ slabs' = Tail(slabs)
  /\ UNCHANGED <<phase, itr, linked, fit, busy, held, dirty>>

\* nextFitAlloc, for a size of its own or after the slab stack was empty.
AllocNextFit(t, size) ==
  /\ MayCall
  /\ \/ call[t].pc = "out" /\ size # SlabSize
     \/ call[t].pc = "missed" /\ size = SlabSize
  /\ LET i == Found(fit, size)
         p == fit.free[i].at + HDR
     IN  IF i = 0
         THEN /\ fit' = [fit EXCEPT !.next = Start(fit)]
              /\ Calls(t, "out", Null, 0)
              /\ UNCHANGED <<busy, held, dirty>>
         ELSE /\ fit' = Carve(fit, i, size)
              /\ busy' = busy \cup {Node(fit.free[i].at, Fit(size))}
              /\ dirty' = dirty \cup At(fit'.free)
              /\ IF size = SlabSize
                 THEN Calls(t, "clearing", p, size) /\ UNCHANGED held
                 ELSE Calls(t, "out", Null, 0) /\ held' = held \cup {Block(p, size)}
  /\ UNCHANGED <<phase, itr, linked, slabs>>

\* Variant: the first 16 bytes are skipped for slabs, too.
ZeroedAsNextFit(p) == Cells(p + HDR, p + Rounded)

\* What initToZero writes: all of a slab; of a next-fit block not the first
\* 16 bytes.
Zeroed(p) == Cells(IF p < NFStart THEN p ELSE p + HDR, p + Rounded)

\* initToZero, without a lock, and the return from Mem_Alloc.
Clear(t) ==
  LET p == call[t].ptr
  IN  /\ call[t].pc = "clearing"
      /\ dirty' = dirty \ Zeroed(p)
      /\ busy' = {b \in busy : b.at \notin Zeroed(p)}
      /\ held' = held \cup {Block(p, SlabSize)}
      /\ Calls(t, "out", Null, 0)
      /\ UNCHANGED <<phase, itr, linked, slabs, fit>>

\* The pointers for which Mem_Free returns 0.
Accepts(p) == /\ 0 <= p /\ p <= Region
              /\ p % Align = 0
              /\ IF p < NFStart THEN (NFStart - p) % Rounded = 0
                 ELSE \E b \in busy : b.at = p - HDR

\* The caller has written all over its block before it frees it.
Used(b) == Cells(b.ptr, b.ptr + b.size)

FreeSlab(b) ==
  /\ b \in held /\ b.ptr < NFStart /\ Accepts(b.ptr)
  /\ slabs' = <<b.ptr>> \o slabs
  /\ held' = held \ {b}
  /\ dirty' = dirty \cup Used(b)
  /\ UNCHANGED <<phase, itr, linked, fit, busy, call>>

\* nextFitFree(p) when it finds MAGIC.
Reclaim(p) ==
  LET n == CHOOSE b \in busy : b.at = p - HDR
  IN  /\ fit' = Coalesce([fit EXCEPT !.free = AddFreeNode(@, n)], n)
      /\ busy' = busy \ {n}

\* A pointer of a caller, or one that nobody owns; the latter is refused.
FreeNextFit(p) ==
  /\ \A t \in Threads : call[t].ptr # p
  /\ Accepts(p) /\ Reclaim(p)
  /\ held' = {b \in held : b.ptr # p}
  /\ dirty' = dirty \cup UNION {Used(b) : b \in {c \in held : c.ptr = p}}
  /\ UNCHANGED <<phase, itr, linked, slabs, call>>

Next ==
  \/ InitFlag \/ InitLink \/ InitPush \/ InitHeap
  \/ \E t \in Threads :
       \/ AllocSlab(t) \/ Clear(t)
       \/ \E size \in Sizes \cup {SlabSize} : AllocNextFit(t, size)
  \/ \E b \in held : FreeSlab(b)
  \/ \E p \in NFStart..Region : FreeNextFit(p)

Spec == Init /\ [][Next]_vars

-----------------------------------------------------------------------------
(* Properties. *)

Nodes == ToSet(fit.free) \cup busy

AllSlabs == {a \in 0..(NFStart - 1) : (NFStart - a) % Rounded = 0}

\* Free nodes and blocks that are in use fill the next-fit part without a
\* gap or an overlap, headers included, through all splits and merges of
\* nextFitAlloc and nextFitFree.
Tiled ==
  phase = "on" =>
    /\ NFStart \in {n.at : n \in Nodes}
    /\ \A n \in Nodes : After(n) = Region \/ \E m \in Nodes : m.at = After(n)
    /\ \A m, n \in Nodes : m = n \/ After(m) <= n.at \/ After(n) <= m.at

\* The free list ascends and no two of its nodes touch: addFreeNode inserts
\* in place, and nextFitCoalesce leaves no pair of neighbours unmerged.
Coalesced == \A i \in 1..(Len(fit.free) - 1) : After(fit.free[i]) < fit.free[i + 1].at

\* nextPtr is NULL or a node of the free list, whatever was merged or carved
\* away since; from any other place the do-while of nextFitAlloc never ends.
CursorOnList == fit.next = Null \/ fit.next \in At(fit.free)

\* At every moment nextFitAlloc would take, of the nodes that fit, the first
\* one at or after nextPtr, else the first of all; it fails only if none fits.
ScanIsNextFit ==
  \A size \in Sizes \cup {SlabSize} :
    LET fits == {i \in DOMAIN fit.free : fit.free[i].len >= Fit(size)}
        late == {i \in fits : fit.next # Null /\ fit.free[i].at >= fit.next}
        f    == Found(fit, size)
    IN  IF fits = {} THEN f = 0
        ELSE f \in (IF late # {} THEN late ELSE fits)
             /\ \A i \in (IF late # {} THEN late ELSE fits) : f <= i

\* Every slab is in exactly one place: once on the stack, with one thread
\* that clears it, or with one caller; slabPush and slabPop lose or double none.
SlabsInOnePlace ==
  phase = "on" =>
    \A a \in AllSlabs :
      Cardinality({i \in DOMAIN slabs : slabs[i] = a})
      + Cardinality({t \in Threads : call[t].ptr = a})
      + Cardinality({b \in held : b.ptr = a}) = 1

\* No memory is lost or counted twice by either allocator: what Mem_Alloc can
\* give is what Mem_Init had less what callers hold, so that with the last
\* Mem_Free all of it is there again in one piece.
StoreSound == Tiled /\ Coalesced /\ CursorOnList /\ SlabsInOnePlace

\* A slab comes cleared, and the allocators write nothing into it as long as
\* the caller has it.
SlabsComeCleared ==
  \A b \in held : b.ptr < NFStart => Used(b) \cap dirty = {}

\* The allocators implement the heap their callers rely on.
H == INSTANCE Heap WITH blocks <- held, Sizes <- Sizes \cup {SlabSize}
IsHeap == H!Spec

-----------------------------------------------------------------------------
(* Two properties the code does not have; no run claims them, the README says *)
(* with which constants TLC shows why.                                        *)

\* SlabsComeCleared for every request of the special size, also one that the
\* next-fit allocator serves because the slabs are out.  initToZero starts 16
\* bytes into such a block.
SpecialSizeComesCleared ==
  \A b \in held : b.size = SlabSize => Used(b) \cap dirty = {}

\* No slab is on the stack and with a caller at once, also when Mem_Alloc is
\* called while Mem_Init, which takes no lock of slabPop, is still pushing.
NoSlabTwice == \A b \in held : b.ptr \notin ToSet(slabs)

=============================================================================
