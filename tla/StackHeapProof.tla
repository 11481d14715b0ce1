--------------------------- MODULE StackHeapProof ---------------------------
(***************************************************************************)
(* Proofs about StackHeap, for any number of processes, any USERTOP and    *)
(* any sizes: sz and stackSz say what is mapped, heap and stack stay       *)
(* apart, a system call argument that passes its test is mapped, and no    *)
(* page is lost or used twice.  The inductive invariant is Inv: one        *)
(* formula for every process (Sound), for the place it has reached in a    *)
(* loop of the kernel.  Conserved is inductive with it: a page that a loop *)
(* maps or copies was not there before, which only Inv says.               *)
(***************************************************************************)
EXTENDS StackHeap, FiniteSetTheorems, TLAPS

\* What is mapped for a process with these two numbers.
Image(size, base) == HeapPages(size) \cup StackPages(base)

\* The base of a stack is the first byte of a page above the first two pages;
\* a heap that reaches the page below it was put there by exec.
Based(p) ==
  /\ stackSz[p] = 2 * PageOf(stackSz[p])
  /\ 4 <= stackSz[p] /\ stackSz[p] <= UserTop - 2
  /\ sz[p] <= stackSz[p]
  /\ sz[p] <= stackSz[p] - 2 \/ sz[p] > UserTop - 4

\* A loop of growproc has mapped what is not in todo.
Growing(p) ==
  /\ sz[p] < arg[p] /\ arg[p] <= stackSz[p] - 2
  /\ todo[p] \subseteq Pages(sz[p], arg[p])
  /\ mapped[p] = Image(sz[p], stackSz[p]) \cup (Pages(sz[p], arg[p]) \ todo[p])

\* A loop of fork has copied what is not in todo.
Copying(p) ==
  /\ todo[p] \subseteq Image(sz[p], stackSz[p])
  /\ fresh[p] = Image(sz[p], stackSz[p]) \ todo[p]
  /\ state[child[p]] = "embryo"

\* A loop of exec has loaded what is not in todo.
Loading(p) ==
  /\ 2 <= arg[p]
  /\ todo[p] \subseteq Pages(2, arg[p])
  /\ fresh[p] = Pages(2, arg[p]) \ todo[p]

Sound(p) ==
  /\ state[p] = "user" => Based(p)
  /\ state[p] = "user" /\ 1 \in mapped[p] /\ call[p] # "sbrk"
       => mapped[p] = Image(sz[p], stackSz[p])
  /\ call[p] # "none" => state[p] = "user" /\ 1 \in mapped[p] /\ 3 <= sz[p]
  /\ call[p] = "sbrk" => Growing(p)
  /\ call[p] = "fork" => Copying(p)
  /\ call[p] = "exec" => Loading(p)
  /\ call[p] \in {"none", "sbrk"} => fresh[p] = {}

\* Two forks never fill the same slot.
Apart == \A p, q \in Procs :
  call[p] = "fork" /\ call[q] = "fork" /\ child[p] = child[q] => p = q

\* exec of a program that reaches the page of the stack.
Remap == panicked => \E p \in Procs : call[p] = "exec" /\ arg[p] > UserTop - 2

Inv == TypeOK /\ (\A p \in Procs : Sound(p)) /\ Apart /\ Remap

-----------------------------------------------------------------------------
(* Pages. *)

LEMMA Rounding ==
  \A a \in Int : /\ PageOf(a) \in Int /\ 2 * PageOf(a) <= a /\ a <= 2 * PageOf(a) + 1
                 /\ PageUp(a) \in Int /\ a <= 2 * PageUp(a) /\ 2 * PageUp(a) <= a + 1
  BY DEF PageOf, PageUp

\* USERTOP is a multiple of a page and leaves room for four of them.
LEMMA Limits ==
  /\ Top \in Int /\ UserTop \in Int /\ UserTop = 2 * Top /\ UserTop >= 8
  /\ UserPages = 0..(Top - 1)
  BY StackHeapAssumption DEF UserTop, UserPages

\* The first page of a program belongs to its heap.
LEMMA FirstPage ==
  ASSUME NEW size \in Int, NEW base \in Int, base = 2 * PageOf(base), 4 <= base,
         1 \in Image(size, base)
  PROVE  3 <= size
<1>1. PageOf(base) \in Int /\ PageOf(base) >= 2
  BY Rounding
<1>2. 1 \in HeapPages(size)
  BY <1>1, Limits DEF Image, StackPages
<1>3. PageUp(size) \in Int /\ 2 <= PageUp(size)
  BY <1>2, Rounding DEF HeapPages, Pages
<1>4. QED BY <1>3, Rounding

\* Pages from u to w lie above those below u, and complete those below w.
LEMMA Joining ==
  ASSUME NEW u \in Int, NEW w \in Int, 1 <= u, u <= w
  PROVE  /\ HeapPages(u) \cup Pages(u, w) = HeapPages(w)
         /\ HeapPages(u) \cap Pages(u, w) = {}
<1>1. /\ PageUp(2) = 1
      /\ PageUp(u) \in Int /\ PageUp(w) \in Int /\ 1 <= PageUp(u) /\ PageUp(u) <= PageUp(w)
  BY DEF PageUp
<1>2. QED BY <1>1 DEF HeapPages, Pages

\* Heap and stack share no page.
LEMMA Separate ==
  ASSUME NEW size \in Int, NEW base \in Int, base = 2 * PageOf(base), size <= base,
         NEW from \in Int
  PROVE  Pages(from, size) \cap StackPages(base) = {}
<1>1. PageUp(size) \in Int /\ PageUp(from) \in Int /\ PageOf(base) \in Int
  BY Rounding
<1>2. 2 * PageUp(size) <= size + 1
  BY Rounding
<1>3. PageUp(size) <= PageOf(base)
  BY <1>1, <1>2
<1>4. QED BY <1>1, <1>3, Limits DEF Pages, StackPages

\* Pages of user memory.
LEMMA Within ==
  ASSUME NEW u \in Int, NEW w \in Int, 0 <= u, w <= UserTop
  PROVE  Pages(u, w) \subseteq UserPages
<1>1. PageUp(u) \in Int /\ PageUp(w) \in Int /\ 0 <= PageUp(u) /\ PageUp(w) <= Top
  BY Limits DEF PageUp
<1>2. QED BY <1>1, Limits DEF Pages

\* One page more for the stack.
LEMMA PageBelow ==
  ASSUME NEW base \in Int, base = 2 * PageOf(base), 4 <= base, base <= UserTop - 2
  PROVE  /\ Pages(base - 2, base) = {PageOf(base) - 1}
         /\ StackPages(base - 2) = StackPages(base) \cup {PageOf(base) - 1}
         /\ PageOf(base - 2) = PageOf(base) - 1 /\ PageOf(base) \in Int
         /\ PageOf(base) - 1 \in UserPages
<1>1. PageOf(base) \in Int
  BY Rounding
<1>2. PageUp(base) = PageOf(base) /\ PageUp(base - 2) = PageOf(base) - 1
  BY DEF PageUp, PageOf
<1>3. PageOf(base - 2) = PageOf(base) - 1
  BY DEF PageOf
<1>4. Pages(base - 2, base) = {PageOf(base) - 1}
  BY <1>1, <1>2 DEF Pages
<1>5. PageOf(base) <= Top - 1 /\ 2 <= PageOf(base)
  BY <1>1, Limits
<1>6. StackPages(base - 2) = StackPages(base) \cup {PageOf(base) - 1}
  BY <1>1, <1>3, <1>5, Limits DEF StackPages
<1>7. QED BY <1>1, <1>3, <1>4, <1>5, <1>6, Limits

-----------------------------------------------------------------------------
(* A step of one process leaves the others as they are. *)

\* What Sound(q) is about, but for the slot that q fills.
Same(q) ==
  /\ state'[q] = state[q] /\ sz'[q] = sz[q] /\ stackSz'[q] = stackSz[q]
  /\ mapped'[q] = mapped[q] /\ call'[q] = call[q] /\ arg'[q] = arg[q]
  /\ todo'[q] = todo[q] /\ fresh'[q] = fresh[q] /\ child'[q] = child[q]

LEMMA SameIsSound ==
  ASSUME NEW q \in Procs, Sound(q), Same(q),
         call[q] = "fork" => state'[child[q]] = state[child[q]]
  PROVE  Sound(q)'
<1>1. Based(q) => Based(q)'
  BY DEF Based, Same, PageOf, UserTop
<1>2. Growing(q) => Growing(q)'
  BY DEF Growing, Same, Image, HeapPages, StackPages, Pages, PageOf, PageUp
<1>3. call[q] = "fork" /\ Copying(q) => Copying(q)'
  BY DEF Copying, Same, Image, HeapPages, StackPages, Pages, PageOf, PageUp
<1>4. Loading(q) => Loading(q)'
  BY DEF Loading, Same, Pages, PageUp
<1>5. Image(sz[q], stackSz[q])' = Image(sz[q], stackSz[q])
  BY DEF Same, Image, HeapPages, StackPages, Pages, PageOf, PageUp
<1>6. QED BY <1>1, <1>2, <1>3, <1>4, <1>5 DEF Sound, Same

\* A step of p that neither begins nor ends a fork.
LEMMA OneMoves ==
  ASSUME Inv, NEW p \in Procs, TypeOK', Remap', Sound(p)', state[p] # "embryo",
         \A q \in Procs \ {p} : Same(q),
         call'[p] = "fork" => call[p] = "fork" /\ child'[p] = child[p]
  PROVE  Inv'
<1>1. ASSUME NEW q \in Procs, q # p PROVE Sound(q)'
  <2>1. Sound(q) /\ Same(q)
    BY <1>1 DEF Inv
  <2>2. call[q] = "fork" => state[child[q]] = "embryo" /\ child[q] \in Procs
    BY <2>1 DEF Sound, Copying, Inv, TypeOK
  <2>3. call[q] = "fork" => state'[child[q]] = state[child[q]]
    BY <2>2 DEF Same
  <2>4. QED BY <2>1, <2>3, SameIsSound
<1>2. Apart'
  <2>1. \A q \in Procs : call'[q] = "fork" => call[q] = "fork" /\ child'[q] = child[q]
    BY DEF Same
  <2>2. QED BY <2>1 DEF Apart, Inv
<1>3. QED BY <1>1, <1>2 DEF Inv

LEMMA Starts == Init => Inv
<1> SUFFICES ASSUME Init PROVE Inv
  OBVIOUS
<1>1. PICK e \in Images :
        /\ 3 <= e /\ e <= UserTop - 4
        /\ sz = [p \in Procs |-> IF p = Boot THEN e ELSE 0]
        /\ mapped = [p \in Procs |-> IF p = Boot THEN HeapPages(e) \cup {Top - 1} ELSE {}]
  BY DEF Init
<1>2. e \in Int
  BY StackHeapAssumption
<1>3. PageOf(UserTop - 2) = Top - 1
  BY Limits DEF PageOf
<1>4. Image(e, UserTop - 2) = HeapPages(e) \cup {Top - 1}
  BY <1>3, Limits DEF Image, StackPages
<1>5. HeapPages(e) \cup {Top - 1} \subseteq UserPages
  <2>1. PageUp(e) \in Int /\ PageUp(2) = 1
    BY <1>2, Rounding DEF PageUp
  <2>2. 2 * PageUp(e) <= e + 1
    BY <1>2, Rounding
  <2>3. PageUp(e) <= Top - 1
    BY <1>1, <1>2, <2>1, <2>2, Limits
  <2>4. QED BY <2>1, <2>3, Limits DEF HeapPages, Pages
<1>6. TypeOK
  <2>1. mapped \in [Procs -> SUBSET UserPages]
    BY <1>1, <1>5
  <2>2. sz \in [Procs -> 0..UserTop]
    BY <1>1, <1>2, Limits
  <2>3. /\ stackSz \in [Procs -> 0..UserTop] /\ arg \in [Procs -> 0..UserTop]
        /\ state \in [Procs -> {"unused", "embryo", "user", "zombie"}]
    BY Limits DEF Init
  <2>4. call \in [Procs -> {"none", "sbrk", "fork", "exec"}] /\ child \in [Procs -> Procs]
    BY DEF Init
  <2>5. todo = [p \in Procs |-> {}] /\ fresh = [p \in Procs |-> {}] /\ panicked = FALSE
    BY DEF Init
  <2>6. QED BY <2>1, <2>2, <2>3, <2>4, <2>5 DEF TypeOK
<1>7. Remap /\ Apart
  BY DEF Init, Remap, Apart
<1>8. ASSUME NEW p \in Procs PROVE Sound(p)
  <2>1. call[p] = "none" /\ fresh[p] = {}
    BY DEF Init
  <2>2. CASE p = Boot
    <3>1. sz[p] = e /\ stackSz[p] = UserTop - 2 /\ mapped[p] = Image(e, UserTop - 2)
      BY <1>1, <1>4, <2>2 DEF Init
    <3>2. Based(p)
      BY <1>1, <1>2, <1>3, <3>1, Limits DEF Based
    <3>3. QED BY <2>1, <3>1, <3>2 DEF Sound
  <2>3. CASE p # Boot
    BY <2>1, <2>3 DEF Init, Sound
  <2>4. QED BY <2>2, <2>3
<1>9. QED BY <1>6, <1>7, <1>8 DEF Inv

-----------------------------------------------------------------------------
(* What is known of a process that runs, and of one in a loop. *)

LEMMA Running ==
  ASSUME Inv, NEW p \in Procs, Runs(p)
  PROVE  /\ ~panicked /\ state[p] = "user" /\ call[p] = "none" /\ fresh[p] = {}
         /\ Based(p) /\ 3 <= sz[p] /\ 1 \in mapped[p]
         /\ mapped[p] = Image(sz[p], stackSz[p])
         /\ sz[p] \in Int /\ stackSz[p] \in Int /\ PageOf(stackSz[p]) \in Int
         /\ 2 <= PageOf(stackSz[p])
<1>1. ~panicked /\ state[p] = "user" /\ call[p] = "none" /\ 1 \in mapped[p]
  BY DEF Runs
<1>2. Based(p) /\ mapped[p] = Image(sz[p], stackSz[p]) /\ fresh[p] = {}
  BY <1>1 DEF Inv, Sound
<1>3. sz[p] \in Int /\ stackSz[p] \in Int
  BY Limits DEF Inv, TypeOK
<1>4. PageOf(stackSz[p]) \in Int
  BY <1>3, Rounding
<1>5. 2 <= PageOf(stackSz[p])
  BY <1>2, <1>4 DEF Based
<1>6. 3 <= sz[p]
  BY <1>1, <1>2, <1>3, FirstPage DEF Based
<1>7. QED BY <1>1, <1>2, <1>3, <1>4, <1>5, <1>6

LEMMA Looping ==
  ASSUME Inv, NEW p \in Procs, NEW c \in {"sbrk", "fork", "exec"}, InKernel(p, c)
  PROVE  /\ ~panicked /\ state[p] = "user" /\ call[p] = c /\ Based(p)
         /\ 3 <= sz[p] /\ 1 \in mapped[p]
         /\ c = "sbrk" => Growing(p) /\ fresh[p] = {}
         /\ c = "fork" => Copying(p) /\ mapped[p] = Image(sz[p], stackSz[p])
         /\ c = "exec" => Loading(p) /\ mapped[p] = Image(sz[p], stackSz[p])
         /\ sz[p] \in Int /\ stackSz[p] \in Int /\ arg[p] \in Int /\ arg[p] <= UserTop
         /\ PageOf(stackSz[p]) \in Int /\ 2 <= PageOf(stackSz[p])
<1>1. ~panicked /\ call[p] = c
  BY DEF InKernel
<1>2. /\ state[p] = "user" /\ Based(p) /\ 3 <= sz[p] /\ 1 \in mapped[p]
      /\ c = "sbrk" => Growing(p) /\ fresh[p] = {}
      /\ c = "fork" => Copying(p) /\ mapped[p] = Image(sz[p], stackSz[p])
      /\ c = "exec" => Loading(p) /\ mapped[p] = Image(sz[p], stackSz[p])
  BY <1>1 DEF Inv, Sound
<1>3. sz[p] \in Int /\ stackSz[p] \in Int /\ arg[p] \in Int /\ arg[p] <= UserTop
  BY Limits DEF Inv, TypeOK
<1>4. PageOf(stackSz[p]) \in Int
  BY <1>3, Rounding
<1>5. 2 <= PageOf(stackSz[p])
  BY <1>2, <1>4 DEF Based
<1>6. QED BY <1>1, <1>2, <1>3, <1>4, <1>5

-----------------------------------------------------------------------------
(* sbrk. *)

LEMMA SbrkUpKeeps ==
  ASSUME Inv, NEW p \in Procs, SbrkUp(p) PROVE Inv'
<1>1. /\ ~panicked /\ state[p] = "user" /\ call[p] = "none" /\ fresh[p] = {}
      /\ Based(p) /\ 3 <= sz[p] /\ 1 \in mapped[p]
      /\ mapped[p] = Image(sz[p], stackSz[p])
      /\ sz[p] \in Int /\ stackSz[p] \in Int
  BY Running DEF SbrkUp
<1>2. PICK n \in Amounts :
        /\ n > 0 /\ ~NoRoom(p, n) /\ sz[p] + n <= UserTop
        /\ call' = [call EXCEPT ![p] = "sbrk"]
        /\ arg'  = [arg EXCEPT ![p] = sz[p] + n]
        /\ todo' = [todo EXCEPT ![p] = Pages(sz[p], sz[p] + n)]
  BY DEF SbrkUp
<1>3. /\ n \in Int /\ sz[p] + n \in Int /\ sz[p] < sz[p] + n
      /\ sz[p] + n <= stackSz[p] - 2 /\ sz[p] + n \in 0..UserTop
  BY <1>1, <1>2, StackHeapAssumption, Limits DEF NoRoom
<1>4. Pages(sz[p], sz[p] + n) \subseteq UserPages
  BY <1>1, <1>3, Within
<1>5. UNCHANGED <<state, sz, stackSz, mapped, fresh, child, panicked>>
  BY DEF SbrkUp, space
<1>6. TypeOK'
  BY <1>2, <1>3, <1>4, <1>5 DEF Inv, TypeOK, UserPages, UserTop
<1>7. Remap'
  BY <1>1, <1>5 DEF Remap
<1>8. /\ call'[p] = "sbrk" /\ arg'[p] = sz[p] + n /\ todo'[p] = Pages(sz[p], sz[p] + n)
  BY <1>2 DEF Inv, TypeOK
<1>9. Growing(p)'
  BY <1>1, <1>3, <1>5, <1>8 DEF Growing, Image, HeapPages, StackPages, Pages, PageOf, PageUp
<1>10. Sound(p)'
  BY <1>1, <1>5, <1>8, <1>9 DEF Sound, Based, PageOf, UserTop
<1>11. \A q \in Procs \ {p} : Same(q)
  BY <1>2, <1>5 DEF Same, Inv, TypeOK
<1>12. QED BY <1>1, <1>6, <1>7, <1>8, <1>10, <1>11, OneMoves

LEMMA SbrkPageKeeps ==
  ASSUME Inv, NEW p \in Procs, SbrkPage(p) PROVE Inv'
<1>1. /\ ~panicked /\ state[p] = "user" /\ call[p] = "sbrk" /\ fresh[p] = {}
      /\ Based(p) /\ Growing(p) /\ 3 <= sz[p] /\ 1 \in mapped[p]
      /\ sz[p] \in Int /\ stackSz[p] \in Int /\ arg[p] \in Int
  BY Looping DEF SbrkPage
<1>2. PICK g \in todo[p] :
        /\ panicked' = (g \in mapped[p])
        /\ mapped' = [mapped EXCEPT ![p] = @ \cup {g}]
        /\ todo' = [todo EXCEPT ![p] = @ \ {g}]
  BY DEF SbrkPage
<1>3. g \in Pages(sz[p], arg[p]) /\ g \in UserPages
  BY <1>1 DEF Growing, Inv, TypeOK
<1>4. HeapPages(sz[p]) \cap Pages(sz[p], arg[p]) = {}
  BY <1>1, Joining DEF Growing
<1>5. Pages(sz[p], arg[p]) \cap StackPages(stackSz[p]) = {}
  BY <1>1, Separate DEF Growing, Based
<1>6. g \notin mapped[p]
  BY <1>1, <1>3, <1>4, <1>5 DEF Growing, Image
<1>7. UNCHANGED <<state, sz, stackSz, call, arg, fresh, child>> /\ panicked' = FALSE
  <2>1. (g \in mapped[p]) = FALSE
    BY <1>6
  <2>2. panicked' = (g \in mapped[p])
    BY <1>2
  <2>3. panicked' = FALSE
    BY <2>1, <2>2, Zenon
  <2>4. QED BY <2>3 DEF SbrkPage
<1>8. TypeOK'
  BY <1>2, <1>3, <1>7 DEF Inv, TypeOK, UserPages, UserTop
<1>9. Remap'
  BY <1>7 DEF Remap
<1>10. mapped'[p] = mapped[p] \cup {g} /\ todo'[p] = todo[p] \ {g}
  BY <1>2 DEF Inv, TypeOK
<1>11. Growing(p)'
  BY <1>1, <1>3, <1>7, <1>10 DEF Growing, Image, HeapPages, StackPages, Pages, PageOf, PageUp
<1>12. Sound(p)'
  BY <1>1, <1>7, <1>10, <1>11 DEF Sound, Based, PageOf, UserTop
<1>13. \A q \in Procs \ {p} : Same(q)
  BY <1>2, <1>7 DEF Same, Inv, TypeOK
<1>14. QED BY <1>1, <1>7, <1>8, <1>9, <1>12, <1>13, OneMoves

\* Back in user mode, with nothing left of the call.
LEMMA DoneFacts ==
  ASSUME Inv, NEW p \in Procs, Done(p)
  PROVE  /\ call'[p] = "none" /\ fresh'[p] = {}
         /\ call' \in [Procs -> {"none", "sbrk", "fork", "exec"}]
         /\ arg' \in [Procs -> 0..UserTop] /\ child' \in [Procs -> Procs]
         /\ todo' \in [Procs -> SUBSET UserPages] /\ fresh' \in [Procs -> SUBSET UserPages]
         /\ \A q \in Procs \ {p} : /\ call'[q] = call[q] /\ arg'[q] = arg[q]
                                   /\ todo'[q] = todo[q] /\ fresh'[q] = fresh[q]
                                   /\ child'[q] = child[q]
<1>1. 0 \in 0..UserTop
  BY Limits
<1>2. /\ call \in [Procs -> {"none", "sbrk", "fork", "exec"}] /\ arg \in [Procs -> 0..UserTop]
      /\ child \in [Procs -> Procs]
      /\ todo \in [Procs -> SUBSET UserPages] /\ fresh \in [Procs -> SUBSET UserPages]
  BY DEF Inv, TypeOK
<1>3. QED BY <1>1, <1>2 DEF Done

LEMMA SbrkNoMemoryKeeps ==
  ASSUME Inv, NEW p \in Procs, SbrkNoMemory(p) PROVE Inv'
<1>1. /\ ~panicked /\ state[p] = "user" /\ call[p] = "sbrk"
      /\ Based(p) /\ Growing(p) /\ 3 <= sz[p]
      /\ sz[p] \in Int /\ stackSz[p] \in Int /\ arg[p] \in Int
  BY Looping DEF SbrkNoMemory
<1>2. HeapPages(sz[p]) \cap Pages(sz[p], arg[p]) = {}
  BY <1>1, Joining DEF Growing
<1>3. Pages(sz[p], arg[p]) \cap StackPages(stackSz[p]) = {}
  BY <1>1, Separate DEF Growing, Based
<1>4. mapped[p] \ GivenBack(p) = Image(sz[p], stackSz[p])
  BY <1>1, <1>2, <1>3 DEF Growing, Image, GivenBack
<1>5. /\ UNCHANGED <<state, sz, stackSz, panicked>> /\ Done(p)
      /\ mapped' = [mapped EXCEPT ![p] = @ \ GivenBack(p)]
  BY DEF SbrkNoMemory
<1>6. mapped'[p] = Image(sz[p], stackSz[p])
  BY <1>4, <1>5 DEF Inv, TypeOK
<1>7. TypeOK'
  BY <1>5, DoneFacts DEF Inv, TypeOK, UserPages, UserTop
<1>8. Remap'
  BY <1>1, <1>5 DEF Remap
<1>9. Image(sz[p], stackSz[p])' = Image(sz[p], stackSz[p])
  BY <1>5 DEF Image, HeapPages, StackPages, Pages, PageOf, PageUp
<1>10. Sound(p)'
  BY <1>1, <1>5, <1>6, <1>9, DoneFacts DEF Sound, Based, PageOf, UserTop
<1>11. \A q \in Procs \ {p} : Same(q)
  BY <1>5, DoneFacts DEF Same, Inv, TypeOK
<1>12. call'[p] = "none"
  BY <1>5, DoneFacts
<1>13. QED BY <1>1, <1>7, <1>8, <1>10, <1>11, <1>12, OneMoves

LEMMA SbrkDoneKeeps ==
  ASSUME Inv, NEW p \in Procs, SbrkDone(p) PROVE Inv'
<1>1. /\ ~panicked /\ state[p] = "user" /\ call[p] = "sbrk"
      /\ Based(p) /\ Growing(p) /\ 3 <= sz[p]
      /\ sz[p] \in Int /\ stackSz[p] \in Int /\ arg[p] \in Int /\ todo[p] = {}
  BY Looping DEF SbrkDone
<1>2. HeapPages(sz[p]) \cup Pages(sz[p], arg[p]) = HeapPages(arg[p])
  BY <1>1, Joining DEF Growing
<1>3. mapped[p] = Image(arg[p], stackSz[p])
  BY <1>1, <1>2 DEF Growing, Image
<1>4. /\ UNCHANGED <<state, stackSz, mapped, panicked>> /\ Done(p)
      /\ sz' = [sz EXCEPT ![p] = arg[p]]
  BY DEF SbrkDone
<1>5. sz'[p] = arg[p] /\ arg[p] \in 0..UserTop
  BY <1>4 DEF Inv, TypeOK
<1>6. TypeOK'
  BY <1>4, <1>5, DoneFacts DEF Inv, TypeOK, UserPages, UserTop
<1>7. Remap'
  BY <1>1, <1>4 DEF Remap
<1>8. Image(sz[p], stackSz[p])' = Image(arg[p], stackSz[p])
  BY <1>4, <1>5 DEF Image, HeapPages, StackPages, Pages, PageOf, PageUp
<1>9. Based(p)'
  BY <1>1, <1>4, <1>5, Limits DEF Based, Growing, PageOf, UserTop
<1>10. Sound(p)'
  BY <1>1, <1>3, <1>4, <1>8, <1>9, DoneFacts DEF Sound
<1>11. \A q \in Procs \ {p} : Same(q)
  BY <1>4, DoneFacts DEF Same, Inv, TypeOK
<1>12. call'[p] = "none"
  BY <1>4, DoneFacts
<1>13. QED BY <1>1, <1>6, <1>7, <1>10, <1>11, <1>12, OneMoves

LEMMA SbrkDownKeeps ==
  ASSUME Inv, NEW p \in Procs, SbrkDown(p) PROVE Inv'
<1>1. /\ ~panicked /\ state[p] = "user" /\ call[p] = "none" /\ fresh[p] = {}
      /\ Based(p) /\ 3 <= sz[p]
      /\ mapped[p] = Image(sz[p], stackSz[p])
      /\ sz[p] \in Int /\ stackSz[p] \in Int
  BY Running DEF SbrkDown
<1>2. PICK n \in Amounts :
        /\ n < 0 /\ sz[p] + n >= 0
        /\ mapped' = [mapped EXCEPT ![p] = @ \ (mapped[p] \cap Pages(sz[p] + n, sz[p]))]
        /\ sz' = [sz EXCEPT ![p] = IF sz[p] + n = 0 THEN @ ELSE @ + n]
  BY DEF SbrkDown
<1>3. n \in Int /\ sz[p] + n \in 0..UserTop /\ sz[p] + n <= sz[p]
  BY <1>1, <1>2, StackHeapAssumption, Limits DEF Inv, TypeOK
<1>4. UNCHANGED <<state, stackSz, call, arg, todo, fresh, child, panicked>>
  BY DEF SbrkDown, loop
<1>5. /\ mapped'[p] = mapped[p] \ Pages(sz[p] + n, sz[p])
      /\ sz'[p] = (IF sz[p] + n = 0 THEN sz[p] ELSE sz[p] + n)
  BY <1>2 DEF Inv, TypeOK
<1>6. TypeOK'
  BY <1>2, <1>3, <1>4, <1>5 DEF Inv, TypeOK, UserPages, UserTop
<1>7. Remap'
  BY <1>1, <1>4 DEF Remap
<1>8. Based(p)'
  <2>1. PageOf(stackSz[p]) \in Int
    BY <1>1, Rounding
  <2>2. sz'[p] \in Int /\ sz'[p] <= sz[p]
    BY <1>1, <1>3, <1>5
  <2>3. sz[p] <= stackSz[p] - 2 \/ stackSz[p] = UserTop - 2
    BY <1>1, <2>1, Limits DEF Based
  <2>4. sz'[p] <= stackSz[p] /\ (sz'[p] <= stackSz[p] - 2 \/ sz'[p] > UserTop - 4)
    BY <1>1, <2>2, <2>3, Limits DEF Based
  <2>5. QED BY <1>1, <1>4, <2>4 DEF Based, PageOf, UserTop
<1>9. 1 \in mapped'[p] => mapped'[p] = Image(sz'[p], stackSz[p])
  <2>1. CASE sz[p] + n = 0
    <3>1. PageUp(0) = 0 /\ PageUp(sz[p]) \in Int /\ 2 <= PageUp(sz[p])
      BY <1>1 DEF PageUp
    <3>2. 1 \in Pages(sz[p] + n, sz[p])
      BY <2>1, <3>1 DEF Pages
    <3>3. QED BY <1>5, <3>2
  <2>2. CASE sz[p] + n # 0
    <3>1. sz'[p] = sz[p] + n /\ 1 <= sz[p] + n
      BY <1>3, <1>5, <2>2
    <3>2. /\ HeapPages(sz[p] + n) \cup Pages(sz[p] + n, sz[p]) = HeapPages(sz[p])
          /\ HeapPages(sz[p] + n) \cap Pages(sz[p] + n, sz[p]) = {}
      BY <1>1, <1>3, <3>1, Joining
    <3>3. Pages(sz[p] + n, sz[p]) \cap StackPages(stackSz[p]) = {}
      BY <1>1, <1>3, Separate DEF Based
    <3>4. QED BY <1>1, <1>5, <3>1, <3>2, <3>3 DEF Image
  <2>3. QED BY <2>1, <2>2
<1>10. Image(sz[p], stackSz[p])' = Image(sz'[p], stackSz[p])
  BY <1>4 DEF Image, HeapPages, StackPages, Pages, PageOf, PageUp
<1>11. Sound(p)'
  BY <1>1, <1>4, <1>8, <1>9, <1>10 DEF Sound
<1>12. \A q \in Procs \ {p} : Same(q)
  BY <1>2, <1>4 DEF Same, Inv, TypeOK
<1>13. QED BY <1>1, <1>4, <1>6, <1>7, <1>11, <1>12, OneMoves

-----------------------------------------------------------------------------
(* The page fault. *)

LEMMA StackGrowsKeeps ==
  ASSUME Inv, NEW p \in Procs, StackGrows(p) PROVE Inv'
<1>1. Runs(p) /\ StackRoom(p)
  BY DEF StackGrows, Faults
<1>2. /\ ~panicked /\ state[p] = "user" /\ call[p] = "none" /\ fresh[p] = {}
      /\ Based(p) /\ 3 <= sz[p]
      /\ mapped[p] = Image(sz[p], stackSz[p])
      /\ sz[p] \in Int /\ stackSz[p] \in Int
  BY <1>1, Running
<1>3. sz[p] + 2 < stackSz[p] - 2
  BY <1>1 DEF StackRoom
<1>4. /\ Pages(stackSz[p] - 2, stackSz[p]) = {PageOf(stackSz[p]) - 1}
      /\ StackPages(stackSz[p] - 2) = StackPages(stackSz[p]) \cup {PageOf(stackSz[p]) - 1}
      /\ PageOf(stackSz[p] - 2) = PageOf(stackSz[p]) - 1 /\ PageOf(stackSz[p]) \in Int
      /\ PageOf(stackSz[p]) - 1 \in UserPages
  BY <1>2, PageBelow DEF Based
<1>5. /\ UNCHANGED <<state, sz, call, arg, todo, fresh, child, panicked>>
      /\ mapped' = [mapped EXCEPT ![p] = @ \cup Pages(stackSz[p] - 2, stackSz[p])]
      /\ stackSz' = [stackSz EXCEPT ![p] = @ - 2]
  BY DEF StackGrows, loop
<1>6. /\ mapped'[p] = mapped[p] \cup {PageOf(stackSz[p]) - 1}
      /\ stackSz'[p] = stackSz[p] - 2
  BY <1>4, <1>5 DEF Inv, TypeOK
<1>7. stackSz[p] - 2 \in 0..UserTop
  BY <1>2, Limits DEF Based
<1>8. TypeOK'
  BY <1>4, <1>5, <1>7 DEF Inv, TypeOK, UserPages, UserTop
<1>9. Remap'
  BY <1>2, <1>5 DEF Remap
<1>10. mapped'[p] = Image(sz[p], stackSz[p] - 2)
  BY <1>2, <1>4, <1>6 DEF Image
<1>11. Image(sz[p], stackSz[p])' = Image(sz[p], stackSz[p] - 2)
  BY <1>5, <1>6 DEF Image, HeapPages, StackPages, Pages, PageOf, PageUp
<1>12. stackSz[p] - 2 = 2 * PageOf(stackSz[p] - 2)
  BY <1>2, <1>4 DEF Based
<1>13. 4 <= stackSz[p] - 2 /\ stackSz[p] - 2 <= UserTop - 2 /\ sz[p] <= stackSz[p] - 4
  BY <1>2, <1>3, Limits DEF Based
<1>14. Based(p)'
  BY <1>2, <1>5, <1>6, <1>12, <1>13 DEF Based, PageOf, UserTop
<1>15. Sound(p)'
  BY <1>2, <1>5, <1>10, <1>11, <1>14 DEF Sound
<1>16. \A q \in Procs \ {p} : Same(q)
  BY <1>5 DEF Same, Inv, TypeOK
<1>17. QED BY <1>2, <1>5, <1>8, <1>9, <1>15, <1>16, OneMoves

LEMMA StackNoMemoryKeeps ==
  ASSUME Inv, NEW p \in Procs, StackNoMemory(p) PROVE Inv'
<1>1. Runs(p)
  BY DEF StackNoMemory, Faults
<1>2. /\ ~panicked /\ state[p] = "user" /\ call[p] = "none" /\ fresh[p] = {}
      /\ Based(p) /\ stackSz[p] \in Int
  BY <1>1, Running
<1>3. /\ UNCHANGED <<sz, mapped, call, arg, todo, fresh, child, panicked>>
      /\ stackSz' = [stackSz EXCEPT ![p] = @ - 2]
      /\ state' = [state EXCEPT ![p] = "zombie"]
  BY DEF StackNoMemory, loop
<1>4. stackSz[p] - 2 \in 0..UserTop
  BY <1>2, Limits DEF Based
<1>5. TypeOK'
  BY <1>3, <1>4 DEF Inv, TypeOK, UserPages, UserTop
<1>6. Remap'
  BY <1>2, <1>3 DEF Remap
<1>7. state'[p] = "zombie"
  BY <1>3 DEF Inv, TypeOK
<1>8. Sound(p)'
  BY <1>2, <1>3, <1>7 DEF Sound
<1>9. \A q \in Procs \ {p} : Same(q)
  BY <1>3 DEF Same, Inv, TypeOK
<1>10. QED BY <1>2, <1>3, <1>5, <1>6, <1>8, <1>9, OneMoves

-----------------------------------------------------------------------------
(* exit and wait. *)

LEMMA ExitKeeps ==
  ASSUME Inv, NEW p \in Procs, Exit(p) PROVE Inv'
<1>1. ~panicked /\ state[p] = "user" /\ call[p] = "none" /\ fresh[p] = {}
  BY DEF Exit, Inv, Sound
<1>2. /\ UNCHANGED <<sz, stackSz, mapped, call, arg, todo, fresh, child, panicked>>
      /\ state' = [state EXCEPT ![p] = "zombie"]
  BY DEF Exit, loop, space
<1>3. TypeOK'
  BY <1>2 DEF Inv, TypeOK, UserPages, UserTop
<1>4. Remap'
  BY <1>1, <1>2 DEF Remap
<1>5. state'[p] = "zombie"
  BY <1>2 DEF Inv, TypeOK
<1>6. Sound(p)'
  BY <1>1, <1>2, <1>5 DEF Sound
<1>7. \A q \in Procs \ {p} : Same(q)
  BY <1>2 DEF Same, Inv, TypeOK
<1>8. QED BY <1>1, <1>2, <1>3, <1>4, <1>6, <1>7, OneMoves

LEMMA ReapKeeps ==
  ASSUME Inv, NEW p \in Procs, Reap(p) PROVE Inv'
<1>1. ~panicked /\ state[p] = "zombie" /\ call[p] = "none" /\ fresh[p] = {}
  BY DEF Reap, Inv, Sound
<1>2. /\ UNCHANGED <<sz, stackSz, call, arg, todo, fresh, child, panicked>>
      /\ state' = [state EXCEPT ![p] = "unused"]
      /\ mapped' = [mapped EXCEPT ![p] = {}]
  BY DEF Reap, loop
<1>3. TypeOK'
  BY <1>2 DEF Inv, TypeOK, UserPages, UserTop
<1>4. Remap'
  BY <1>1, <1>2 DEF Remap
<1>5. state'[p] = "unused"
  BY <1>2 DEF Inv, TypeOK
<1>6. Sound(p)'
  BY <1>1, <1>2, <1>5 DEF Sound
<1>7. \A q \in Procs \ {p} : Same(q)
  BY <1>2 DEF Same, Inv, TypeOK
<1>8. QED BY <1>1, <1>2, <1>3, <1>4, <1>6, <1>7, OneMoves

-----------------------------------------------------------------------------
(* exec. *)

LEMMA ExecKeeps ==
  ASSUME Inv, NEW p \in Procs, Exec(p) PROVE Inv'
<1>1. /\ ~panicked /\ state[p] = "user" /\ call[p] = "none" /\ fresh[p] = {}
      /\ Based(p) /\ 3 <= sz[p] /\ 1 \in mapped[p]
      /\ mapped[p] = Image(sz[p], stackSz[p])
  BY Running DEF Exec
<1>2. PICK e \in Images :
        /\ e <= UserTop
        /\ arg'  = [arg EXCEPT ![p] = IF e < 2 THEN 2 ELSE e]
        /\ todo' = [todo EXCEPT ![p] = Pages(2, e)]
  BY DEF Exec
<1>3. e \in Int /\ 0 <= e
  BY StackHeapAssumption
<1>4. /\ (IF e < 2 THEN 2 ELSE e) \in 0..UserTop /\ 2 <= (IF e < 2 THEN 2 ELSE e)
      /\ Pages(2, e) \subseteq UserPages
  BY <1>2, <1>3, Limits, Within
<1>5. Pages(2, e) = Pages(2, IF e < 2 THEN 2 ELSE e)
  <2>1. CASE e < 2
    <3>1. PageUp(2) = 1 /\ PageUp(e) \in Int /\ PageUp(e) <= 1
      BY <1>3, <2>1 DEF PageUp
    <3>2. Pages(2, e) = {} /\ Pages(2, 2) = {}
      BY <3>1 DEF Pages
    <3>3. QED BY <2>1, <3>2
  <2>2. CASE ~(e < 2)
    BY <2>2
  <2>3. QED BY <2>1, <2>2
<1>6. /\ UNCHANGED <<state, sz, stackSz, mapped, fresh, child, panicked>>
      /\ call' = [call EXCEPT ![p] = "exec"]
  BY DEF Exec, space
<1>7. TypeOK'
  BY <1>2, <1>4, <1>6 DEF Inv, TypeOK, UserPages, UserTop
<1>8. Remap'
  BY <1>1, <1>6 DEF Remap
<1>9. call'[p] = "exec" /\ 2 <= arg'[p] /\ todo'[p] = Pages(2, arg'[p])
  BY <1>2, <1>4, <1>5, <1>6 DEF Inv, TypeOK
<1>10. Loading(p)'
  BY <1>1, <1>6, <1>9 DEF Loading, Pages, PageUp
<1>11. Image(sz[p], stackSz[p])' = Image(sz[p], stackSz[p])
  BY <1>6 DEF Image, HeapPages, StackPages, Pages, PageOf, PageUp
<1>12. Sound(p)'
  BY <1>1, <1>6, <1>9, <1>10, <1>11 DEF Sound, Based, PageOf, UserTop
<1>13. \A q \in Procs \ {p} : Same(q)
  BY <1>2, <1>6 DEF Same, Inv, TypeOK
<1>14. QED BY <1>1, <1>7, <1>8, <1>9, <1>12, <1>13, OneMoves

LEMMA ExecPageKeeps ==
  ASSUME Inv, NEW p \in Procs, ExecPage(p) PROVE Inv'
<1>1. /\ ~panicked /\ state[p] = "user" /\ call[p] = "exec"
      /\ Based(p) /\ 3 <= sz[p] /\ 1 \in mapped[p] /\ Loading(p)
      /\ mapped[p] = Image(sz[p], stackSz[p])
  BY Looping DEF ExecPage
<1>2. PICK g \in todo[p] :
        /\ todo'  = [todo EXCEPT ![p] = @ \ {g}]
        /\ fresh' = [fresh EXCEPT ![p] = @ \cup {g}]
  BY DEF ExecPage
<1>3. UNCHANGED <<state, sz, stackSz, mapped, call, arg, child, panicked>>
  BY DEF ExecPage, space
<1>4. g \in UserPages
  BY DEF Inv, TypeOK
<1>5. TypeOK'
  BY <1>2, <1>3, <1>4 DEF Inv, TypeOK, UserPages, UserTop
<1>6. Remap'
  BY <1>1, <1>3 DEF Remap
<1>7. todo'[p] = todo[p] \ {g} /\ fresh'[p] = fresh[p] \cup {g}
  BY <1>2 DEF Inv, TypeOK
<1>8. Pages(2, arg[p])' = Pages(2, arg[p])
  BY <1>3 DEF Pages, PageUp
<1>9. Loading(p)'
  BY <1>1, <1>3, <1>7, <1>8 DEF Loading
<1>10. Image(sz[p], stackSz[p])' = Image(sz[p], stackSz[p])
  BY <1>3 DEF Image, HeapPages, StackPages, Pages, PageOf, PageUp
<1>11. Sound(p)'
  BY <1>1, <1>3, <1>9, <1>10 DEF Sound, Based, PageOf, UserTop
<1>12. \A q \in Procs \ {p} : Same(q)
  BY <1>2, <1>3 DEF Same, Inv, TypeOK
<1>13. QED BY <1>1, <1>3, <1>5, <1>6, <1>11, <1>12, OneMoves

LEMMA ExecFailsKeeps ==
  ASSUME Inv, NEW p \in Procs, ExecFails(p) PROVE Inv'
<1>1. /\ ~panicked /\ state[p] = "user" /\ call[p] = "exec" /\ Based(p)
      /\ mapped[p] = Image(sz[p], stackSz[p])
  BY Looping DEF ExecFails
<1>2. UNCHANGED <<state, sz, stackSz, mapped, panicked>> /\ Done(p)
  BY DEF ExecFails, space
<1>3. TypeOK'
  BY <1>2, DoneFacts DEF Inv, TypeOK, UserPages, UserTop
<1>4. Remap'
  BY <1>1, <1>2 DEF Remap
<1>5. Image(sz[p], stackSz[p])' = Image(sz[p], stackSz[p])
  BY <1>2 DEF Image, HeapPages, StackPages, Pages, PageOf, PageUp
<1>6. call'[p] = "none" /\ fresh'[p] = {}
  BY <1>2, DoneFacts
<1>7. Sound(p)'
  BY <1>1, <1>2, <1>5, <1>6 DEF Sound, Based, PageOf, UserTop
<1>8. \A q \in Procs \ {p} : Same(q)
  BY <1>2, DoneFacts DEF Same
<1>9. QED BY <1>1, <1>3, <1>4, <1>6, <1>7, <1>8, OneMoves

\* mappages panics on the page of the stack only if the program has it.
LEMMA ExecPanicsKeeps ==
  ASSUME Inv, NEW p \in Procs, ExecPanics(p) PROVE Inv'
<1>1. /\ state[p] = "user" /\ call[p] = "exec" /\ Loading(p)
      /\ arg[p] \in Int
  BY Looping DEF ExecPanics
<1>2. UNCHANGED <<state, sz, stackSz, mapped, call, arg, todo, fresh, child>> /\ panicked' = TRUE
  BY DEF ExecPanics, loop, space
<1>3. Top - 1 \in Pages(2, arg[p])
  BY <1>1 DEF ExecPanics, Loading
<1>4. PageUp(arg[p]) \in Int /\ PageUp(2) = 1 /\ 2 * PageUp(arg[p]) <= arg[p] + 1
  BY <1>1, Rounding DEF PageUp
<1>5. Top <= PageUp(arg[p])
  BY <1>3, <1>4, Limits DEF Pages
<1>6. arg[p] > UserTop - 2
  BY <1>1, <1>4, <1>5, Limits
<1>7. Remap'
  BY <1>1, <1>2, <1>6 DEF Remap, UserTop
<1>8. TypeOK'
  BY <1>2 DEF Inv, TypeOK, UserPages, UserTop
<1>9. \A q \in Procs : Same(q)
  BY <1>2 DEF Same
<1>10. Sound(p)'
  BY <1>2, <1>9, SameIsSound DEF Inv
<1>11. QED BY <1>1, <1>2, <1>7, <1>8, <1>9, <1>10, OneMoves

LEMMA ExecDoneKeeps ==
  ASSUME Inv, NEW p \in Procs, ExecDone(p) PROVE Inv'
<1>1. /\ ~panicked /\ state[p] = "user" /\ call[p] = "exec" /\ Loading(p)
      /\ arg[p] \in Int /\ arg[p] <= UserTop
  BY Looping DEF ExecDone
<1>2. /\ UNCHANGED <<state, panicked>> /\ Done(p)
      /\ mapped'  = [mapped EXCEPT ![p] = fresh[p] \cup {Top - 1}]
      /\ sz'      = [sz EXCEPT ![p] = arg[p]]
      /\ stackSz' = [stackSz EXCEPT ![p] = UserTop - 2]
  BY DEF ExecDone
<1>3. fresh[p] = HeapPages(arg[p]) /\ Top - 1 \notin HeapPages(arg[p])
  BY <1>1 DEF ExecDone, Loading, HeapPages
<1>4. PageUp(arg[p]) \in Int /\ PageUp(2) = 1 /\ arg[p] <= 2 * PageUp(arg[p])
  BY <1>1, Rounding DEF PageUp
<1>5. PageUp(arg[p]) <= Top - 1
  BY <1>3, <1>4, Limits DEF HeapPages, Pages
<1>6. arg[p] <= UserTop - 2 /\ 0 <= arg[p]
  BY <1>1, <1>4, <1>5, Limits DEF Loading
<1>7. PageOf(UserTop - 2) = Top - 1
  BY Limits DEF PageOf
<1>8. /\ mapped'[p] = Image(arg[p], UserTop - 2)
      /\ sz'[p] = arg[p] /\ stackSz'[p] = UserTop - 2
  BY <1>2, <1>3, <1>7, Limits DEF Inv, TypeOK, Image, StackPages
<1>9. fresh[p] \cup {Top - 1} \subseteq UserPages
  BY Limits DEF Inv, TypeOK
<1>10. TypeOK'
  BY <1>1, <1>2, <1>6, <1>9, DoneFacts, Limits DEF Inv, TypeOK, UserPages, UserTop
<1>11. Remap'
  BY <1>1, <1>2 DEF Remap
<1>12. Image(sz[p], stackSz[p])' = Image(arg[p], UserTop - 2)
  BY <1>8 DEF Image, HeapPages, StackPages, Pages, PageOf, PageUp
<1>13. UserTop - 2 = 2 * PageOf(UserTop - 2) /\ 4 <= UserTop - 2
  BY <1>7, Limits
<1>14. Based(p)'
  <2>1. arg[p] <= (UserTop - 2) - 2 \/ arg[p] > UserTop - 4
    BY <1>1, Limits
  <2>2. UserTop' = UserTop /\ PageOf(stackSz[p])' = PageOf(UserTop - 2)
    BY <1>8 DEF UserTop, PageOf
  <2>3. UserTop - 2 <= UserTop - 2
    BY Limits
  <2>4. QED BY <1>6, <1>8, <1>13, <2>1, <2>2, <2>3 DEF Based
<1>15. call'[p] = "none" /\ fresh'[p] = {}
  BY <1>2, DoneFacts
<1>16. Sound(p)'
  BY <1>1, <1>2, <1>8, <1>12, <1>14, <1>15 DEF Sound
<1>17. \A q \in Procs \ {p} : Same(q)
  BY <1>2, DoneFacts DEF Same, Inv, TypeOK
<1>18. QED BY <1>1, <1>10, <1>11, <1>15, <1>16, <1>17, OneMoves

-----------------------------------------------------------------------------
(* fork. *)

\* A slot that is being filled has no call of its own.
LEMMA Unborn ==
  ASSUME Inv, NEW q \in Procs, state[q] # "user"
  PROVE  call[q] = "none" /\ fresh[q] = {}
  BY DEF Inv, Sound

LEMMA ForkKeeps ==
  ASSUME Inv, NEW p \in Procs, Fork(p) PROVE Inv'
<1>1. /\ ~panicked /\ state[p] = "user" /\ call[p] = "none" /\ fresh[p] = {}
      /\ Based(p) /\ 3 <= sz[p] /\ 1 \in mapped[p]
      /\ mapped[p] = Image(sz[p], stackSz[p])
      /\ sz[p] \in Int /\ stackSz[p] \in Int
  BY Running DEF Fork
<1>2. PICK c \in Procs :
        /\ state[c] = "unused"
        /\ state' = [state EXCEPT ![c] = "embryo"]
        /\ child' = [child EXCEPT ![p] = c]
  BY DEF Fork
<1>3. /\ UNCHANGED <<sz, stackSz, mapped, arg, fresh, panicked>>
      /\ call' = [call EXCEPT ![p] = "fork"]
      /\ todo' = [todo EXCEPT ![p] = Image(sz[p], stackSz[p])]
  BY DEF Fork, space, Image
<1>4. Image(sz[p], stackSz[p]) \subseteq UserPages
  BY <1>1 DEF Inv, TypeOK
<1>5. TypeOK'
  BY <1>2, <1>3, <1>4 DEF Inv, TypeOK, UserPages, UserTop
<1>6. Remap'
  BY <1>1, <1>3 DEF Remap
<1>7. c # p
  BY <1>1, <1>2
<1>8. /\ state'[c] = "embryo" /\ state'[p] = "user" /\ child'[p] = c
      /\ call'[p] = "fork" /\ todo'[p] = Image(sz[p], stackSz[p])
  BY <1>1, <1>2, <1>3, <1>7 DEF Inv, TypeOK
<1>9. Image(sz[p], stackSz[p])' = Image(sz[p], stackSz[p])
  BY <1>3 DEF Image, HeapPages, StackPages, Pages, PageOf, PageUp
<1>10. Copying(p)'
  BY <1>1, <1>3, <1>8, <1>9 DEF Copying
<1>11. Sound(p)'
  BY <1>1, <1>3, <1>8, <1>9, <1>10 DEF Sound, Based, PageOf, UserTop
<1>12. Sound(c)'
  <2>1. call'[c] = "none" /\ fresh'[c] = {}
    BY <1>2, <1>3, <1>7, Unborn DEF Inv, TypeOK
  <2>2. QED BY <1>8, <2>1 DEF Sound
<1>13. ASSUME NEW q \in Procs, call[q] = "fork" PROVE child[q] # c /\ child[q] \in Procs
  BY <1>2, <1>13 DEF Inv, TypeOK, Sound, Copying
<1>14. ASSUME NEW q \in Procs \ {p, c} PROVE Sound(q)'
  <2>1. Same(q)
    BY <1>2, <1>3 DEF Same, Inv, TypeOK
  <2>2. call[q] = "fork" => state'[child[q]] = state[child[q]]
    BY <1>2, <1>13 DEF Inv, TypeOK
  <2>3. QED BY <2>1, <2>2, SameIsSound DEF Inv
<1>15. Apart'
  <2>1. ASSUME NEW q \in Procs \ {p}, call'[q] = "fork"
        PROVE  call[q] = "fork" /\ child'[q] = child[q] /\ child[q] # c
    BY <1>2, <1>3, <1>13, <2>1 DEF Inv, TypeOK
  <2>2. QED BY <1>8, <2>1 DEF Apart, Inv
<1>16. QED BY <1>5, <1>6, <1>11, <1>12, <1>14, <1>15 DEF Inv

LEMMA ForkPageKeeps ==
  ASSUME Inv, NEW p \in Procs, ForkPage(p) PROVE Inv'
<1>1. /\ ~panicked /\ state[p] = "user" /\ call[p] = "fork"
      /\ Based(p) /\ 3 <= sz[p] /\ 1 \in mapped[p] /\ Copying(p)
      /\ mapped[p] = Image(sz[p], stackSz[p])
  BY Looping DEF ForkPage
<1>2. PICK g \in todo[p] :
        /\ panicked' = (g \notin mapped[p])
        /\ todo'  = [todo EXCEPT ![p] = @ \ {g}]
        /\ fresh' = [fresh EXCEPT ![p] = IF g \in mapped[p] THEN @ \cup {g} ELSE @]
  BY DEF ForkPage
<1>3. g \in mapped[p]
  BY <1>1 DEF Copying
<1>4. UNCHANGED <<state, sz, stackSz, mapped, call, arg, child>> /\ panicked' = FALSE
  <2>1. (g \notin mapped[p]) = FALSE
    BY <1>3
  <2>2. panicked' = (g \notin mapped[p])
    BY <1>2
  <2>3. panicked' = FALSE
    BY <2>1, <2>2, Zenon
  <2>4. QED BY <2>3 DEF ForkPage, space
<1>5. g \in UserPages
  BY DEF Inv, TypeOK
<1>6. TypeOK'
  BY <1>2, <1>4, <1>5 DEF Inv, TypeOK, UserPages, UserTop
<1>7. Remap'
  BY <1>4 DEF Remap
<1>8. todo'[p] = todo[p] \ {g} /\ fresh'[p] = fresh[p] \cup {g}
  BY <1>2, <1>3 DEF Inv, TypeOK
<1>9. Image(sz[p], stackSz[p])' = Image(sz[p], stackSz[p])
  BY <1>4 DEF Image, HeapPages, StackPages, Pages, PageOf, PageUp
<1>10. Copying(p)'
  BY <1>1, <1>3, <1>4, <1>8, <1>9 DEF Copying
<1>11. Sound(p)'
  BY <1>1, <1>4, <1>9, <1>10 DEF Sound, Based, PageOf, UserTop
<1>12. \A q \in Procs \ {p} : Same(q)
  BY <1>2, <1>4 DEF Same, Inv, TypeOK
<1>13. QED BY <1>1, <1>4, <1>6, <1>7, <1>11, <1>12, OneMoves

LEMMA ForkNoMemoryKeeps ==
  ASSUME Inv, NEW p \in Procs, ForkNoMemory(p) PROVE Inv'
<1>1. /\ ~panicked /\ state[p] = "user" /\ call[p] = "fork" /\ Based(p) /\ Copying(p)
      /\ mapped[p] = Image(sz[p], stackSz[p])
  BY Looping DEF ForkNoMemory
<1>2. /\ UNCHANGED <<sz, stackSz, mapped, panicked>> /\ Done(p)
      /\ state' = [state EXCEPT ![child[p]] = "unused"]
  BY DEF ForkNoMemory, space
<1>3. child[p] \in Procs /\ child[p] # p
  BY <1>1 DEF Inv, TypeOK, Copying
<1>4. state'[p] = "user" /\ state'[child[p]] = "unused"
  BY <1>1, <1>2, <1>3 DEF Inv, TypeOK
<1>5. TypeOK'
  BY <1>2, DoneFacts DEF Inv, TypeOK, UserPages, UserTop
<1>6. Remap'
  BY <1>1, <1>2 DEF Remap
<1>7. Image(sz[p], stackSz[p])' = Image(sz[p], stackSz[p])
  BY <1>2 DEF Image, HeapPages, StackPages, Pages, PageOf, PageUp
<1>8. /\ call'[p] = "none" /\ fresh'[p] = {}
      /\ \A q \in Procs \ {p} : /\ call'[q] = call[q] /\ arg'[q] = arg[q]
                                /\ todo'[q] = todo[q] /\ fresh'[q] = fresh[q]
                                /\ child'[q] = child[q]
  BY <1>2, DoneFacts
<1>9. Sound(p)'
  BY <1>1, <1>2, <1>4, <1>7, <1>8 DEF Sound, Based, PageOf, UserTop
<1>10. Sound(child[p])
  BY <1>3 DEF Inv
<1>11. ASSUME NEW c \in Procs, c = child[p] PROVE Sound(c)'
  <2>1. call'[c] = "none" /\ fresh'[c] = {} /\ state'[c] = "unused"
    BY <1>1, <1>3, <1>4, <1>8, <1>11, Unborn DEF Copying
  <2>2. QED BY <2>1 DEF Sound
<1>12. ASSUME NEW q \in Procs \ {p, child[p]} PROVE Sound(q)'
  <2>1. Same(q)
    BY <1>2, <1>3, <1>8 DEF Same, Inv, TypeOK
  <2>2. call[q] = "fork" => child[q] # child[p] /\ child[q] \in Procs
    BY <1>1 DEF Inv, Apart, TypeOK
  <2>3. call[q] = "fork" => state'[child[q]] = state[child[q]]
    BY <1>2, <1>3, <2>2 DEF Inv, TypeOK
  <2>4. QED BY <2>1, <2>3, SameIsSound DEF Inv
<1>13. Apart'
  BY <1>8 DEF Apart, Inv
<1>14. QED BY <1>5, <1>6, <1>9, <1>11, <1>12, <1>13 DEF Inv

LEMMA ForkDoneKeeps ==
  ASSUME Inv, NEW p \in Procs, ForkDone(p) PROVE Inv'
<1>1. /\ ~panicked /\ state[p] = "user" /\ call[p] = "fork" /\ Based(p) /\ Copying(p)
      /\ mapped[p] = Image(sz[p], stackSz[p])
  BY Looping DEF ForkDone
<1>2. /\ UNCHANGED panicked /\ Done(p)
      /\ state'   = [state EXCEPT ![child[p]] = "user"]
      /\ mapped'  = [mapped EXCEPT ![child[p]] = fresh[p]]
      /\ sz'      = [sz EXCEPT ![child[p]] = sz[p]]
      /\ stackSz' = [stackSz EXCEPT ![child[p]] = stackSz[p]]
  BY DEF ForkDone
<1>3. child[p] \in Procs /\ child[p] # p
  BY <1>1 DEF Inv, TypeOK, Copying
<1>4. fresh[p] = Image(sz[p], stackSz[p])
  BY <1>1 DEF ForkDone, Copying
<1>5. /\ state'[p] = "user" /\ mapped'[p] = mapped[p]
      /\ sz'[p] = sz[p] /\ stackSz'[p] = stackSz[p]
  BY <1>1, <1>2, <1>3 DEF Inv, TypeOK
<1>6. /\ state'[child[p]] = "user" /\ mapped'[child[p]] = fresh[p]
      /\ sz'[child[p]] = sz[p] /\ stackSz'[child[p]] = stackSz[p]
  BY <1>2, <1>3 DEF Inv, TypeOK
<1>7. /\ call'[p] = "none" /\ fresh'[p] = {}
      /\ \A q \in Procs \ {p} : /\ call'[q] = call[q] /\ arg'[q] = arg[q]
                                /\ todo'[q] = todo[q] /\ fresh'[q] = fresh[q]
                                /\ child'[q] = child[q]
  BY <1>2, DoneFacts
<1>8. TypeOK'
  BY <1>2, DoneFacts DEF Inv, TypeOK, UserPages, UserTop
<1>9. Remap'
  BY <1>1, <1>2 DEF Remap
<1>10. Image(sz[p], stackSz[p])' = Image(sz[p], stackSz[p])
  BY <1>5 DEF Image, HeapPages, StackPages, Pages, PageOf, PageUp
<1>11. Sound(p)'
  BY <1>1, <1>5, <1>7, <1>10 DEF Sound, Based, PageOf, UserTop
<1>12. ASSUME NEW c \in Procs, c = child[p] PROVE Sound(c)'
  <2>1. call'[c] = "none"
    BY <1>1, <1>3, <1>7, <1>12, Unborn DEF Copying
  <2>2. fresh'[c] = {}
    BY <1>1, <1>3, <1>7, <1>12, Unborn DEF Copying
  <2>3. Based(c)'
    BY <1>1, <1>6, <1>12 DEF Based, PageOf, UserTop
  <2>4. Image(sz[c], stackSz[c])' = Image(sz[p], stackSz[p])
    BY <1>6, <1>12 DEF Image, HeapPages, StackPages, Pages, PageOf, PageUp
  <2>5. QED BY <1>4, <1>6, <1>12, <2>1, <2>2, <2>3, <2>4 DEF Sound
<1>13. ASSUME NEW q \in Procs \ {p, child[p]} PROVE Sound(q)'
  <2>1. Same(q)
    BY <1>2, <1>3, <1>7 DEF Same, Inv, TypeOK
  <2>2. call[q] = "fork" => child[q] # child[p] /\ child[q] \in Procs
    BY <1>1 DEF Inv, Apart, TypeOK
  <2>3. call[q] = "fork" => state'[child[q]] = state[child[q]]
    BY <1>2, <1>3, <2>2 DEF Inv, TypeOK
  <2>4. QED BY <2>1, <2>3, SameIsSound DEF Inv
<1>14. Apart'
  BY <1>7 DEF Apart, Inv
<1>15. QED BY <1>8, <1>9, <1>11, <1>12, <1>13, <1>14 DEF Inv

-----------------------------------------------------------------------------
(* The theorems. *)

LEMMA NextKeeps == Inv /\ [Next]_vars => Inv'
<1> SUFFICES ASSUME Inv, [Next]_vars PROVE Inv'
  OBVIOUS
<1>1. CASE UNCHANGED vars
  <2>1. UNCHANGED <<state, sz, stackSz, mapped, call, arg, todo, fresh, child, panicked>>
    BY <1>1 DEF vars
  <2>2. TypeOK' /\ Apart' /\ Remap'
    BY <2>1 DEF Inv, TypeOK, Apart, Remap, UserPages, UserTop
  <2>3. ASSUME NEW q \in Procs PROVE Sound(q)'
    <3>1. Same(q) /\ state' = state
      BY <2>1 DEF Same
    <3>2. QED BY <3>1, SameIsSound DEF Inv
  <2>4. QED BY <2>2, <2>3 DEF Inv
<1>2. CASE Next
  <2>1. PICK p \in Procs :
          \/ SbrkUp(p) \/ SbrkPage(p) \/ SbrkNoMemory(p) \/ SbrkDone(p) \/ SbrkDown(p)
          \/ StackGrows(p) \/ StackNoMemory(p)
          \/ Fork(p) \/ ForkPage(p) \/ ForkNoMemory(p) \/ ForkDone(p)
          \/ Exec(p) \/ ExecPage(p) \/ ExecFails(p) \/ ExecPanics(p) \/ ExecDone(p)
          \/ Exit(p) \/ Reap(p)
    BY <1>2 DEF Next
  <2>2. CASE SbrkUp(p) \/ SbrkPage(p) \/ SbrkNoMemory(p) \/ SbrkDone(p) \/ SbrkDown(p)
    BY <2>2, SbrkUpKeeps, SbrkPageKeeps, SbrkNoMemoryKeeps, SbrkDoneKeeps, SbrkDownKeeps
  <2>3. CASE StackGrows(p) \/ StackNoMemory(p)
    BY <2>3, StackGrowsKeeps, StackNoMemoryKeeps
  <2>4. CASE Fork(p) \/ ForkPage(p) \/ ForkNoMemory(p) \/ ForkDone(p)
    BY <2>4, ForkKeeps, ForkPageKeeps, ForkNoMemoryKeeps, ForkDoneKeeps
  <2>5. CASE Exec(p) \/ ExecPage(p) \/ ExecFails(p) \/ ExecPanics(p) \/ ExecDone(p)
    BY <2>5, ExecKeeps, ExecPageKeeps, ExecFailsKeeps, ExecPanicsKeeps, ExecDoneKeeps
  <2>6. CASE Exit(p) \/ Reap(p)
    BY <2>6, ExitKeeps, ReapKeeps
  <2>7. QED BY <2>1, <2>2, <2>3, <2>4, <2>5, <2>6
<1>3. QED BY <1>1, <1>2

LEMMA Invariance == Spec => []Inv
  BY Starts, NextKeeps, PTL DEF Spec

\* Every step keeps sizes, pages and calls in their ranges.
THEOREM TypeCorrect == Spec => []TypeOK
<1>1. Inv => TypeOK
  BY DEF Inv
<1>2. QED BY <1>1, Invariance, PTL

\* sz and stackSz say what is mapped while a process executes user code, heap
\* and stack do not meet, copyuvm never misses a page, and mappages meets a
\* mapped one only when exec loads a program that has the page of the stack.
THEOREM LayoutIsSound == Spec => []LayoutSound
<1>1. Inv => LayoutSound
  <2> SUFFICES ASSUME Inv PROVE LayoutSound
    OBVIOUS
  <2>1. ASSUME NEW p \in Procs, Runs(p)
        PROVE  /\ mapped[p] = HeapPages(sz[p]) \cup StackPages(stackSz[p])
               /\ PageUp(sz[p]) <= PageOf(stackSz[p])
    <3>1. /\ Based(p) /\ mapped[p] = Image(sz[p], stackSz[p])
          /\ sz[p] \in Int /\ stackSz[p] \in Int /\ PageOf(stackSz[p]) \in Int
      BY <2>1, Running
    <3>2. PageUp(sz[p]) \in Int /\ 2 * PageUp(sz[p]) <= sz[p] + 1
      BY <3>1, Rounding
    <3>3. QED BY <3>1, <3>2 DEF Based, Image
  <2>2. QED BY <2>1 DEF LayoutSound, Inv, Remap
<1>2. QED BY <1>1, Invariance, PTL

\* The page below the stack stays unmapped whichever of heap and stack grows,
\* unless the program itself reaches that far.
THEOREM GuardStays == Spec => []GuardPage
<1>1. Inv => GuardPage
  <2> SUFFICES ASSUME Inv, NEW p \in Procs, Runs(p), sz[p] <= UserTop - 4
               PROVE  PageOf(stackSz[p]) - 1 \notin mapped[p]
    BY DEF GuardPage
  <2>1. /\ Based(p) /\ mapped[p] = Image(sz[p], stackSz[p])
        /\ sz[p] \in Int /\ stackSz[p] \in Int /\ PageOf(stackSz[p]) \in Int
    BY Running
  <2>2. PageUp(sz[p]) \in Int /\ 2 * PageUp(sz[p]) <= sz[p] + 1
    BY <2>1, Rounding
  <2>3. sz[p] <= stackSz[p] - 2
    BY <2>1, Limits DEF Based
  <2>4. PageUp(sz[p]) <= PageOf(stackSz[p]) - 1
    BY <2>1, <2>2, <2>3 DEF Based
  <2>5. PageUp(2) = 1
    BY DEF PageUp
  <2>6. QED BY <2>1, <2>2, <2>4, <2>5, Limits DEF Image, HeapPages, StackPages, Pages
<1>2. QED BY <1>1, Invariance, PTL

\* Sums with an address of the user do not wrap unless the size is negative.
LEMMA NoWrap ==
  ASSUME NEW a \in 0..UserTop, NEW n \in 0..(UInt \div 2 - 1) PROVE Sum(a, n) = a + n
<1>1. UInt \in Nat /\ 2 * UserTop <= UInt /\ UserTop \in Nat
  BY StackHeapAssumption DEF UserTop
<1>2. a + n \in 0..(UInt - 1)
  BY <1>1
<1>3. QED BY <1>1, <1>2 DEF Sum

\* The arguments of a system call that pass their tests lie in mapped pages.
THEOREM ArgumentsAreMapped == Spec => []ArgsAreMapped
<1>1. Inv => ArgsAreMapped
  <2> SUFFICES ASSUME Inv, NEW p \in Procs, Runs(p), NEW a \in Addresses
               PROVE  /\ FetchInt(p, a) => PageOf(a) \in mapped[p]
                      /\ \A n \in 0..(UInt \div 2 - 1) :
                           ArgPtr(p, a, n) => \A b \in a..(a + n - 1) : PageOf(b) \in mapped[p]
                      /\ FetchStr(p, a)
                           => \A b \in a..(RegionEnd(p, a) - 1) : PageOf(b) \in mapped[p]
    BY DEF ArgsAreMapped
  <2>1. /\ Based(p) /\ mapped[p] = Image(sz[p], stackSz[p])
        /\ sz[p] \in 0..UserTop /\ stackSz[p] \in 0..UserTop /\ PageOf(stackSz[p]) \in Int
    BY Running DEF Inv, TypeOK
  <2>2. a \in Int /\ UserTop \in Int /\ UInt \in Int /\ UInt \div 2 - 1 \in Int /\ 1 <= UInt \div 2 - 1
    BY Limits, StackHeapAssumption DEF Addresses, UserTop
  <2>3. ASSUME 2 <= a, a < sz[p], NEW b \in a..(sz[p] - 1) PROVE PageOf(b) \in mapped[p]
    <3>1. b \in Int /\ 2 <= b /\ b <= sz[p] - 1
      BY <2>1, <2>2, <2>3
    <3>2. PageOf(b) \in Int /\ 2 * PageOf(b) <= b /\ b <= 2 * PageOf(b) + 1
      BY <3>1, Rounding
    <3>3. PageUp(sz[p]) \in Int /\ sz[p] <= 2 * PageUp(sz[p]) /\ PageUp(2) = 1
      BY <2>1, Rounding DEF PageUp
    <3>4. 1 <= PageOf(b) /\ PageOf(b) <= PageUp(sz[p]) - 1
      BY <2>1, <3>1, <3>2, <3>3
    <3>5. QED BY <2>1, <3>2, <3>3, <3>4 DEF Image, HeapPages, Pages
  <2>4. ASSUME stackSz[p] <= a, NEW b \in a..(UserTop - 1) PROVE PageOf(b) \in mapped[p]
    <3>1. b \in Int /\ stackSz[p] <= b /\ b <= UserTop - 1
      BY <2>1, <2>2, <2>4
    <3>2. PageOf(b) \in Int /\ 2 * PageOf(b) <= b /\ b <= 2 * PageOf(b) + 1
      BY <3>1, Rounding
    <3>3. PageOf(stackSz[p]) <= PageOf(b) /\ PageOf(b) <= Top - 1
      BY <2>1, <3>1, <3>2, Limits DEF Based
    <3>4. QED BY <2>1, <3>2, <3>3, Limits DEF Image, StackPages
  <2>5. FetchInt(p, a) => PageOf(a) \in mapped[p]
    <3>1. a \in a..(sz[p] - 1) \/ ~(a < sz[p])
      BY <2>1, <2>2
    <3>2. a \in a..(UserTop - 1) \/ ~(a < UserTop)
      BY <2>2
    <3>3. QED BY <2>3, <2>4, <3>1, <3>2 DEF FetchInt
  <2>6. ASSUME NEW n \in 0..(UInt \div 2 - 1), ArgPtr(p, a, n), NEW b \in a..(a + n - 1)
        PROVE  PageOf(b) \in mapped[p]
    <3>1. a \in 0..UserTop
      BY <2>1, <2>2, <2>6 DEF ArgPtr
    <3>2. Sum(a, n) = a + n
      BY <3>1, NoWrap
    <3>3. CASE a < sz[p] /\ a + n <= sz[p]
      <4>1. b \in a..(sz[p] - 1)
        BY <2>1, <2>2, <3>3
      <4>2. QED BY <2>3, <2>6, <3>3, <4>1 DEF ArgPtr
    <3>4. CASE a >= stackSz[p] /\ a + n <= UserTop
      <4>1. b \in a..(UserTop - 1)
        BY <2>1, <2>2, <3>4
      <4>2. stackSz[p] <= a
        BY <2>1, <2>2, <3>4
      <4>3. QED BY <2>4, <4>1, <4>2
    <3>5. QED BY <2>6, <3>2, <3>3, <3>4 DEF ArgPtr
  <2>7. ASSUME FetchStr(p, a), NEW b \in a..(RegionEnd(p, a) - 1) PROVE PageOf(b) \in mapped[p]
    <3>1. CASE a < sz[p]
      BY <2>3, <2>7, <3>1 DEF FetchStr, RegionEnd
    <3>2. CASE ~(a < sz[p])
      <4>1. stackSz[p] <= a /\ b \in a..(UserTop - 1)
        BY <2>1, <2>2, <2>7, <3>2 DEF FetchStr, RegionEnd
      <4>2. QED BY <2>4, <4>1
    <3>3. QED BY <3>1, <3>2
  <2>8. QED BY <2>5, <2>6, <2>7
<1>2. QED BY <1>1, Invariance, PTL

-----------------------------------------------------------------------------
(* Where the pages are. *)

\* What kalloc has and what the page tables map is all there is; a slot that
\* wait has given back, or that fork is still filling, maps nothing.
Balanced ==
  /\ free \in Nat
  /\ free + Cardinality(Entries(mapped)) + Cardinality(Entries(fresh)) = Memory

Conserved == ~panicked =>
  Balanced /\ \A q \in Procs : state[q] \in {"unused", "embryo"} => mapped[q] = {}

\* A set of pages is finite, and so are the entries of all the tables.
LEMMA Finite ==
  /\ \A S \in SUBSET UserPages : IsFiniteSet(S) /\ Cardinality(S) \in Nat
  /\ \A table : IsFiniteSet(Entries(table)) /\ Cardinality(Entries(table)) \in Nat
<1>1. IsFiniteSet(UserPages) /\ IsFiniteSet(Procs)
  BY Limits, FS_Interval, StackHeapAssumption
<1>2. IsFiniteSet(Procs \X UserPages)
  BY <1>1, FS_Product
<1>3. ASSUME NEW S \in SUBSET UserPages PROVE IsFiniteSet(S) /\ Cardinality(S) \in Nat
  BY <1>1, FS_Subset, FS_CardinalityType
<1>4. ASSUME NEW table PROVE IsFiniteSet(Entries(table)) /\ Cardinality(Entries(table)) \in Nat
  <2>1. Entries(table) \in SUBSET (Procs \X UserPages)
    BY DEF Entries
  <2>2. QED BY <1>2, <2>1, FS_Subset, FS_CardinalityType
<1>5. QED BY <1>3, <1>4

\* A new page table for p changes the number of entries by the difference.
LEMMA TableChange ==
  ASSUME NEW table \in [Procs -> SUBSET UserPages], NEW p \in Procs,
         NEW S \in SUBSET UserPages
  PROVE  Cardinality(Entries([table EXCEPT ![p] = S]))
           = Cardinality(Entries(table)) - Cardinality(table[p]) + Cardinality(S)
<1> DEFINE old == Entries(table)
           rest == old \ ({p} \X table[p])
<1>1. table[p] \in SUBSET UserPages
  OBVIOUS
<1>2. \A R \in SUBSET UserPages :
        IsFiniteSet({p} \X R) /\ Cardinality({p} \X R) = Cardinality(R)
  <2> SUFFICES ASSUME NEW R \in SUBSET UserPages
               PROVE  IsFiniteSet({p} \X R) /\ Cardinality({p} \X R) = Cardinality(R)
    OBVIOUS
  <2>1. IsFiniteSet({p}) /\ Cardinality({p}) = 1 /\ IsFiniteSet(R) /\ Cardinality(R) \in Nat
    BY Finite, FS_Singleton
  <2>2. IsFiniteSet({p} \X R) /\ Cardinality({p} \X R) = Cardinality({p}) * Cardinality(R)
    BY <2>1, FS_Product
  <2>3. QED BY <2>1, <2>2
<1>3. old \cap ({p} \X table[p]) = {p} \X table[p]
  BY <1>1 DEF Entries
<1>4. IsFiniteSet(rest) /\ Cardinality(rest) = Cardinality(old) - Cardinality(table[p])
  <2>1. IsFiniteSet(old)
    BY Finite
  <2>2. /\ IsFiniteSet(old \ ({p} \X table[p]))
        /\ Cardinality(old \ ({p} \X table[p]))
             = Cardinality(old) - Cardinality(old \cap ({p} \X table[p]))
    <3> HIDE DEF old
    <3>1. QED BY <2>1, FS_Difference
  <2>3. Cardinality({p} \X table[p]) = Cardinality(table[p])
    BY <1>1, <1>2
  <2>4. QED BY <1>3, <2>2, <2>3
<1>5. rest \cap ({p} \X S) = {}
  BY DEF Entries
<1>6. Entries([table EXCEPT ![p] = S]) = rest \cup ({p} \X S)
  BY <1>1 DEF Entries
<1>7. Cardinality(rest \cup ({p} \X S)) = Cardinality(rest) + Cardinality({p} \X S) - Cardinality({})
  <2> HIDE DEF rest
  <2>1. QED BY <1>2, <1>4, <1>5, FS_Union
<1>8. /\ Cardinality(old) \in Nat /\ Cardinality(table[p]) \in Nat /\ Cardinality(S) \in Nat
      /\ Cardinality({p} \X S) = Cardinality(S) /\ Cardinality({}) = 0
  BY <1>1, <1>2, Finite, FS_EmptySet
<1>9. Cardinality(Entries([table EXCEPT ![p] = S])) = Cardinality(rest) + Cardinality({p} \X S) - Cardinality({})
  BY <1>6, <1>7
<1>10. Cardinality(Entries([table EXCEPT ![p] = S])) = Cardinality(old) - Cardinality(table[p]) + Cardinality(S)
  <2> HIDE DEF old, rest
  <2>1. QED BY <1>4, <1>8, <1>9
<1>11. QED BY <1>10

\* A step that trades pages between kalloc and the tables of p keeps the balance.
LEMMA Trade ==
  ASSUME TypeOK, Balanced, NEW p \in Procs,
         NEW S \in SUBSET UserPages, NEW T \in SUBSET UserPages, free' \in Nat,
         mapped' = [mapped EXCEPT ![p] = S], fresh' = [fresh EXCEPT ![p] = T],
         free' + Cardinality(S) + Cardinality(T)
           = free + Cardinality(mapped[p]) + Cardinality(fresh[p])
  PROVE  Balanced'
<1>1. /\ mapped \in [Procs -> SUBSET UserPages] /\ fresh \in [Procs -> SUBSET UserPages]
  BY DEF TypeOK
<1>2. Cardinality(Entries(mapped')) = Cardinality(Entries(mapped)) - Cardinality(mapped[p]) + Cardinality(S)
  BY <1>1, TableChange
<1>3. Cardinality(Entries(fresh')) = Cardinality(Entries(fresh)) - Cardinality(fresh[p]) + Cardinality(T)
  BY <1>1, TableChange
<1>4. /\ Cardinality(mapped[p]) \in Nat /\ Cardinality(fresh[p]) \in Nat
      /\ Cardinality(S) \in Nat /\ Cardinality(T) \in Nat
      /\ Cardinality(Entries(mapped)) \in Nat /\ Cardinality(Entries(fresh)) \in Nat
  BY <1>1, Finite
<1>5. /\ Cardinality(Entries(mapped))' = Cardinality(Entries(mapped'))
      /\ Cardinality(Entries(fresh))' = Cardinality(Entries(fresh'))
  BY DEF Entries, UserPages
<1>6. QED BY <1>2, <1>3, <1>4, <1>5, StackHeapAssumption DEF Balanced

\* Nor does it make a slot without a process map anything.
LEMMA Keeping ==
  ASSUME Inv, Conserved, ~panicked, NEW p \in Procs,
         NEW S \in SUBSET UserPages, NEW T \in SUBSET UserPages, free' \in Nat,
         mapped' = [mapped EXCEPT ![p] = S], fresh' = [fresh EXCEPT ![p] = T],
         free' + Cardinality(S) + Cardinality(T)
           = free + Cardinality(mapped[p]) + Cardinality(fresh[p]),
         \A q \in Procs : state'[q] \in {"unused", "embryo"} =>
           IF q = p THEN S = {} ELSE state[q] \in {"unused", "embryo"}
  PROVE  Conserved'
<1>1. TypeOK /\ Balanced
  BY DEF Inv, Conserved
<1>2. Balanced'
  BY <1>1, Trade
<1>3. \A q \in Procs : state'[q] \in {"unused", "embryo"} => mapped'[q] = {}
  BY <1>1 DEF Conserved, TypeOK
<1>4. QED BY <1>2, <1>3 DEF Conserved

\* What is known of the numbers.
LEMMA Counts ==
  ASSUME Inv, Conserved, ~panicked, NEW p \in Procs
  PROVE  /\ TypeOK /\ free \in Nat /\ Cardinality({}) = 0
         /\ mapped[p] \in SUBSET UserPages /\ fresh[p] \in SUBSET UserPages
         /\ todo[p] \in SUBSET UserPages
         /\ Cardinality(mapped[p]) \in Nat /\ Cardinality(fresh[p]) \in Nat
         /\ mapped = [mapped EXCEPT ![p] = mapped[p]]
         /\ fresh = [fresh EXCEPT ![p] = fresh[p]]
<1>1. TypeOK /\ free \in Nat /\ Cardinality({}) = 0
  BY FS_EmptySet DEF Inv, Conserved, Balanced
<1>2. /\ mapped[p] \in SUBSET UserPages /\ fresh[p] \in SUBSET UserPages
      /\ todo[p] \in SUBSET UserPages
      /\ mapped = [mapped EXCEPT ![p] = mapped[p]] /\ fresh = [fresh EXCEPT ![p] = fresh[p]]
  BY <1>1 DEF TypeOK
<1>3. QED BY <1>1, <1>2, Finite

\* A step that moves no page.
LEMMA NoPage ==
  ASSUME Inv, Conserved, ~panicked, UNCHANGED <<mapped, fresh, free>>,
         \A q \in Procs : state'[q] \in {"unused", "embryo"} => state[q] \in {"unused", "embryo"}
  PROVE  Conserved'
  BY DEF Conserved, Balanced, Entries, UserPages

\* A page more, a page less.
LEMMA OnePage ==
  \A S \in SUBSET UserPages, g \in UserPages :
    g \notin S => Cardinality(S \cup {g}) = Cardinality(S) + 1
  BY Finite, FS_AddElement

\* Pages that are given back.
LEMMA Less ==
  \A S \in SUBSET UserPages, T \in SUBSET UserPages :
    T \subseteq S => /\ Cardinality(S \ T) = Cardinality(S) - Cardinality(T)
                     /\ Cardinality(S \ T) \in Nat /\ Cardinality(T) \in Nat
<1> SUFFICES ASSUME NEW S \in SUBSET UserPages, NEW T \in SUBSET UserPages, T \subseteq S
             PROVE  /\ Cardinality(S \ T) = Cardinality(S) - Cardinality(T)
                    /\ Cardinality(S \ T) \in Nat /\ Cardinality(T) \in Nat
  OBVIOUS
<1>1. IsFiniteSet(S) /\ S \cap T = T /\ (S \ T) \in SUBSET UserPages
  BY Finite
<1>2. Cardinality(S \ T) = Cardinality(S) - Cardinality(S \cap T)
  BY <1>1, FS_Difference
<1>3. QED BY <1>1, <1>2, Finite

\* The pages of user memory begin below USERTOP: freevm finds them all.
LEMMA AllFreed == ASSUME TypeOK, NEW p \in Procs PROVE Freed(p) = mapped[p]
<1>1. mapped[p] \in SUBSET UserPages
  BY DEF TypeOK
<1>2. Pages(0, UserTop) = UserPages
  BY Limits DEF Pages, PageUp
<1>3. QED BY <1>1, <1>2 DEF Freed

-----------------------------------------------------------------------------
(* Every operation gives and takes as many pages as it maps and unmaps. *)

\* sbrk maps a page that was not there: mappages panics on one that is.
LEMMA SbrkPageConserves ==
  ASSUME Inv, Conserved, NEW p \in Procs, SbrkPage(p) PROVE Conserved'
<1> SUFFICES ASSUME ~panicked' PROVE Conserved'
  BY DEF Conserved
<1>1. ~panicked /\ state[p] = "user" /\ fresh[p] = {}
  BY Looping DEF SbrkPage
<1>2. PICK g \in todo[p] : /\ panicked' = (g \in mapped[p])
                          /\ mapped' = [mapped EXCEPT ![p] = @ \cup {g}]
  BY DEF SbrkPage
<1>3. free > 0 /\ free' = free - 1 /\ fresh' = fresh /\ state' = state
  BY DEF SbrkPage
<1>4. g \in UserPages /\ g \notin mapped[p]
  BY <1>1, <1>2, Counts
<1>5. /\ mapped' = [mapped EXCEPT ![p] = mapped[p] \cup {g}]
      /\ mapped[p] \cup {g} \in SUBSET UserPages
      /\ Cardinality(mapped[p] \cup {g}) = Cardinality(mapped[p]) + 1
  BY <1>1, <1>2, <1>4, Counts, OnePage
<1>6. /\ free' \in Nat
      /\ free' + Cardinality(mapped[p] \cup {g}) + Cardinality(fresh[p])
           = free + Cardinality(mapped[p]) + Cardinality(fresh[p])
  BY <1>1, <1>3, <1>5, Counts
<1>7. /\ ~panicked
      /\ fresh[p] \in SUBSET UserPages /\ fresh' = [fresh EXCEPT ![p] = fresh[p]]
      /\ \A q \in Procs : state'[q] \in {"unused", "embryo"} =>
           q # p /\ state[q] \in {"unused", "embryo"}
  BY <1>1, <1>3, Counts
<1>8. QED BY <1>5, <1>6, <1>7, Keeping

\* growproc fails: all that its loop has mapped goes back, nothing else.
LEMMA SbrkNoMemoryConserves ==
  ASSUME Inv, Conserved, NEW p \in Procs, SbrkNoMemory(p) PROVE Conserved'
<1>1. ~panicked /\ state[p] = "user" /\ fresh[p] = {}
  BY Looping DEF SbrkNoMemory
<1>2. /\ free = 0 /\ free' = Cardinality(GivenBack(p)) /\ state' = state
      /\ mapped' = [mapped EXCEPT ![p] = mapped[p] \ GivenBack(p)]
      /\ fresh' = [fresh EXCEPT ![p] = {}]
  BY DEF SbrkNoMemory, Done
<1>3. /\ mapped[p] \in SUBSET UserPages /\ GivenBack(p) \in SUBSET UserPages
      /\ GivenBack(p) \subseteq mapped[p] /\ mapped[p] \ GivenBack(p) \in SUBSET UserPages
  BY <1>1, Counts DEF GivenBack
<1>4. /\ Cardinality(mapped[p] \ GivenBack(p)) = Cardinality(mapped[p]) - Cardinality(GivenBack(p))
      /\ Cardinality(GivenBack(p)) \in Nat
  BY <1>3, Less
<1>5. /\ free' \in Nat
      /\ free' + Cardinality(mapped[p] \ GivenBack(p)) + Cardinality({})
           = free + Cardinality(mapped[p]) + Cardinality(fresh[p])
  BY <1>1, <1>2, <1>4, Counts
<1>6. QED BY <1>1, <1>2, <1>3, <1>5, Keeping

\* sbrk of a negative number frees what it unmaps, also when it then fails.
LEMMA SbrkDownConserves ==
  ASSUME Inv, Conserved, NEW p \in Procs, SbrkDown(p) PROVE Conserved'
<1>1. ~panicked /\ state[p] = "user"
  BY Running DEF SbrkDown
<1>2. PICK n \in Amounts :
        /\ mapped' = [mapped EXCEPT ![p] = @ \ (mapped[p] \cap Pages(sz[p] + n, sz[p]))]
        /\ free' = free + Cardinality(mapped[p] \cap Pages(sz[p] + n, sz[p]))
  BY DEF SbrkDown
<1> DEFINE gone == mapped[p] \cap Pages(sz[p] + n, sz[p])
<1>3. state' = state /\ fresh' = fresh
  BY DEF SbrkDown, loop
<1>4. /\ mapped[p] \in SUBSET UserPages /\ gone \in SUBSET UserPages
      /\ gone \subseteq mapped[p] /\ mapped[p] \ gone \in SUBSET UserPages
  BY <1>1, Counts
<1>5. /\ mapped' = [mapped EXCEPT ![p] = mapped[p] \ gone]
      /\ free' = free + Cardinality(gone)
  BY <1>2
<1> HIDE DEF gone
<1>6. /\ Cardinality(mapped[p] \ gone) = Cardinality(mapped[p]) - Cardinality(gone)
      /\ Cardinality(gone) \in Nat
  BY <1>4, Less
<1>7. /\ free' \in Nat
      /\ free' + Cardinality(mapped[p] \ gone) + Cardinality(fresh[p])
           = free + Cardinality(mapped[p]) + Cardinality(fresh[p])
  BY <1>1, <1>5, <1>6, Counts
<1>8. /\ ~panicked
      /\ fresh[p] \in SUBSET UserPages /\ fresh' = [fresh EXCEPT ![p] = fresh[p]]
      /\ \A q \in Procs : state'[q] \in {"unused", "embryo"} =>
           q # p /\ state[q] \in {"unused", "embryo"}
  BY <1>1, <1>3, Counts
<1>9. QED BY <1>4, <1>5, <1>7, <1>8, Keeping

\* The page fault maps one page, which was not there.
LEMMA StackGrowsConserves ==
  ASSUME Inv, Conserved, NEW p \in Procs, StackGrows(p) PROVE Conserved'
<1>1. /\ Runs(p) /\ StackRoom(p) /\ free > 0 /\ free' = free - 1
      /\ state' = state /\ fresh' = fresh
      /\ mapped' = [mapped EXCEPT ![p] = mapped[p] \cup Pages(stackSz[p] - 2, stackSz[p])]
  BY DEF StackGrows, Faults, loop
<1>2. /\ ~panicked /\ state[p] = "user" /\ Based(p)
      /\ mapped[p] = Image(sz[p], stackSz[p])
      /\ sz[p] \in Int /\ stackSz[p] \in Int /\ PageOf(stackSz[p]) \in Int
  BY <1>1, Running
<1> DEFINE g == PageOf(stackSz[p]) - 1
<1>3. Pages(stackSz[p] - 2, stackSz[p]) = {g} /\ g \in UserPages
  BY <1>2, PageBelow DEF Based
<1>4. g \notin mapped[p]
  <2>1. /\ PageUp(sz[p]) \in Int /\ 2 * PageUp(sz[p]) <= sz[p] + 1
        /\ 2 * PageOf(stackSz[p]) = stackSz[p]
    BY <1>2, Rounding DEF Based
  <2>2. PageUp(sz[p]) - 1 < g
    BY <1>1, <1>2, <2>1 DEF StackRoom
  <2>3. PageUp(2) = 1
    BY DEF PageUp
  <2>4. QED BY <1>2, <2>1, <2>2, <2>3, Limits DEF Image, HeapPages, StackPages, Pages
<1> HIDE DEF g
<1>5. /\ mapped' = [mapped EXCEPT ![p] = mapped[p] \cup {g}]
      /\ mapped[p] \cup {g} \in SUBSET UserPages
      /\ Cardinality(mapped[p] \cup {g}) = Cardinality(mapped[p]) + 1
  BY <1>1, <1>2, <1>3, <1>4, Counts, OnePage
<1>6. /\ free' \in Nat
      /\ free' + Cardinality(mapped[p] \cup {g}) + Cardinality(fresh[p])
           = free + Cardinality(mapped[p]) + Cardinality(fresh[p])
  BY <1>1, <1>2, <1>5, Counts
<1>7. /\ ~panicked
      /\ fresh[p] \in SUBSET UserPages /\ fresh' = [fresh EXCEPT ![p] = fresh[p]]
      /\ \A q \in Procs : state'[q] \in {"unused", "embryo"} =>
           q # p /\ state[q] \in {"unused", "embryo"}
  BY <1>1, <1>2, Counts
<1>8. QED BY <1>5, <1>6, <1>7, Keeping

\* A call that begins, an exit and a process killed in the trap move no page.
LEMMA NoPageConserves ==
  ASSUME Inv, Conserved, NEW p \in Procs,
         SbrkUp(p) \/ StackNoMemory(p) \/ Fork(p) \/ Exec(p) \/ Exit(p)
  PROVE  Conserved'
<1>1. TypeOK
  BY DEF Inv
<1>2. ~panicked /\ mapped' = mapped /\ fresh' = fresh /\ free' = free
  BY DEF SbrkUp, StackNoMemory, Faults, Fork, Exec, Exit, Runs, space, loop
<1>3. \A q \in Procs : state'[q] \in {"unused", "embryo"} => state[q] \in {"unused", "embryo"}
  <2>1. CASE SbrkUp(p) \/ Exec(p)
    BY <2>1 DEF SbrkUp, Exec
  <2>2. CASE StackNoMemory(p) \/ Exit(p)
    BY <1>1, <2>2 DEF StackNoMemory, Exit, TypeOK
  <2>3. CASE Fork(p)
    BY <1>1, <2>3 DEF Fork, TypeOK
  <2>4. QED BY <2>1, <2>2, <2>3
<1>4. QED BY <1>2, <1>3, NoPage

\* sbrk returns with what its loop has mapped.
LEMMA SbrkDoneConserves ==
  ASSUME Inv, Conserved, NEW p \in Procs, SbrkDone(p) PROVE Conserved'
<1>1. ~panicked /\ state[p] = "user" /\ fresh[p] = {}
  BY Looping DEF SbrkDone
<1>2. /\ free' = free /\ mapped' = mapped /\ state' = state
      /\ fresh' = [fresh EXCEPT ![p] = {}]
  BY DEF SbrkDone, Done
<1>3. fresh' = fresh
  BY <1>1, <1>2, Counts
<1>4. QED BY <1>1, <1>2, <1>3, NoPage

\* A page of the copy, which was still to be made.
LEMMA ForkPageConserves ==
  ASSUME Inv, Conserved, NEW p \in Procs, ForkPage(p) PROVE Conserved'
<1> SUFFICES ASSUME ~panicked' PROVE Conserved'
  BY DEF Conserved
<1>1. ~panicked /\ state[p] = "user" /\ Copying(p)
  BY Looping DEF ForkPage
<1>2. PICK g \in todo[p] :
        /\ panicked' = (g \notin mapped[p])
        /\ g \in mapped[p] => free > 0
        /\ fresh' = [fresh EXCEPT ![p] = IF g \in mapped[p] THEN @ \cup {g} ELSE @]
        /\ free' = IF g \in mapped[p] THEN free - 1 ELSE free
  BY DEF ForkPage
<1>3. mapped' = mapped /\ state' = state
  BY DEF ForkPage, space
<1>4. g \in UserPages /\ g \in mapped[p] /\ g \notin fresh[p]
  BY <1>1, <1>2, Counts DEF Copying
<1>5. /\ fresh' = [fresh EXCEPT ![p] = fresh[p] \cup {g}] /\ free > 0 /\ free' = free - 1
      /\ fresh[p] \cup {g} \in SUBSET UserPages
      /\ Cardinality(fresh[p] \cup {g}) = Cardinality(fresh[p]) + 1
  BY <1>1, <1>2, <1>4, Counts, OnePage
<1>6. /\ free' \in Nat
      /\ free' + Cardinality(mapped[p]) + Cardinality(fresh[p] \cup {g})
           = free + Cardinality(mapped[p]) + Cardinality(fresh[p])
  BY <1>1, <1>5, Counts
<1>7. /\ ~panicked
      /\ mapped[p] \in SUBSET UserPages /\ mapped' = [mapped EXCEPT ![p] = mapped[p]]
      /\ \A q \in Procs : state'[q] \in {"unused", "embryo"} =>
           q # p /\ state[q] \in {"unused", "embryo"}
  BY <1>1, <1>3, Counts
<1>8. QED BY <1>5, <1>6, <1>7, Keeping

\* copyuvm fails: the copy made so far goes back, and so does the slot.
LEMMA ForkNoMemoryConserves ==
  ASSUME Inv, Conserved, NEW p \in Procs, ForkNoMemory(p) PROVE Conserved'
<1>1. ~panicked /\ state[p] = "user" /\ Copying(p)
  BY Looping DEF ForkNoMemory
<1>2. /\ free = 0 /\ free' = Cardinality(fresh[p]) /\ mapped' = mapped
      /\ fresh' = [fresh EXCEPT ![p] = {}]
      /\ state' = [state EXCEPT ![child[p]] = "unused"]
  BY DEF ForkNoMemory, Done, space
<1>3. state[child[p]] = "embryo"
  BY <1>1 DEF Copying
<1>4. \A q \in Procs : state'[q] \in {"unused", "embryo"} =>
        IF q = p THEN mapped[p] = {} ELSE state[q] \in {"unused", "embryo"}
  BY <1>1, <1>2, <1>3, Counts DEF TypeOK
<1>5. /\ free' \in Nat
      /\ free' + Cardinality(mapped[p]) + Cardinality({})
           = free + Cardinality(mapped[p]) + Cardinality(fresh[p])
  BY <1>1, <1>2, Counts
<1>6. mapped[p] \in SUBSET UserPages /\ mapped' = [mapped EXCEPT ![p] = mapped[p]]
  BY <1>1, <1>2, Counts
<1>7. ~panicked /\ fresh' = [fresh EXCEPT ![p] = {}] /\ {} \in SUBSET UserPages
  BY <1>1, <1>2
<1>8. QED BY <1>4, <1>5, <1>6, <1>7, Keeping

\* The copy becomes the page table of the child, which had none.
LEMMA ForkDoneConserves ==
  ASSUME Inv, Conserved, NEW p \in Procs, ForkDone(p) PROVE Conserved'
<1>1. ~panicked /\ state[p] = "user" /\ Copying(p)
  BY Looping DEF ForkDone
<1>2. TypeOK /\ Balanced
  BY <1>1, Counts DEF Conserved
<1> DEFINE c == child[p]
<1>3. /\ c \in Procs /\ state[c] = "embryo" /\ mapped[c] = {} /\ fresh[p] \in SUBSET UserPages
      /\ mapped \in [Procs -> SUBSET UserPages] /\ fresh \in [Procs -> SUBSET UserPages]
  BY <1>1, <1>2 DEF Copying, Conserved, TypeOK
<1>4. /\ free' = free /\ mapped' = [mapped EXCEPT ![c] = fresh[p]]
      /\ fresh' = [fresh EXCEPT ![p] = {}] /\ state' = [state EXCEPT ![c] = "user"]
  BY DEF ForkDone, Done
<1> HIDE DEF c
<1>5. Cardinality(Entries(mapped')) = Cardinality(Entries(mapped)) - Cardinality(mapped[c]) + Cardinality(fresh[p])
  BY <1>3, <1>4, TableChange
<1>6. Cardinality(Entries(fresh')) = Cardinality(Entries(fresh)) - Cardinality(fresh[p]) + Cardinality({})
  BY <1>3, <1>4, TableChange
<1>7. /\ Cardinality(mapped[c]) = 0 /\ Cardinality({}) = 0 /\ Cardinality(fresh[p]) \in Nat
      /\ Cardinality(Entries(mapped)) \in Nat /\ Cardinality(Entries(fresh)) \in Nat
  BY <1>3, Finite, FS_EmptySet
<1>8. /\ Cardinality(Entries(mapped))' = Cardinality(Entries(mapped'))
      /\ Cardinality(Entries(fresh))' = Cardinality(Entries(fresh'))
  BY DEF Entries, UserPages
<1>9. Balanced'
  BY <1>2, <1>4, <1>5, <1>6, <1>7, <1>8, StackHeapAssumption DEF Balanced
<1>10. \A q \in Procs : state'[q] \in {"unused", "embryo"} => mapped'[q] = {}
  BY <1>1, <1>2, <1>3, <1>4 DEF Conserved, TypeOK
<1>11. QED BY <1>9, <1>10 DEF Conserved

\* A page of the program, which was still to be loaded.
LEMMA ExecPageConserves ==
  ASSUME Inv, Conserved, NEW p \in Procs, ExecPage(p) PROVE Conserved'
<1>1. ~panicked /\ state[p] = "user" /\ Loading(p)
  BY Looping DEF ExecPage
<1>2. PICK g \in todo[p] : fresh' = [fresh EXCEPT ![p] = fresh[p] \cup {g}]
  BY DEF ExecPage
<1>3. free > 0 /\ free' = free - 1 /\ mapped' = mapped /\ state' = state
  BY DEF ExecPage, space
<1>4. g \in UserPages /\ g \notin fresh[p]
  BY <1>1, <1>2, Counts DEF Loading
<1>5. /\ fresh[p] \cup {g} \in SUBSET UserPages
      /\ Cardinality(fresh[p] \cup {g}) = Cardinality(fresh[p]) + 1
  BY <1>1, <1>4, Counts, OnePage
<1>6. /\ free' \in Nat
      /\ free' + Cardinality(mapped[p]) + Cardinality(fresh[p] \cup {g})
           = free + Cardinality(mapped[p]) + Cardinality(fresh[p])
  BY <1>1, <1>3, <1>5, Counts
<1>7. /\ ~panicked /\ fresh' = [fresh EXCEPT ![p] = fresh[p] \cup {g}]
      /\ mapped[p] \in SUBSET UserPages /\ mapped' = [mapped EXCEPT ![p] = mapped[p]]
      /\ \A q \in Procs : state'[q] \in {"unused", "embryo"} =>
           q # p /\ state[q] \in {"unused", "embryo"}
  BY <1>1, <1>2, <1>3, Counts
<1>8. QED BY <1>5, <1>6, <1>7, Keeping

\* exec fails: what it has loaded goes back, the program that called it stays.
LEMMA ExecFailsConserves ==
  ASSUME Inv, Conserved, NEW p \in Procs, ExecFails(p) PROVE Conserved'
<1>1. ~panicked /\ state[p] = "user"
  BY Looping DEF ExecFails
<1>2. /\ free' = free + Cardinality(fresh[p]) /\ mapped' = mapped /\ state' = state
      /\ fresh' = [fresh EXCEPT ![p] = {}]
  BY DEF ExecFails, Done, space
<1>3. /\ free' \in Nat
      /\ free' + Cardinality(mapped[p]) + Cardinality({})
           = free + Cardinality(mapped[p]) + Cardinality(fresh[p])
  BY <1>1, <1>2, Counts
<1>4. \A q \in Procs : state'[q] \in {"unused", "embryo"} =>
        IF q = p THEN mapped[p] = {} ELSE state[q] \in {"unused", "embryo"}
  BY <1>1, <1>2
<1>5. mapped[p] \in SUBSET UserPages /\ mapped' = [mapped EXCEPT ![p] = mapped[p]]
  BY <1>1, <1>2, Counts
<1>6. QED BY <1>1, <1>2, <1>3, <1>4, <1>5, Keeping

\* exec maps the page of the stack, changes tables and frees the old one.
LEMMA ExecDoneConserves ==
  ASSUME Inv, Conserved, NEW p \in Procs, ExecDone(p) PROVE Conserved'
<1>1. ~panicked /\ state[p] = "user"
  BY Looping DEF ExecDone
<1>2. /\ free > 0 /\ free' = free - 1 + Cardinality(Freed(p)) /\ state' = state
      /\ Top - 1 \notin fresh[p]
      /\ mapped' = [mapped EXCEPT ![p] = fresh[p] \cup {Top - 1}]
      /\ fresh' = [fresh EXCEPT ![p] = {}]
  BY DEF ExecDone, Done
<1>3. Freed(p) = mapped[p] /\ Top - 1 \in UserPages
  BY <1>1, Counts, AllFreed, Limits
<1>4. /\ fresh[p] \cup {Top - 1} \in SUBSET UserPages
      /\ Cardinality(fresh[p] \cup {Top - 1}) = Cardinality(fresh[p]) + 1
  BY <1>1, <1>2, <1>3, Counts, OnePage
<1>5. /\ free' \in Nat
      /\ free' + Cardinality(fresh[p] \cup {Top - 1}) + Cardinality({})
           = free + Cardinality(mapped[p]) + Cardinality(fresh[p])
  BY <1>1, <1>2, <1>3, <1>4, Counts
<1>6. /\ ~panicked /\ {} \in SUBSET UserPages
      /\ mapped' = [mapped EXCEPT ![p] = fresh[p] \cup {Top - 1}]
      /\ fresh' = [fresh EXCEPT ![p] = {}]
      /\ \A q \in Procs : state'[q] \in {"unused", "embryo"} =>
           IF q = p THEN fresh[p] \cup {Top - 1} = {} ELSE state[q] \in {"unused", "embryo"}
  BY <1>1, <1>2
<1>7. QED BY <1>4, <1>5, <1>6, Keeping

\* wait frees the whole page table of a process that has ended.
LEMMA ReapConserves ==
  ASSUME Inv, Conserved, NEW p \in Procs, Reap(p) PROVE Conserved'
<1>1. /\ ~panicked /\ state[p] = "zombie" /\ state' = [state EXCEPT ![p] = "unused"]
      /\ mapped' = [mapped EXCEPT ![p] = {}] /\ fresh' = fresh
      /\ free' = free + Cardinality(Freed(p))
  BY DEF Reap, loop
<1>2. Freed(p) = mapped[p]
  BY <1>1, Counts, AllFreed
<1>3. /\ free' \in Nat
      /\ free' + Cardinality({}) + Cardinality(fresh[p])
           = free + Cardinality(mapped[p]) + Cardinality(fresh[p])
  BY <1>1, <1>2, Counts
<1>4. \A q \in Procs : state'[q] \in {"unused", "embryo"} =>
        IF q = p THEN {} = {} ELSE state[q] \in {"unused", "embryo"}
  BY <1>1, Counts DEF TypeOK
<1>5. /\ ~panicked /\ {} \in SUBSET UserPages /\ mapped' = [mapped EXCEPT ![p] = {}]
      /\ fresh[p] \in SUBSET UserPages /\ fresh' = [fresh EXCEPT ![p] = fresh[p]]
  BY <1>1, Counts
<1>6. QED BY <1>3, <1>4, <1>5, Keeping

\* The shell has the pages of its program, one of them for the stack.
LEMMA StartsBalanced == Init => Conserved
<1> SUFFICES ASSUME Init PROVE Conserved
  OBVIOUS
<1>1. PICK e \in Images :
        /\ 3 <= e /\ e <= UserTop - 4 /\ PageUp(e) <= Memory
        /\ mapped = [p \in Procs |-> IF p = Boot THEN HeapPages(e) \cup {Top - 1} ELSE {}]
        /\ free = Memory - PageUp(e)
        /\ fresh = [p \in Procs |-> {}]
        /\ state = [p \in Procs |-> IF p = Boot THEN "user" ELSE "unused"]
  BY DEF Init
<1> DEFINE empty == [p \in Procs |-> {}]
           shell == HeapPages(e) \cup {Top - 1}
<1>2. e \in Int /\ PageUp(e) \in Int /\ 2 <= PageUp(e) /\ PageUp(e) <= Top - 1
  <2>1. e \in Int
    BY StackHeapAssumption
  <2>2. PageUp(e) \in Int /\ e <= 2 * PageUp(e) /\ 2 * PageUp(e) <= e + 1
    BY <2>1, Rounding
  <2>3. QED BY <1>1, <2>1, <2>2, Limits
<1>3. HeapPages(e) = 1..(PageUp(e) - 1)
  BY DEF HeapPages, Pages, PageUp
<1>4. /\ IsFiniteSet(HeapPages(e)) /\ Cardinality(HeapPages(e)) = PageUp(e) - 1
  BY <1>2, <1>3, FS_Interval
<1>5. Top - 1 \notin HeapPages(e) /\ HeapPages(e) \in SUBSET UserPages /\ Top - 1 \in UserPages
  BY <1>1, <1>2, <1>3, Limits
<1>6. shell \in SUBSET UserPages /\ Cardinality(shell) = PageUp(e)
  <2>1. Cardinality(HeapPages(e) \cup {Top - 1}) = Cardinality(HeapPages(e)) + 1
    BY <1>5, OnePage
  <2>2. QED BY <1>2, <1>4, <1>5, <2>1
<1>7. Entries(empty) = {} /\ Cardinality({}) = 0
  BY FS_EmptySet DEF Entries
<1>8. mapped = [empty EXCEPT ![Boot] = shell] /\ fresh = empty /\ empty[Boot] = {}
  BY <1>1, StackHeapAssumption
<1>9. empty \in [Procs -> SUBSET UserPages]
  OBVIOUS
<1>10. Cardinality(Entries(mapped)) = Cardinality(Entries(empty)) - Cardinality(empty[Boot]) + Cardinality(shell)
  <2> HIDE DEF empty, shell
  <2>1. QED BY <1>6, <1>8, <1>9, TableChange, StackHeapAssumption
<1>11. Cardinality(Entries(mapped)) = PageUp(e) /\ Cardinality(Entries(fresh)) = 0
  <2> HIDE DEF empty, shell
  <2>1. QED BY <1>2, <1>6, <1>7, <1>8, <1>10
<1>12. Balanced
  BY <1>1, <1>2, <1>11, StackHeapAssumption DEF Balanced
<1>13. QED BY <1>1, <1>12 DEF Conserved

\* Whatever fails half-way, every page is with kalloc or in one page table,
\* and kalloc never gives more than it has.
THEOREM PagesAreConserved == Spec => []PagesConserved
<1>1. Inv /\ Conserved /\ [Next]_vars => Conserved'
  <2> SUFFICES ASSUME Inv, Conserved, [Next]_vars PROVE Conserved'
    OBVIOUS
  <2>1. CASE UNCHANGED vars
    BY <2>1 DEF vars, Conserved, Balanced, Entries, UserPages
  <2>2. ASSUME NEW p \in Procs,
               SbrkUp(p) \/ SbrkPage(p) \/ SbrkNoMemory(p) \/ SbrkDone(p) \/ SbrkDown(p)
        PROVE  Conserved'
    BY <2>2, NoPageConserves, SbrkPageConserves, SbrkNoMemoryConserves, SbrkDoneConserves,
       SbrkDownConserves
  <2>3. ASSUME NEW p \in Procs, StackGrows(p) \/ StackNoMemory(p) \/ Exit(p) \/ Reap(p)
        PROVE  Conserved'
    BY <2>3, StackGrowsConserves, NoPageConserves, ReapConserves
  <2>4. ASSUME NEW p \in Procs, Fork(p) \/ ForkPage(p) \/ ForkNoMemory(p) \/ ForkDone(p)
        PROVE  Conserved'
    BY <2>4, NoPageConserves, ForkPageConserves, ForkNoMemoryConserves, ForkDoneConserves
  <2>5. ASSUME NEW p \in Procs, Exec(p) \/ ExecPage(p) \/ ExecFails(p) \/ ExecDone(p)
        PROVE  Conserved'
    BY <2>5, NoPageConserves, ExecPageConserves, ExecFailsConserves, ExecDoneConserves
  <2>6. ASSUME NEW p \in Procs, ExecPanics(p) PROVE Conserved'
    BY <2>6 DEF ExecPanics, Conserved
  <2>7. QED BY <2>1, <2>2, <2>3, <2>4, <2>5, <2>6 DEF Next
<1>2. Conserved => PagesConserved
  BY DEF Conserved, Balanced, PagesConserved
<1>3. QED BY <1>1, <1>2, StartsBalanced, Invariance, PTL DEF Spec

=============================================================================
