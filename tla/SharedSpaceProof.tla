-------------------------- MODULE SharedSpaceProof --------------------------
(***************************************************************************)
(* Proofs about SharedSpace: as long as no child of fork grows, and nobody *)
(* runs in the middle of another's clone or fork, a process and its        *)
(* threads agree on the size of their memory, exactly the pages below it   *)
(* are mapped, and the kernel does not panic, however the threads          *)
(* interleave in sbrk.  The inductive invariant is ~disturbed => Inv.      *)
(* That no page is lost holds without that provision; its invariant is     *)
(* Whole, which knows nothing of who shares a page table with whom.        *)
(***************************************************************************)
EXTENDS SharedSpace, FiniteSetTheorems, TLAPS

\* The threads of a process have it as their parent and live in its page
\* table, every process lives in a page table of its own.
Family ==
  /\ \A q \in Slots : q \notin alive => pc[q] = "born"
  /\ \A q \in Slots : pc[q] = "born" => ~isThread[q] /\ space[q] = q
  /\ \A q \in Slots : Ready(q) /\ isThread[q] =>
       /\ parent[q] \in Slots /\ Ready(parent[q]) /\ ~isThread[parent[q]]
       /\ space[q] = parent[q]
  /\ \A q \in Slots : Ready(q) /\ ~isThread[q] => space[q] = q
  /\ 1 \in Slots /\ Ready(1) /\ parent[1] = 0 /\ ~isThread[1]

\* What a clone or fork under way has put into the new slot.
Makes == \A s \in Slots :
  /\ Making(s) => /\ ~locked /\ s \in alive
                  /\ new[s] \in Slots /\ new[s] \in alive /\ pc[new[s]] = "born"
  /\ pc[s] = "clone_flag" => sz[new[s]] = sz[s] /\ parent[new[s]] = space[s]
  /\ pc[s] \in {"fork_bound", "fork_copy", "fork_size"} => ~isThread[s]
  /\ pc[s] = "fork_copy" => arg[s] = sz[s]
  /\ pc[s] = "fork_size" => mapped[new[s]] = Pages(0, sz[s])
  /\ pc[s] = "grow" => s \in alive

\* Only one clone or fork is under way.
Solo == \A p, q \in Slots : Making(p) /\ Making(q) => p = q

Inv == /\ TypeOK /\ Family /\ Makes /\ Solo /\ ~disturbed
       /\ SizesAgree /\ MappedIsSize /\ NoPanic

GInv == ~disturbed => Inv

-----------------------------------------------------------------------------
(* Sizes and pages. *)

\* PGROUNDUP is a number, and larger for larger sizes.
LEMMA PageUpFacts ==
  /\ PageUp(0) = 0
  /\ \A u \in Nat : PageUp(u) \in Nat
  /\ \A u, w \in Nat : u <= w => PageUp(u) <= PageUp(w)
  BY DEF PageUp

\* The pages below u and the pages from u to w are those below w.
LEMMA PagesJoin ==
  ASSUME NEW u \in Nat, NEW w \in Nat, u <= w
  PROVE  /\ Pages(0, u) \cup Pages(u, w) = Pages(0, w)
         /\ Pages(0, u) \cap Pages(u, w) = {}
         /\ Pages(0, w) \ Pages(u, w) = Pages(0, u)
         /\ Pages(0, u) \subseteq Nat
<1>1. /\ PageUp(0) = 0 /\ PageUp(u) \in Nat /\ PageUp(w) \in Nat
      /\ PageUp(u) <= PageUp(w)
  BY PageUpFacts
<1> QED BY <1>1 DEF Pages

\* Everybody growproc updates lives in the page table of the caller, and
\* everybody who lives there is updated.
LEMMA UpdatedIsTheSpace ==
  ASSUME Inv, NEW s \in Slots, pc[s] = "grow", Kind(s) # "child", NEW q \in Slots
  PROVE  /\ Updated(s, q) => Ready(q) /\ space[q] = space[s]
         /\ Ready(q) /\ space[q] = space[s] => q = s \/ Updated(s, q)
<1>1. Ready(s) /\ (isThread[s] \/ s = 1)
  BY DEF Inv, Makes, Ready, Kind
<1>2. isThread[q] => Ready(q) /\ parent[q] \in Slots /\ ~isThread[parent[q]]
                     /\ Ready(parent[q]) /\ space[q] = parent[q]
  BY DEF Inv, Family, Ready
<1>3. isThread[s] => parent[s] \in Slots /\ ~isThread[parent[s]] /\ Ready(parent[s])
                     /\ space[s] = parent[s] /\ space[parent[s]] = parent[s]
  BY <1>1 DEF Inv, Family
<1>4. s = 1 => ~isThread[s] /\ parent[s] = 0 /\ space[s] = 1
  BY <1>1 DEF Inv, Family
<1>5. Ready(q) /\ ~isThread[q] => space[q] = q
  BY DEF Inv, Family
<1>6. 0 \notin Slots
  BY DEF Slots
<1>7. CASE isThread[s]
  BY <1>1, <1>2, <1>3, <1>5, <1>7 DEF Updated
<1>8. CASE s = 1
  BY <1>1, <1>2, <1>4, <1>5, <1>6, <1>8 DEF Updated
<1> QED BY <1>1, <1>7, <1>8

\* A slot that is being filled is nobody's page table yet.
LEMMA NewIsNobodysSpace ==
  ASSUME Inv, NEW s \in Slots, Making(s), NEW q \in Slots, Ready(q)
  PROVE  new[s] \in Slots /\ new[s] # s /\ new[s] # q /\ space[q] # new[s] /\ Ready(s)
<1>1. /\ new[s] \in Slots /\ pc[new[s]] = "born" /\ s \in alive
  BY DEF Inv, Makes
<1>2. pc[s] # "born" BY DEF Making
<1>3. space[q] = q \/ Ready(space[q])
  BY DEF Inv, Family
<1> QED BY <1>1, <1>2, <1>3 DEF Ready

\* Whoever takes a step that disturbs nobody does so while nobody else is in
\* the middle of clone or fork, and is no child that grows.
LEMMA RunsAlone ==
  ASSUME Inv, NEW s \in Slots, Runs(s), ~disturbed'
  PROVE  /\ \A q \in Slots : q # s => ~Making(q)
         /\ pc[s] = "grow" => Kind(s) # "child"
<1>1. ~Disturbs(s)
  BY Zenon DEF Runs
<1>2. \A q \in Slots : Making(q) => q \in alive
  BY DEF Inv, Makes
<1> QED BY <1>1, <1>2 DEF Disturbs

-----------------------------------------------------------------------------
(* The initial states, and the types. *)

\* The invariant holds at the start.
LEMMA InitInv == Init => Inv
<1> SUFFICES ASSUME Init PROVE Inv
  OBVIOUS
<1> USE SpaceAssumption
<1>1. /\ 1 \in Slots /\ Team \subseteq Slots \ {1} /\ Start \in Nat
      /\ 0 \in 0..NPROC /\ 1 \in 0..NPROC
  BY DEF Slots
<1>2. Pages(0, Start) \subseteq Nat
  BY <1>1, PagesJoin
<1>3. PageUp(Start) \in Nat
  BY <1>1, PageUpFacts
<1>4. TypeOK
  <2>1. alive \in SUBSET Slots /\ parent \in [Slots -> 0..NPROC]
    BY <1>1 DEF Init, Slots
  <2>6. isThread \in [Slots -> BOOLEAN]
    <3>1. isThread = [q \in Slots |-> q \in Team]
      BY DEF Init
    <3>2. \A q \in Slots : (q \in Team) \in BOOLEAN
      OBVIOUS
    <3> HIDE SpaceAssumption
    <3> QED BY <3>1, <3>2, Zenon
  <2>2. sz \in [Slots -> Nat] /\ space \in [Slots -> Slots]
    BY <1>1, <1>3 DEF Init
  <2>3. mapped \in [Slots -> SUBSET Nat]
    BY <1>2 DEF Init
  <2>4. pc \in [Slots -> Places]
    BY DEF Init, Places
  <2>7. new \in [Slots -> 0..NPROC]
    BY <1>1 DEF Init
  <2>5. /\ arg \in [Slots -> Int] /\ addr \in [Slots -> Nat]
        /\ locked \in BOOLEAN /\ panicked \in BOOLEAN /\ disturbed \in BOOLEAN
    <3>1. /\ arg = [q \in Slots |-> 0] /\ addr = [q \in Slots |-> 0]
          /\ locked = FALSE /\ panicked = FALSE /\ disturbed = FALSE
      BY Zenon DEF Init
    <3> HIDE SpaceAssumption
    <3>2. arg \in [Slots -> Int] /\ addr \in [Slots -> Nat]
      BY <3>1
    <3> QED BY <3>1, <3>2
  <2> QED BY <2>1, <2>2, <2>3, <2>4, <2>5, <2>6, <2>7 DEF TypeOK
<1>5. Family
  BY <1>1 DEF Init, Family, Ready, Slots
<1>6. Makes /\ Solo
  BY <1>1 DEF Init, Makes, Solo, Making, Slots
<1>7. SizesAgree /\ MappedIsSize /\ NoPanic
  BY <1>1 DEF Init, SizesAgree, MappedIsSize, NoPanic, Ready
<1>8. ~disturbed
  BY DEF Init
<1> QED BY <1>4, <1>5, <1>6, <1>7, <1>8 DEF Inv

\* The size growproc computes, and the pages that go with it.
LEMMA GrowFacts ==
  ASSUME Inv, NEW s \in Slots, pc[s] = "grow", ~locked
  PROVE  /\ NewSize(s) \in Nat
         /\ Remapped(s) = Pages(0, NewSize(s))
         /\ Pages(0, NewSize(s)) \subseteq Nat
         /\ ~Remaps(s)
<1>1. Ready(s) /\ Settled BY DEF Inv, Makes, Ready, Settled
<1>2. sz[s] \in Nat /\ arg[s] \in Int
  BY DEF Inv, TypeOK
<1>3. mapped[space[s]] = Pages(0, sz[s])
  BY <1>1 DEF Inv, Settled, MappedIsSize
<1>4. NewSize(s) \in Nat
  BY <1>2 DEF NewSize, Want
<1>5. Remapped(s) = Pages(0, NewSize(s))
  <2>1. CASE NewSize(s) >= sz[s]
    BY <2>1, <1>2, <1>3, <1>4, PagesJoin DEF Remapped
  <2>2. CASE ~(NewSize(s) >= sz[s])
    BY <2>2, <1>2, <1>3, <1>4, PagesJoin DEF Remapped
  <2> QED BY <2>1, <2>2
<1>6. ~Remaps(s)
  <2>1. SUFFICES ASSUME arg[s] > 0 PROVE NewPages(s) \cap mapped[space[s]] = {}
    BY DEF Remaps
  <2>2. Want(s) \in Nat /\ sz[s] <= Want(s)
    BY <2>1, <1>2 DEF Want
  <2> QED BY <2>2, <1>2, <1>3, PagesJoin DEF NewPages
<1>7. Pages(0, NewSize(s)) \subseteq Nat
  BY <1>4, PagesJoin
<1> QED BY <1>4, <1>5, <1>6, <1>7

\* The types, action by action.
LEMMA TypeNext ==
  ASSUME Inv, NEW s \in Slots,
         \/ Sbrk(s) \/ Grow(s) \/ GrowFails(s) \/ GrowPanics(s)
         \/ Clone(s) \/ CloneSize(s) \/ CloneFlag(s)
         \/ Fork(s) \/ ForkBound(s) \/ ForkCopy(s) \/ ForkFails(s) \/ ForkPanics(s) \/ ForkSize(s)
  PROVE  TypeOK'
<1>0. TypeOK /\ 1 \in Slots /\ Slots \subseteq 0..NPROC /\ 0 \in 0..NPROC
  BY SpaceAssumption DEF Inv, Family, Slots
<1>1. isThread' \in [Slots -> BOOLEAN]
  <2>1. isThread' = isThread \/ \E j, b : b \in BOOLEAN /\ isThread' = [isThread EXCEPT ![j] = b]
    BY Zenon DEF Sbrk, Grow, GrowFails, GrowPanics, Clone, CloneSize, CloneFlag, Fork,
       ForkBound, ForkCopy, ForkFails, ForkPanics, ForkSize, Alloc, procs
  <2> QED BY <1>0, <2>1, Zenon DEF TypeOK
<1>2. pc' \in [Slots -> Places]
  BY <1>0 DEF TypeOK, Places, Sbrk, Grow, GrowFails, GrowPanics, Clone, CloneSize, CloneFlag,
     Fork, ForkBound, ForkCopy, ForkFails, ForkPanics, ForkSize, Goes, Calls
<1>3. alive' \in SUBSET Slots
  BY <1>0 DEF TypeOK, Sbrk, Grow, GrowFails, GrowPanics, Clone, CloneSize, CloneFlag,
     Fork, ForkBound, ForkCopy, ForkFails, ForkPanics, ForkSize, Alloc, procs
<1>4. parent' \in [Slots -> 0..NPROC] /\ space' \in [Slots -> Slots]
  BY <1>0 DEF TypeOK, Sbrk, Grow, GrowFails, GrowPanics, Clone, CloneSize, CloneFlag,
     Fork, ForkBound, ForkCopy, ForkFails, ForkPanics, ForkSize, Alloc, procs
<1>5. new' \in [Slots -> 0..NPROC]
  <2>1. \/ new' = new
        \/ \E j \in Slots : new' = [new EXCEPT ![s] = j]
        \/ new' = [new EXCEPT ![s] = 0]
    BY Zenon DEF Sbrk, Grow, GrowFails, GrowPanics, Clone, CloneSize, CloneFlag,
       Fork, ForkBound, ForkCopy, ForkFails, ForkPanics, ForkSize, Alloc, Done
  <2> QED BY <1>0, <2>1 DEF TypeOK
<1>6. arg' \in [Slots -> Int] /\ addr' \in [Slots -> Nat]
  BY <1>0, SpaceAssumption DEF TypeOK, Sbrk, Grow, GrowFails, GrowPanics, Clone, CloneSize, CloneFlag,
     Fork, ForkBound, ForkCopy, ForkFails, ForkPanics, ForkSize, Alloc, Done
<1>10. Runs(s)
  BY Zenon DEF Sbrk, Grow, GrowFails, GrowPanics, Clone, CloneSize, CloneFlag, Fork,
     ForkBound, ForkCopy, ForkFails, ForkPanics, ForkSize, Goes, Calls
<1>11. disturbed' \in BOOLEAN
  BY <1>10, Zenon DEF Runs
<1>7. locked' \in BOOLEAN /\ panicked' \in BOOLEAN
  BY <1>0 DEF TypeOK, Sbrk, Grow, GrowFails, GrowPanics, Clone, CloneSize, CloneFlag,
     Fork, ForkBound, ForkCopy, ForkFails, ForkPanics, ForkSize, Alloc
<1>8. sz' \in [Slots -> Nat]
  <2>1. CASE Grow(s)
    BY <1>0, <2>1, GrowFacts DEF TypeOK, Grow, Goes
  <2>2. CASE ~Grow(s)
    BY <1>0, <2>2 DEF TypeOK, Sbrk, GrowFails, GrowPanics, Clone, CloneSize, CloneFlag,
       Fork, ForkBound, ForkCopy, ForkFails, ForkPanics, ForkSize, Alloc
  <2> QED BY <2>1, <2>2
<1>9. mapped' \in [Slots -> SUBSET Nat]
  <2>1. CASE Grow(s)
    BY <1>0, <2>1, GrowFacts DEF TypeOK, Grow, Goes, Repage
  <2>2. CASE GrowFails(s)
    BY <1>0, <2>2 DEF TypeOK, GrowFails, Repage, memory
  <2>3. CASE ForkCopy(s)
    <3>1. arg[s] \in Nat
      BY <1>0, <2>3 DEF Inv, Makes, ForkCopy, Goes, TypeOK
    <3>2. Pages(0, arg[s]) \subseteq Nat
      BY <3>1, PagesJoin
    <3> QED BY <1>0, <2>3, <3>2 DEF TypeOK, ForkCopy, Repage
  <2>4. CASE ~Grow(s) /\ ~GrowFails(s) /\ ~ForkCopy(s)
    BY <1>0, <2>4 DEF TypeOK, Sbrk, GrowPanics, Clone, CloneSize, CloneFlag,
       Fork, ForkBound, ForkFails, ForkPanics, ForkSize, Alloc, memory
  <2> QED BY <2>1, <2>2, <2>3, <2>4
<1> QED BY <1>1, <1>2, <1>3, <1>4, <1>5, <1>6, <1>7, <1>8, <1>9, <1>11 DEF TypeOK

\* Nothing in the kernel goes wrong with a page table.
LEMMA NoPanicNext ==
  ASSUME Inv, NEW s \in Slots
  PROVE  ~GrowPanics(s) /\ ~ForkPanics(s)
<1>1. ~GrowPanics(s)
  BY GrowFacts DEF GrowPanics, Goes
<1>2. ~ForkPanics(s)
  <2>1. SUFFICES ASSUME ForkPanics(s) PROVE FALSE
    OBVIOUS
  <2>2. pc[s] = "fork_copy" /\ Making(s)
    BY <2>1 DEF ForkPanics, Goes, Making
  <2>3. arg[s] = sz[s] /\ Settled /\ Ready(s)
    BY <2>2 DEF Inv, Makes, Ready, Settled
  <2>4. mapped[space[s]] = Pages(0, arg[s])
    BY <2>3 DEF Inv, Settled, MappedIsSize
  <2> QED BY <2>1, <2>4 DEF ForkPanics, CopyMisses
<1> QED BY <1>1, <1>2

\* sbrk disturbs nobody.
LEMMA SbrkNext ==
  ASSUME Inv, ~disturbed', NEW s \in Slots, Sbrk(s), TypeOK'
  PROVE  Inv'
<1>0. /\ s \in alive /\ pc[s] = "user" /\ pc' = [pc EXCEPT ![s] = "grow"]
      /\ arg' = [arg EXCEPT ![s] = arg'[s]]
      /\ UNCHANGED <<alive, parent, isThread, space, sz, mapped, new, locked, panicked>>
  BY DEF Sbrk, Calls, Runs, procs, memory, Inv, TypeOK
<1>1. TypeOK BY DEF Inv
<1>2. Family'
  BY <1>0, <1>1 DEF Inv, Family, Ready, TypeOK
<1>3. Makes'
  BY <1>0, <1>1 DEF Inv, Makes, Making, TypeOK
<1>4. Solo'
  BY <1>0, <1>1 DEF Inv, Solo, Making, TypeOK, Family
<1>5. SizesAgree' /\ MappedIsSize' /\ NoPanic'
  BY <1>0, <1>1 DEF Inv, Settled, SizesAgree, MappedIsSize, NoPanic, Ready, TypeOK
<1> QED BY <1>2, <1>3, <1>4, <1>5 DEF Inv

\* growproc changes the size of exactly those who live in its page table.
LEMMA GrowNext ==
  ASSUME Inv, ~disturbed', NEW s \in Slots, Grow(s), TypeOK'
  PROVE  Inv'
<1>0. /\ pc[s] = "grow" /\ ~locked /\ pc' = [pc EXCEPT ![s] = "user"]
      /\ sz' = [q \in Slots |-> IF q = s \/ Updated(s, q) THEN NewSize(s) ELSE sz[q]]
      /\ mapped' = [mapped EXCEPT ![space[s]] = Remapped(s)]
      /\ new' = [new EXCEPT ![s] = 0] /\ arg' = [arg EXCEPT ![s] = 0]
      /\ UNCHANGED <<alive, parent, isThread, space, locked, panicked>>
  BY DEF Grow, Goes, procs, Repage, Done
<1>1. TypeOK BY DEF Inv
<1>2. Family'
  BY <1>0, <1>1 DEF Inv, Family, Ready, TypeOK
<1>3. (\A q \in Slots : ~Making(q)) /\ Kind(s) # "child"
  BY <1>0, RunsAlone DEF Grow, Goes, Making
<1>4. Makes'
  BY <1>0, <1>1, <1>3 DEF Inv, Makes, Making, TypeOK
<1>5. Solo'
  BY <1>0, <1>1 DEF Inv, Solo, Making, TypeOK
<1>6. \A q \in Slots : Ready(q)' <=> Ready(q)
  BY <1>0, <1>1 DEF Ready, TypeOK
<1>7. \A q \in Slots : Ready(q) =>
        sz'[q] = IF space[q] = space[s] THEN NewSize(s) ELSE sz[q]
  BY <1>0, <1>3, UpdatedIsTheSpace
<1>8. SizesAgree'
  BY <1>0, <1>6, <1>7 DEF Inv, Settled, SizesAgree
<1>9. MappedIsSize'
  BY <1>0, <1>1, <1>6, <1>7, GrowFacts DEF Inv, Settled, MappedIsSize, TypeOK
<1>10. NoPanic'
  BY <1>0 DEF Inv, NoPanic
<1> QED BY <1>2, <1>4, <1>5, <1>8, <1>9, <1>10 DEF Inv

\* After a failure the lock is held, and there is nothing left to say.
LEMMA GrowFailsNext ==
  ASSUME Inv, ~disturbed', NEW s \in Slots, GrowFails(s), TypeOK'
  PROVE  Inv'
<1>0. /\ pc[s] = "grow" /\ locked' /\ pc' = [pc EXCEPT ![s] = "user"]
      /\ new' = [new EXCEPT ![s] = 0] /\ arg' = [arg EXCEPT ![s] = 0]
      /\ UNCHANGED <<alive, parent, isThread, space, sz, panicked>>
  BY DEF GrowFails, Goes, procs, Done
<1>1. TypeOK BY DEF Inv
<1>2. Family'
  BY <1>0, <1>1 DEF Inv, Family, Ready, TypeOK
<1>3. \A q \in Slots : ~Making(q)
  BY <1>0, RunsAlone DEF GrowFails, Goes, Making
<1>4. Makes'
  BY <1>0, <1>1, <1>3 DEF Inv, Makes, Making, TypeOK
<1>5. Solo'
  BY <1>0, <1>1 DEF Inv, Solo, Making, TypeOK
<1>6. SizesAgree' /\ MappedIsSize' /\ NoPanic'
  BY <1>0 DEF Inv, Settled, SizesAgree, MappedIsSize, NoPanic
<1> QED BY <1>2, <1>4, <1>5, <1>6 DEF Inv

\* The begin of a clone or a fork: a slot that nobody refers to.
LEMMA AllocNext ==
  ASSUME Inv, ~disturbed', NEW s \in Slots, Clone(s) \/ Fork(s), TypeOK'
  PROVE  Inv'
<1>1. TypeOK BY DEF Inv
<1>2. PICK j \in Slots \ alive : alive' = alive \cup {j} /\ new' = [new EXCEPT ![s] = j]
  BY DEF Clone, Fork, Alloc
<1>3. PICK place \in {"clone_size", "fork_bound"} :
        /\ pc' = [pc EXCEPT ![s] = place]
        /\ place = "fork_bound" => ~isThread[s]
  BY DEF Clone, Fork
<1>4. /\ s \in alive /\ pc[s] = "user" /\ ~locked
      /\ UNCHANGED <<parent, isThread, space, sz, mapped, arg, locked, panicked>>
  BY DEF Clone, Fork, Calls, Runs, Alloc, memory
<1>5. \A q \in Slots : ~Making(q)
  BY <1>4, RunsAlone DEF Clone, Fork, Calls, Making
<1>6. pc[j] = "born" /\ j # s
  BY <1>2, <1>4 DEF Inv, Family
<1>7. \A q \in Slots : Ready(q)' <=> Ready(q)
  BY <1>1, <1>2, <1>3, <1>4, <1>6 DEF Ready, TypeOK
<1>8. Family'
  BY <1>1, <1>2, <1>3, <1>4, <1>6, <1>7 DEF Inv, Family, TypeOK
<1>9. Makes'
  BY <1>1, <1>2, <1>3, <1>4, <1>5, <1>6 DEF Inv, Makes, Making, TypeOK
<1>10. Solo'
  BY <1>1, <1>3, <1>4, <1>5 DEF Solo, Making, TypeOK
<1>11. SizesAgree' /\ MappedIsSize' /\ NoPanic'
  BY <1>4, <1>7 DEF Inv, Settled, SizesAgree, MappedIsSize, NoPanic
<1> QED BY <1>8, <1>9, <1>10, <1>11 DEF Inv

\* While a clone or fork is under way there is no other.
LEMMA MakingAlone ==
  ASSUME Inv, NEW s \in Slots, Making(s)
  PROVE  \A q \in Slots : q # s => ~Making(q)
  BY DEF Inv, Solo

\* The first half of a clone fills in a slot that is not ready.
LEMMA CloneSizeNext ==
  ASSUME Inv, ~disturbed', NEW s \in Slots, CloneSize(s), TypeOK'
  PROVE  Inv'
<1>1. TypeOK BY DEF Inv
<1>2. Making(s) /\ pc[s] = "clone_size" /\ pc' = [pc EXCEPT ![s] = "clone_flag"]
  BY DEF CloneSize, Goes, Making
<1>3. /\ parent' = [parent EXCEPT ![new[s]] = IF isThread[s] THEN parent[s] ELSE s]
      /\ sz' = [sz EXCEPT ![new[s]] = sz[s]]
      /\ UNCHANGED <<alive, isThread, space, mapped, new, arg, locked, panicked>>
  BY DEF CloneSize, memory
<1>4. new[s] \in Slots /\ new[s] # s /\ pc[new[s]] = "born" /\ ~isThread[new[s]]
  BY <1>2 DEF Inv, Makes, Family, Making
<1>5. Ready(s)
  BY <1>2 DEF Inv, Makes, Ready
<1>6. \A q \in Slots : Ready(q)' <=> Ready(q)
  BY <1>1, <1>2, <1>3 DEF Ready, TypeOK
<1>7. \A q \in Slots : Ready(q) => q # new[s] /\ sz'[q] = sz[q] /\ parent'[q] = parent[q]
  BY <1>1, <1>3, <1>4 DEF Ready, TypeOK
<1>8. Family'
  BY <1>1, <1>2, <1>3, <1>4, <1>6, <1>7 DEF Inv, Family, TypeOK
<1>9. parent'[new[s]] = space[s] /\ sz'[new[s]] = sz'[s]
  BY <1>1, <1>3, <1>4, <1>5 DEF Inv, Family, TypeOK
<1>10. Makes'
  BY <1>1, <1>2, <1>3, <1>4, <1>9, MakingAlone DEF Inv, Makes, Making, TypeOK
<1>11. Solo'
  BY <1>1, <1>2, MakingAlone DEF Inv, Solo, Making, TypeOK
<1>12. SizesAgree' /\ MappedIsSize' /\ NoPanic'
  BY <1>3, <1>6, <1>7 DEF Inv, Settled, SizesAgree, MappedIsSize, NoPanic
<1> QED BY <1>8, <1>10, <1>11, <1>12 DEF Inv

\* The second half makes it a thread, of the size and in the page table of the
\* caller.
LEMMA CloneFlagNext ==
  ASSUME Inv, ~disturbed', NEW s \in Slots, CloneFlag(s), TypeOK'
  PROVE  Inv'
<1>1. TypeOK BY DEF Inv
<1>2. Making(s) /\ pc[s] = "clone_flag"
  BY DEF CloneFlag, Making
<1> DEFINE j == new[s]
<1>3. /\ pc' = [pc EXCEPT ![s] = "user", ![j] = "user"]
      /\ space' = [space EXCEPT ![j] = space[s]]
      /\ isThread' = [isThread EXCEPT ![j] = TRUE]
      /\ new' = [new EXCEPT ![s] = 0] /\ arg' = [arg EXCEPT ![s] = 0]
      /\ UNCHANGED <<alive, parent, sz, mapped, locked, panicked>>
  BY DEF CloneFlag, Done, memory
<1>4. /\ j \in Slots /\ j # s /\ pc[j] = "born" /\ j \in alive /\ ~locked
      /\ sz[j] = sz[s] /\ parent[j] = space[s] /\ s \in alive
  BY <1>2 DEF Inv, Makes, Making
<1>5. Ready(s)
  BY <1>2, <1>4 DEF Ready
<1>6. space[s] \in Slots /\ Ready(space[s]) /\ ~isThread[space[s]] /\ space[s] # j
  BY <1>4, <1>5 DEF Inv, Family, Ready
<1> HIDE DEF j
<1>7. \A q \in Slots : Ready(q)' <=> Ready(q) \/ q = j
  BY <1>1, <1>3, <1>4, <1>5 DEF Ready, TypeOK
<1>8. \A q \in Slots : q # j => space'[q] = space[q] /\ isThread'[q] = isThread[q]
  BY <1>1, <1>3 DEF TypeOK
<1>9. space'[j] = space[s] /\ isThread'[j]
  BY <1>1, <1>3, <1>4 DEF TypeOK
<1>10. \A q \in Slots : pc'[q] = IF q \in {s, j} THEN "user" ELSE pc[q]
  BY <1>1, <1>3, <1>4 DEF TypeOK
<1>11. Family'
  <2>1. ASSUME NEW q \in Slots, q \notin alive' PROVE pc'[q] = "born"
    <3>1. q \notin alive /\ q # s /\ q # j
      BY <2>1, <1>3, <1>4
    <3>2. pc[q] = "born"
      BY <3>1 DEF Inv, Family
    <3> QED BY <3>1, <3>2, <1>10
  <2>2. \A q \in Slots : pc'[q] = "born" => ~isThread'[q] /\ space'[q] = q
    BY <1>8, <1>10 DEF Inv, Family
  <2>3. \A q \in Slots : Ready(q)' /\ isThread'[q] =>
          /\ parent'[q] \in Slots /\ Ready(parent[q]) /\ ~isThread'[parent[q]]
          /\ space'[q] = parent'[q]
    <3>1. ASSUME NEW q \in Slots, q # j, Ready(q), isThread[q]
          PROVE  parent[q] \in Slots /\ Ready(parent[q]) /\ ~isThread[parent[q]]
                 /\ space[q] = parent[q] /\ parent[q] # j
      BY <3>1, <1>4 DEF Inv, Family, Ready
    <3> QED BY <1>3, <1>4, <1>6, <1>7, <1>8, <1>9, <3>1
  <2>4. \A q \in Slots : Ready(q)' /\ ~isThread'[q] => space'[q] = q
    BY <1>7, <1>8, <1>9 DEF Inv, Family
  <2>5. 1 \in Slots /\ Ready(1)' /\ parent'[1] = 0 /\ ~isThread'[1]
    BY <1>3, <1>4, <1>7, <1>8 DEF Inv, Family, Ready
  <2> QED BY <1>3, <1>7, <2>1, <2>2, <2>3, <2>4, <2>5 DEF Family
<1>12. Makes' /\ Solo'
  <2>1. \A q \in Slots : ~Making(q)'
    BY <1>2, <1>10, MakingAlone DEF Making
  <2>2. ASSUME NEW q \in Slots, pc'[q] = "grow"
        PROVE  q \in alive'
    <3>1. pc[q] = "grow"
      BY <2>2, <1>10
    <3> QED BY <3>1, <1>3 DEF Inv, Makes
  <2>3. Solo'
    BY <2>1 DEF Solo
  <2>4. \A q \in Slots : pc'[q] \notin {"clone_flag", "fork_bound", "fork_copy", "fork_size"}
    BY <2>1 DEF Making
  <2> QED BY <2>1, <2>2, <2>3, <2>4 DEF Makes
<1>13. \A p \in Slots : Ready(p)' => sz'[p] = sz[p] /\ mapped'[space'[p]] = Pages(0, sz[p])
  BY <1>3, <1>4, <1>5, <1>7, <1>8, <1>9 DEF Inv, Settled, MappedIsSize
<1>14. SizesAgree' /\ MappedIsSize' /\ NoPanic'
  BY <1>3, <1>4, <1>5, <1>7, <1>8, <1>9, <1>13 DEF Inv, Settled, SizesAgree, MappedIsSize, NoPanic
<1> QED BY <1>11, <1>12, <1>14 DEF Inv

\* fork hands its size to copyuvm.
LEMMA ForkBoundNext ==
  ASSUME Inv, ~disturbed', NEW s \in Slots, ForkBound(s), TypeOK'
  PROVE  Inv'
<1>1. TypeOK BY DEF Inv
<1>2. /\ Making(s) /\ pc' = [pc EXCEPT ![s] = "fork_copy"]
      /\ pc[s] = "fork_bound" /\ arg' = [arg EXCEPT ![s] = sz[s]]
      /\ UNCHANGED <<alive, parent, isThread, space, sz, mapped, new, locked, panicked>>
  BY DEF ForkBound, Goes, Making, procs, memory
<1>3. new[s] \in Slots /\ new[s] # s
  BY <1>2 DEF Inv, Makes
<1>4. \A q \in Slots : Ready(q)' <=> Ready(q)
  BY <1>1, <1>2 DEF Ready, TypeOK
<1>5. Family'
  BY <1>1, <1>2, <1>4 DEF Inv, Family, TypeOK
<1>6. Makes'
  BY <1>1, <1>2, <1>3, MakingAlone DEF Inv, Makes, Making, TypeOK
<1>7. Solo'
  BY <1>1, <1>2, MakingAlone DEF Inv, Solo, Making, TypeOK
<1>8. SizesAgree' /\ MappedIsSize' /\ NoPanic'
  BY <1>2, <1>4 DEF Inv, Settled, SizesAgree, MappedIsSize, NoPanic
<1> QED BY <1>5, <1>6, <1>7, <1>8 DEF Inv

\* copyuvm fills the page table of the new slot, in which nobody lives.
LEMMA ForkCopyNext ==
  ASSUME Inv, ~disturbed', NEW s \in Slots, ForkCopy(s), TypeOK'
  PROVE  Inv'
<1>1. TypeOK BY DEF Inv
<1>2. /\ Making(s) /\ pc[s] = "fork_copy" /\ pc' = [pc EXCEPT ![s] = "fork_size"]
      /\ mapped' = [mapped EXCEPT ![new[s]] = Pages(0, arg[s])]
      /\ UNCHANGED <<alive, parent, isThread, space, sz, new, arg, locked, panicked>>
  BY DEF ForkCopy, Goes, Making, procs, Repage
<1>3. new[s] \in Slots /\ new[s] # s /\ arg[s] = sz[s]
  BY <1>2 DEF Inv, Makes
<1>4. \A q \in Slots : Ready(q)' <=> Ready(q)
  BY <1>1, <1>2 DEF Ready, TypeOK
<1>5. Family'
  BY <1>1, <1>2, <1>4 DEF Inv, Family, TypeOK
<1>6. mapped'[new[s]] = Pages(0, sz[s])
  BY <1>1, <1>2, <1>3 DEF TypeOK
<1>7. Makes'
  BY <1>1, <1>2, <1>3, <1>6, MakingAlone DEF Inv, Makes, Making, TypeOK
<1>8. Solo'
  BY <1>1, <1>2, MakingAlone DEF Inv, Solo, Making, TypeOK
<1>9. \A q \in Slots : Ready(q) => mapped'[space[q]] = mapped[space[q]]
  BY <1>1, <1>2, NewIsNobodysSpace DEF TypeOK
<1>10. SizesAgree' /\ MappedIsSize' /\ NoPanic'
  BY <1>2, <1>4, <1>9 DEF Inv, Settled, SizesAgree, MappedIsSize, NoPanic
<1> QED BY <1>5, <1>7, <1>8, <1>10 DEF Inv

\* When copyuvm fails the slot is as it was.
LEMMA ForkFailsNext ==
  ASSUME Inv, ~disturbed', NEW s \in Slots, ForkFails(s), TypeOK'
  PROVE  Inv'
<1>1. TypeOK BY DEF Inv
<1>2. /\ Making(s) /\ pc[s] = "fork_copy" /\ pc' = [pc EXCEPT ![s] = "user"]
      /\ alive' = alive \ {new[s]}
      /\ new' = [new EXCEPT ![s] = 0] /\ arg' = [arg EXCEPT ![s] = 0]
      /\ UNCHANGED <<parent, isThread, space, sz, mapped, locked, panicked>>
  BY DEF ForkFails, Goes, Making, memory, Done
<1>3. /\ new[s] \in Slots /\ new[s] # s /\ s \in alive
      /\ pc[new[s]] = "born"
  BY <1>2 DEF Inv, Makes
<1>4. \A q \in Slots : Ready(q)' <=> Ready(q)
  BY <1>1, <1>2, <1>3 DEF Ready, TypeOK
<1>5. Family'
  <2>1. \A q \in Slots : q \notin alive' => pc'[q] = "born"
    BY <1>1, <1>2, <1>3 DEF Inv, Family, TypeOK
  <2> QED BY <1>1, <1>2, <1>3, <1>4, <2>1 DEF Inv, Family, TypeOK
<1>6. Makes'
  BY <1>1, <1>2, <1>3, MakingAlone DEF Inv, Makes, Making, TypeOK
<1>7. Solo'
  BY <1>1, <1>2, MakingAlone DEF Inv, Solo, Making, TypeOK
<1>8. SizesAgree' /\ MappedIsSize' /\ NoPanic'
  BY <1>2, <1>4 DEF Inv, Settled, SizesAgree, MappedIsSize, NoPanic
<1> QED BY <1>5, <1>6, <1>7, <1>8 DEF Inv

\* The child gets the size of the parent, of which copyuvm has just mapped the
\* pages.
LEMMA ForkSizeNext ==
  ASSUME Inv, ~disturbed', NEW s \in Slots, ForkSize(s), TypeOK'
  PROVE  Inv'
<1>1. TypeOK BY DEF Inv
<1>2. Making(s) /\ pc[s] = "fork_size"
  BY DEF ForkSize, Making
<1> DEFINE j == new[s]
<1>3. /\ pc' = [pc EXCEPT ![s] = "user", ![j] = "user"]
      /\ sz' = [sz EXCEPT ![j] = sz[s]]
      /\ parent' = [parent EXCEPT ![j] = s]
      /\ isThread' = [isThread EXCEPT ![j] = FALSE]
      /\ new' = [new EXCEPT ![s] = 0] /\ arg' = [arg EXCEPT ![s] = 0]
      /\ UNCHANGED <<alive, space, mapped, locked, panicked>>
  BY DEF ForkSize, Done, memory
<1>4. /\ j \in Slots /\ j # s /\ pc[j] = "born" /\ j \in alive /\ ~locked
      /\ mapped[j] = Pages(0, sz[s]) /\ s \in alive /\ space[j] = j
  BY <1>2 DEF Inv, Makes, Making, Family
<1>5. Ready(s)
  BY <1>2, <1>4 DEF Ready
<1>6. \A q \in Slots : Ready(q) => q # j /\ space[q] # j
  BY <1>2, NewIsNobodysSpace
<1> HIDE DEF j
<1>7. \A q \in Slots : Ready(q)' <=> Ready(q) \/ q = j
  BY <1>1, <1>3, <1>4, <1>5 DEF Ready, TypeOK
<1>8. \A q \in Slots : q # j => /\ parent'[q] = parent[q] /\ sz'[q] = sz[q]
                               /\ isThread'[q] = isThread[q]
  BY <1>1, <1>3 DEF TypeOK
<1>9. ~isThread'[j] /\ sz'[j] = sz[s]
  BY <1>1, <1>3, <1>4 DEF TypeOK
<1>10. \A q \in Slots : pc'[q] = IF q \in {s, j} THEN "user" ELSE pc[q]
  BY <1>1, <1>3, <1>4 DEF TypeOK
<1>11. Family'
  <2>1. \A q \in Slots : q \notin alive' => pc'[q] = "born"
    BY <1>3, <1>4, <1>10, ZenonT(40) DEF Inv, Family
  <2>2. \A q \in Slots : pc'[q] = "born" => ~isThread'[q] /\ space'[q] = q
    BY <1>3, <1>8, <1>10 DEF Inv, Family
  <2>3. \A q \in Slots : Ready(q)' /\ isThread'[q] =>
          /\ parent'[q] \in Slots /\ Ready(parent[q])' /\ ~isThread'[parent'[q]]
          /\ space'[q] = parent'[q]
    <3>1. ASSUME NEW q \in Slots, Ready(q), isThread[q]
          PROVE  parent[q] \in Slots /\ Ready(parent[q]) /\ ~isThread[parent[q]]
                 /\ space[q] = parent[q] /\ parent[q] # j
      BY <3>1, <1>6 DEF Inv, Family
    <3> QED BY <1>3, <1>4, <1>6, <1>7, <1>8, <1>9, <3>1
  <2>4. \A q \in Slots : Ready(q)' /\ ~isThread'[q] => space'[q] = q
    BY <1>3, <1>4, <1>7, <1>8 DEF Inv, Family
  <2>5. 1 \in Slots /\ Ready(1)' /\ parent'[1] = 0 /\ ~isThread'[1]
    BY <1>3, <1>6, <1>7, <1>8 DEF Inv, Family
  <2> QED BY <1>3, <1>7, <2>1, <2>2, <2>3, <2>4, <2>5 DEF Family
<1>12. Makes' /\ Solo'
  <2>1. \A q \in Slots : ~Making(q)'
    BY <1>2, <1>10, MakingAlone DEF Making
  <2>2. ASSUME NEW q \in Slots, pc'[q] = "grow"
        PROVE  q \in alive'
    <3>1. pc[q] = "grow"
      BY <2>2, <1>10
    <3> QED BY <3>1, <1>3 DEF Inv, Makes
  <2>3. Solo'
    BY <2>1 DEF Solo
  <2>4. \A q \in Slots : pc'[q] \notin {"clone_flag", "fork_bound", "fork_copy", "fork_size"}
    BY <2>1 DEF Making
  <2> QED BY <2>1, <2>2, <2>3, <2>4 DEF Makes
<1>13. SizesAgree' /\ MappedIsSize' /\ NoPanic'
  BY <1>3, <1>4, <1>6, <1>7, <1>8, <1>9 DEF Inv, Settled, SizesAgree, MappedIsSize, NoPanic
<1> QED BY <1>11, <1>12, <1>13 DEF Inv

-----------------------------------------------------------------------------
(* The invariant, and what it is for. *)

\* Every step keeps it.
LEMMA InvNext == Inv /\ [Next]_vars /\ ~disturbed' => Inv'
<1> SUFFICES ASSUME Inv, [Next]_vars, ~disturbed' PROVE Inv'
  OBVIOUS
<1>1. CASE UNCHANGED vars
  BY <1>1 DEF vars, procs, memory, Inv, TypeOK, Family, Makes, Solo, SizesAgree,
     MappedIsSize, NoPanic, Ready, Making, Settled
<1>2. CASE Next
  <2>1. PICK s \in Slots :
          \/ Sbrk(s) \/ Grow(s) \/ GrowFails(s) \/ GrowPanics(s)
          \/ Clone(s) \/ CloneSize(s) \/ CloneFlag(s)
          \/ Fork(s) \/ ForkBound(s) \/ ForkCopy(s) \/ ForkFails(s) \/ ForkPanics(s) \/ ForkSize(s)
    BY <1>2 DEF Next
  <2>2. TypeOK'
    BY <2>1, TypeNext
  <2> QED BY <2>1, <2>2, SbrkNext, GrowNext, GrowFailsNext, AllocNext, CloneSizeNext,
             CloneFlagNext, ForkBoundNext, ForkCopyNext, ForkFailsNext, ForkSizeNext, NoPanicNext
<1> QED BY <1>1, <1>2

\* What has been disturbed stays disturbed.
LEMMA DisturbedForGood == [Next]_vars /\ ~disturbed' => ~disturbed
<1>1. UNCHANGED vars => disturbed' = disturbed
  BY DEF vars
<1>2. ASSUME Next PROVE \E s \in Slots : Runs(s)
  BY <1>2, Zenon DEF Next, Sbrk, Grow, GrowFails, GrowPanics, Clone, CloneSize, CloneFlag,
     Fork, ForkBound, ForkCopy, ForkFails, ForkPanics, ForkSize, Goes, Calls
<1>3. ASSUME NEW s \in Slots, Runs(s), ~disturbed' PROVE ~disturbed
  BY <1>3, Zenon DEF Runs
<1> QED BY <1>1, <1>2, <1>3, Zenon

\* The invariant holds for ever.
LEMMA InvAlways == Spec => []GInv
<1>1. Init => GInv
  BY InitInv DEF GInv
<1>2. GInv /\ [Next]_vars => GInv'
  BY InvNext, DisturbedForGood, Zenon DEF GInv
<1> QED BY <1>1, <1>2, PTL DEF Spec

\* A process and its threads agree on the size of their memory, after every
\* growproc of any of them and with every clone: the scan of growproc finds
\* exactly those who use its page table.
THEOREM TeamAgrees == Spec => []SizesAgree
<1>1. GInv => SizesAgree BY Zenon DEF GInv, Inv, SizesAgree, Settled
<1> QED BY InvAlways, <1>1, PTL

\* Exactly the pages below sz are mapped, for every process and thread, whatever
\* allocuvm, deallocuvm and copyuvm do in between.
THEOREM PagesAreTheSize == Spec => []MappedIsSize
<1>1. GInv => MappedIsSize BY Zenon DEF GInv, Inv, MappedIsSize, Settled
<1> QED BY InvAlways, <1>1, PTL

\* mappages never finds a page that is there already, and copyuvm never misses
\* one: neither of their panics happens.
THEOREM KernelDoesNotPanic == Spec => []NoPanic
<1>1. GInv => NoPanic BY Zenon DEF GInv, Inv, NoPanic
<1> QED BY InvAlways, <1>1, PTL

-----------------------------------------------------------------------------
(* Where the pages are, whoever disturbs whom. *)

AllPages == Pages(0, Top)

\* Of the types and of the calls under way only what decides which pages move:
\* no size is beyond USERTOP, and fork copies no more than a size.
Whole ==
  /\ sz \in [Slots -> 0..Top] /\ mapped \in [Slots -> SUBSET AllPages]
  /\ space \in [Slots -> Slots] /\ arg \in [Slots -> Int]
  /\ new \in [Slots -> 0..NPROC] /\ pc \in [Slots -> Places]
  /\ \A q \in Slots : /\ Making(q) => new[q] \in Slots
                      /\ pc[q] = "fork_copy" => arg[q] \in 0..Top
  /\ PagesConserved

\* How many pages lie between two sizes.
LEMMA PageCount ==
  ASSUME NEW u \in Int, NEW w \in Int, 0 <= u, u <= w, w <= Top
  PROVE  /\ Pages(u, w) \in SUBSET AllPages
         /\ PageUp(u) \in Nat /\ PageUp(w) \in Nat /\ PageUp(u) <= PageUp(w)
         /\ Cardinality(Pages(u, w)) = PageUp(w) - PageUp(u)
<1>1. /\ PageUp(u) \in Nat /\ PageUp(w) \in Nat /\ PageUp(Top) \in Nat /\ PageUp(0) = 0
      /\ PageUp(u) <= PageUp(w) /\ PageUp(w) <= PageUp(Top)
  BY SpaceAssumption, PageUpFacts
<1>2. Pages(u, w) \in SUBSET AllPages
  BY <1>1 DEF Pages, AllPages
<1>3. Cardinality(PageUp(u)..(PageUp(w) - 1)) = PageUp(w) - PageUp(u)
  <2>1. PICK a \in Nat, b \in Nat : a = PageUp(u) /\ b = PageUp(w) /\ a <= b
    BY <1>1
  <2>2. Cardinality(a..(b - 1)) = b - a
    <3>1. a \in Int /\ b - 1 \in Int
      BY <2>1
    <3>2. Cardinality(a..(b - 1)) = IF a > b - 1 THEN 0 ELSE (b - 1) - a + 1
      BY <3>1, FS_Interval
    <3>3. QED BY <2>1, <3>2
  <2>3. QED BY <2>1, <2>2
<1>4. QED BY <1>1, <1>2, <1>3 DEF Pages

\* A set of pages is finite, and so are the entries of all the tables.
LEMMA Finite ==
  /\ \A S \in SUBSET AllPages : IsFiniteSet(S) /\ Cardinality(S) \in Nat
  /\ IsFiniteSet(Entries) /\ Cardinality(Entries) \in Nat
<1>1. PageUp(0) \in Int /\ PageUp(Top) - 1 \in Int /\ NPROC \in Int
  BY SpaceAssumption, PageUpFacts
<1>2. IsFiniteSet(AllPages) /\ IsFiniteSet(Slots)
  <2>1. IsFiniteSet(PageUp(0)..(PageUp(Top) - 1))
    BY <1>1, FS_Interval
  <2>2. IsFiniteSet(1..NPROC)
    BY <1>1, FS_Interval
  <2>3. QED BY <2>1, <2>2 DEF AllPages, Pages, Slots
<1>3. IsFiniteSet(Slots \X AllPages) /\ Entries \in SUBSET (Slots \X AllPages)
  BY <1>2, FS_Product DEF Entries, AllPages
<1>4. QED BY <1>2, <1>3, FS_Subset, FS_CardinalityType

\* Fewer pages, and pages of two kinds.
LEMMA FewerPages ==
  \A S, T \in SUBSET AllPages :
    /\ Cardinality(S \ T) <= Cardinality(S)
    /\ Cardinality(S \cup T) <= Cardinality(S) + Cardinality(T)
<1> SUFFICES ASSUME NEW S \in SUBSET AllPages, NEW T \in SUBSET AllPages
             PROVE  /\ Cardinality(S \ T) <= Cardinality(S)
                    /\ Cardinality(S \cup T) <= Cardinality(S) + Cardinality(T)
  OBVIOUS
<1>1. /\ IsFiniteSet(S) /\ IsFiniteSet(T) /\ S \cap T \in SUBSET AllPages
      /\ Cardinality(S) \in Nat /\ Cardinality(T) \in Nat
  BY Finite
<1>2. Cardinality(S \cap T) \in Nat
  BY <1>1, Finite
<1>3. Cardinality(S \ T) = Cardinality(S) - Cardinality(S \cap T)
  BY <1>1, FS_Difference
<1>4. Cardinality(S \cup T) = Cardinality(S) + Cardinality(T) - Cardinality(S \cap T)
  BY <1>1, FS_Union
<1>5. QED BY <1>1, <1>2, <1>3, <1>4

\* What a page table has more or less is what kalloc has less or more.
LEMMA RepageConserves ==
  ASSUME Whole, NEW v \in Slots, NEW pages \in SUBSET AllPages, Repage(v, pages),
         Cardinality(pages) <= free + Cardinality(mapped[v])
  PROVE  PagesConserved' /\ mapped' \in [Slots -> SUBSET AllPages]
<1>1. /\ mapped \in [Slots -> SUBSET AllPages]
      /\ free \in Nat /\ free + Cardinality(Entries) = Memory
      /\ mapped' = [mapped EXCEPT ![v] = pages]
      /\ free' = free + Cardinality(mapped[v]) - Cardinality(pages)
  BY DEF Whole, PagesConserved, Repage
<1>2. /\ Cardinality(mapped[v]) \in Nat /\ Cardinality(pages) \in Nat
      /\ Cardinality(Entries) \in Nat
  BY <1>1, Finite
<1> DEFINE rest == Entries \ ({v} \X mapped[v])
<1>3. \A R \in SUBSET AllPages :
        IsFiniteSet({v} \X R) /\ Cardinality({v} \X R) = Cardinality(R)
  <2> SUFFICES ASSUME NEW R \in SUBSET AllPages
               PROVE  IsFiniteSet({v} \X R) /\ Cardinality({v} \X R) = Cardinality(R)
    OBVIOUS
  <2>1. IsFiniteSet({v}) /\ Cardinality({v}) = 1 /\ IsFiniteSet(R) /\ Cardinality(R) \in Nat
    BY Finite, FS_Singleton
  <2>2. IsFiniteSet({v} \X R) /\ Cardinality({v} \X R) = Cardinality({v}) * Cardinality(R)
    BY <2>1, FS_Product
  <2>3. QED BY <2>1, <2>2
<1>4. Entries \cap ({v} \X mapped[v]) = {v} \X mapped[v]
  BY <1>1 DEF Entries, AllPages
<1>5. IsFiniteSet(rest) /\ Cardinality(rest) = Cardinality(Entries) - Cardinality(mapped[v])
  <2>1. /\ IsFiniteSet(Entries \ ({v} \X mapped[v]))
        /\ Cardinality(Entries \ ({v} \X mapped[v]))
             = Cardinality(Entries) - Cardinality(Entries \cap ({v} \X mapped[v]))
    BY Finite, FS_Difference
  <2>2. QED BY <1>1, <1>3, <1>4, <2>1
<1>6. rest \cap ({v} \X pages) = {}
  BY DEF Entries
<1>7. Entries' = rest \cup ({v} \X pages)
  <2>1. Entries' = {x \in Slots \X Pages(0, Top) : x[2] \in mapped'[x[1]]}
    BY DEF Entries, Slots, Pages, PageUp
  <2>2. QED BY <1>1, <2>1 DEF Entries, AllPages
<1>8. Cardinality(rest \cup ({v} \X pages))
        = Cardinality(rest) + Cardinality({v} \X pages) - Cardinality({})
  <2> HIDE DEF rest
  <2>1. QED BY <1>3, <1>5, <1>6, FS_Union
<1>9. Cardinality(Entries') = Cardinality(rest) + Cardinality({v} \X pages) - Cardinality({})
  BY <1>7, <1>8
<1>10. Cardinality({v} \X pages) = Cardinality(pages) /\ Cardinality({}) = 0
  BY <1>3, FS_EmptySet
<1> HIDE DEF rest
<1>11. free' \in Nat /\ free' + Cardinality(Entries') = Memory
  BY <1>1, <1>2, <1>5, <1>9, <1>10, SpaceAssumption
<1>12. mapped' \in [Slots -> SUBSET AllPages]
  BY <1>1
<1>13. QED BY <1>11, <1>12 DEF PagesConserved

\* A step that moves no page.
LEMMA NoPageMoves ==
  ASSUME Whole, UNCHANGED memory
  PROVE  PagesConserved' /\ mapped' \in [Slots -> SUBSET AllPages]
<1>1. mapped' = mapped /\ free' = free
  BY DEF memory
<1>2. Entries' = Entries
  BY <1>1 DEF Entries, Slots, Pages, PageUp
<1>3. QED BY <1>1, <1>2 DEF Whole, PagesConserved

\* The numbers of a call of growproc.
LEMMA GrowNumbers ==
  ASSUME Whole, NEW s \in Slots
  PROVE  /\ Top \in Nat /\ sz[s] \in 0..Top /\ arg[s] \in Int /\ Want(s) \in Int
         /\ space[s] \in Slots /\ mapped[space[s]] \in SUBSET AllPages
         /\ free \in Nat /\ Cardinality(mapped[space[s]]) \in Nat
         /\ Want(s) = sz[s] + arg[s]
<1>1. /\ Top \in Nat /\ sz[s] \in 0..Top /\ arg[s] \in Int
      /\ space[s] \in Slots /\ mapped[space[s]] \in SUBSET AllPages /\ free \in Nat
  BY SpaceAssumption DEF Whole, PagesConserved
<1>2. QED BY <1>1, Finite DEF Want

\* growproc that succeeds ends at or below USERTOP, and kalloc had the pages.
LEMMA GrowConserves ==
  ASSUME Whole, NEW s \in Slots, Grow(s)
  PROVE  /\ PagesConserved' /\ mapped' \in [Slots -> SUBSET AllPages]
         /\ NewSize(s) \in 0..Top
<1>1. /\ ~Remaps(s) /\ ~TooBig(s) /\ ~OutOfMemory(s) /\ ~ToNothing(s)
      /\ Repage(space[s], Remapped(s))
  BY DEF Grow
<1>2. NewSize(s) \in 0..Top
  BY <1>1, GrowNumbers DEF TooBig, NewSize
<1>3. /\ Remapped(s) \in SUBSET AllPages
      /\ Cardinality(Remapped(s)) <= free + Cardinality(mapped[space[s]])
  <2>1. CASE arg[s] > 0
    <3>1. NewSize(s) = Want(s) /\ sz[s] <= Want(s) /\ Want(s) <= Top /\ 0 <= sz[s]
      BY <1>2, <2>1, GrowNumbers DEF NewSize
    <3>2. /\ Pages(sz[s], Want(s)) \in SUBSET AllPages
          /\ PageUp(sz[s]) \in Nat /\ PageUp(Want(s)) \in Nat
          /\ Cardinality(Pages(sz[s], Want(s))) = PageUp(Want(s)) - PageUp(sz[s])
      BY <3>1, GrowNumbers, PageCount
    <3>3. free >= PageUp(Want(s)) - PageUp(sz[s])
      BY <1>1, <2>1, <3>1, <3>2, GrowNumbers DEF OutOfMemory
    <3>4. Remapped(s) = mapped[space[s]] \cup Pages(sz[s], Want(s))
      BY <3>1, GrowNumbers DEF Remapped
    <3>5. Cardinality(Remapped(s))
            <= Cardinality(mapped[space[s]]) + Cardinality(Pages(sz[s], Want(s)))
      BY <3>2, <3>4, GrowNumbers, FewerPages
    <3>6. Remapped(s) \in SUBSET AllPages /\ Cardinality(Remapped(s)) \in Nat
      BY <3>2, <3>4, GrowNumbers, Finite
    <3>7. QED BY <3>2, <3>3, <3>5, <3>6, GrowNumbers
  <2>2. CASE arg[s] <= 0 /\ NewSize(s) = sz[s]
    <3>1. Pages(sz[s], sz[s]) = {}
      <4>1. PageUp(sz[s]) \in Int
        BY GrowNumbers, PageUpFacts
      <4>2. QED BY <4>1 DEF Pages
    <3>2. Remapped(s) = mapped[space[s]]
      BY <2>2, <3>1, GrowNumbers DEF Remapped
    <3>3. QED BY <3>2, GrowNumbers
  <2>3. CASE arg[s] <= 0 /\ NewSize(s) # sz[s]
    <3>1. /\ NewSize(s) = Want(s) /\ 0 <= Want(s) /\ Want(s) < sz[s] /\ sz[s] <= Top
      BY <1>2, <2>3, GrowNumbers DEF NewSize
    <3>2. Pages(Want(s), sz[s]) \in SUBSET AllPages
      BY <3>1, GrowNumbers, PageCount
    <3>3. Remapped(s) = mapped[space[s]] \ Pages(Want(s), sz[s])
      BY <3>1, GrowNumbers DEF Remapped
    <3>4. Cardinality(Remapped(s)) <= Cardinality(mapped[space[s]])
      BY <3>2, <3>3, GrowNumbers, FewerPages
    <3>5. Remapped(s) \in SUBSET AllPages /\ Cardinality(Remapped(s)) \in Nat
      BY <3>3, GrowNumbers, Finite
    <3>6. QED BY <3>4, <3>5, GrowNumbers
  <2>4. QED BY <2>1, <2>2, <2>3, GrowNumbers
<1>4. PagesConserved' /\ mapped' \in [Slots -> SUBSET AllPages]
  BY <1>1, <1>3, GrowNumbers, RepageConserves
<1>5. QED BY <1>2, <1>4

\* growproc that fails gives pages back, or does nothing.
LEMMA GrowFailsConserves ==
  ASSUME Whole, NEW s \in Slots, GrowFails(s)
  PROVE  PagesConserved' /\ mapped' \in [Slots -> SUBSET AllPages]
<1>1. ASSUME NEW u \in Int, NEW w \in Int, 0 <= u, u <= w, w <= Top,
             Repage(space[s], mapped[space[s]] \ Pages(u, w))
      PROVE  PagesConserved' /\ mapped' \in [Slots -> SUBSET AllPages]
  <2> DEFINE left == mapped[space[s]] \ Pages(u, w)
  <2>1. left \in SUBSET AllPages /\ Pages(u, w) \in SUBSET AllPages
    BY <1>1, GrowNumbers, PageCount
  <2>2. Cardinality(left) <= Cardinality(mapped[space[s]]) /\ Cardinality(left) \in Nat
    BY <2>1, GrowNumbers, FewerPages, Finite
  <2>3. Repage(space[s], left)
    BY <1>1
  <2> HIDE DEF left
  <2>4. Cardinality(left) <= free + Cardinality(mapped[space[s]])
    BY <2>2, GrowNumbers
  <2>5. QED BY <2>1, <2>3, <2>4, GrowNumbers, RepageConserves
<1>2. CASE UNCHANGED memory
  BY <1>2, NoPageMoves
<1>3. CASE OutOfMemory(s) /\ Repage(space[s], mapped[space[s]] \ NewPages(s))
  <2>1. 0 <= sz[s] /\ sz[s] <= Want(s) /\ Want(s) <= Top /\ sz[s] \in Int /\ Want(s) \in Int
    BY <1>3, GrowNumbers DEF OutOfMemory
  <2>2. Repage(space[s], mapped[space[s]] \ Pages(sz[s], Want(s)))
    BY <1>3 DEF NewPages
  <2>3. QED BY <1>1, <2>1, <2>2
<1>4. CASE Repage(space[s], mapped[space[s]] \ Pages(0, sz[s]))
  BY <1>1, <1>4, GrowNumbers
<1>5. QED BY <1>2, <1>3, <1>4 DEF GrowFails

\* copyuvm has the pages it takes: it fails before it takes one too many.
LEMMA ForkCopyConserves ==
  ASSUME Whole, NEW s \in Slots, ForkCopy(s)
  PROVE  PagesConserved' /\ mapped' \in [Slots -> SUBSET AllPages]
<1>1. pc[s] = "fork_copy" /\ free >= PageUp(arg[s]) /\ Repage(new[s], Pages(0, arg[s]))
  BY DEF ForkCopy, Goes
<1>2. new[s] \in Slots /\ arg[s] \in 0..Top
  BY <1>1 DEF Whole, Making
<1>3. mapped[new[s]] \in SUBSET AllPages /\ free \in Nat /\ Top \in Nat
  BY <1>2, SpaceAssumption DEF Whole, PagesConserved
<1>4. /\ Pages(0, arg[s]) \in SUBSET AllPages /\ PageUp(arg[s]) \in Nat /\ PageUp(0) = 0
      /\ Cardinality(Pages(0, arg[s])) = PageUp(arg[s]) - PageUp(0)
  BY <1>2, <1>3, PageCount, PageUpFacts
<1>5. Cardinality(mapped[new[s]]) \in Nat
  BY <1>3, Finite
<1>6. Cardinality(Pages(0, arg[s])) <= free + Cardinality(mapped[new[s]])
  BY <1>1, <1>3, <1>4, <1>5
<1>7. QED BY <1>1, <1>2, <1>4, <1>6, RepageConserves

\* It holds at the start.
LEMMA InitWhole == Init => Whole
<1> SUFFICES ASSUME Init PROVE Whole
  OBVIOUS
<1>1. /\ 1 \in Slots /\ Start \in 0..Top /\ Top \in Nat /\ 0 \in 0..Top
      /\ PageUp(Start) <= Memory /\ Memory \in Nat /\ 0 \in 0..NPROC
  BY SpaceAssumption DEF Slots
<1>2. /\ Pages(0, Start) \in SUBSET AllPages
      /\ Cardinality(Pages(0, Start)) = PageUp(Start) /\ PageUp(Start) \in Nat
  <2>1. PageUp(0) = 0
    BY PageUpFacts
  <2>2. QED BY <1>1, <2>1, PageCount
<1>3. /\ sz \in [Slots -> 0..Top] /\ mapped \in [Slots -> SUBSET AllPages]
      /\ space \in [Slots -> Slots] /\ arg \in [Slots -> Int] /\ new \in [Slots -> 0..NPROC]
      /\ pc \in [Slots -> Places]
  BY <1>1, <1>2 DEF Init, Places
<1>4. \A q \in Slots : ~Making(q) /\ pc[q] # "fork_copy"
  BY DEF Init, Making
<1>5. PagesConserved
  <2>1. Entries = {1} \X Pages(0, Start)
    BY <1>1, <1>2 DEF Init, Entries, AllPages
  <2>2. IsFiniteSet({1}) /\ Cardinality({1}) = 1 /\ IsFiniteSet(Pages(0, Start))
    BY <1>2, Finite, FS_Singleton
  <2>3. Cardinality({1} \X Pages(0, Start)) = Cardinality({1}) * Cardinality(Pages(0, Start))
    BY <2>2, FS_Product
  <2>4. Cardinality(Entries) = PageUp(Start)
    BY <1>2, <2>1, <2>2, <2>3
  <2>5. free = Memory - PageUp(Start)
    BY DEF Init
  <2>6. QED BY <1>1, <1>2, <2>4, <2>5 DEF PagesConserved
<1>6. QED BY <1>3, <1>4, <1>5 DEF Whole

\* Every step keeps it, whoever takes it and in the middle of whatever.
LEMMA WholeNext ==
  ASSUME Whole, NEW s \in Slots,
         \/ Sbrk(s) \/ Grow(s) \/ GrowFails(s) \/ GrowPanics(s)
         \/ Clone(s) \/ CloneSize(s) \/ CloneFlag(s)
         \/ Fork(s) \/ ForkBound(s) \/ ForkCopy(s) \/ ForkFails(s) \/ ForkPanics(s) \/ ForkSize(s)
  PROVE  Whole'
<1>1. PagesConserved' /\ mapped' \in [Slots -> SUBSET AllPages]
  <2>1. CASE Grow(s) \/ GrowFails(s) \/ ForkCopy(s)
    BY <2>1, GrowConserves, GrowFailsConserves, ForkCopyConserves
  <2>2. CASE ~(Grow(s) \/ GrowFails(s) \/ ForkCopy(s))
    <3>1. UNCHANGED memory
      BY <2>2 DEF Sbrk, GrowPanics, Clone, CloneSize, CloneFlag, Fork, ForkBound, ForkFails,
         ForkPanics, ForkSize, Alloc
    <3>2. QED BY <3>1, NoPageMoves
  <2>3. QED BY <2>1, <2>2
<1>2. sz' \in [Slots -> 0..Top]
  <2>1. CASE Grow(s)
    BY <2>1, GrowConserves DEF Grow, Whole
  <2>2. CASE ~Grow(s)
    BY <2>2 DEF Whole, Sbrk, GrowFails, GrowPanics, Clone, CloneSize, CloneFlag,
       Fork, ForkBound, ForkCopy, ForkFails, ForkPanics, ForkSize, Alloc
  <2>3. QED BY <2>1, <2>2
<1>3. pc' \in [Slots -> Places]
  BY DEF Whole, Places, Sbrk, Grow, GrowFails, GrowPanics, Clone, CloneSize, CloneFlag,
     Fork, ForkBound, ForkCopy, ForkFails, ForkPanics, ForkSize, Goes, Calls
<1>4. space' \in [Slots -> Slots]
  BY DEF Whole, Sbrk, Grow, GrowFails, GrowPanics, Clone, CloneSize, CloneFlag,
     Fork, ForkBound, ForkCopy, ForkFails, ForkPanics, ForkSize, Alloc, procs
<1>5. arg' \in [Slots -> Int]
  BY SpaceAssumption DEF Whole, Sbrk, Grow, GrowFails, GrowPanics, Clone, CloneSize, CloneFlag,
     Fork, ForkBound, ForkCopy, ForkFails, ForkPanics, ForkSize, Alloc, Done
<1>6. \/ new' = new
      \/ pc[s] = "user" /\ \E j \in Slots : new' = [new EXCEPT ![s] = j]
      \/ pc'[s] = "user" /\ new' = [new EXCEPT ![s] = 0]
  BY DEF Whole, Sbrk, Grow, GrowFails, GrowPanics, Clone, CloneSize, CloneFlag,
     Fork, ForkBound, ForkCopy, ForkFails, ForkPanics, ForkSize, Alloc, Done, Goes, Calls
<1>7. new' \in [Slots -> 0..NPROC]
  <2>1. new \in [Slots -> 0..NPROC] /\ 0 \in 0..NPROC /\ Slots \subseteq 0..NPROC
    <3>1. NPROC \in Nat
      BY SpaceAssumption
    <3>2. 0 \in 0..NPROC /\ 1..NPROC \subseteq 0..NPROC
      BY <3>1
    <3>3. QED BY <3>2 DEF Whole, Slots
  <2>2. QED BY <1>6, <2>1
<1>8. \A q \in Slots : Making(q)' => new'[q] \in Slots
  <2>1. /\ pc \in [Slots -> Places] /\ new \in [Slots -> 0..NPROC]
        /\ \A q \in Slots : Making(q) => new[q] \in Slots
    BY DEF Whole
  <2>2. \A q \in Slots \ {s} : pc'[q] \in {pc[q], "user"} /\ new'[q] = new[q]
    BY <1>6, <2>1 DEF Sbrk, Grow, GrowFails, GrowPanics, Clone, CloneSize, CloneFlag,
       Fork, ForkBound, ForkCopy, ForkFails, ForkPanics, ForkSize, Goes, Calls
  <2>3. \A q \in Slots \ {s} : Making(q)' => new'[q] \in Slots
    BY <2>1, <2>2 DEF Making
  <2>4. CASE Clone(s) \/ Fork(s)
    <3>1. PICK j \in Slots : new' = [new EXCEPT ![s] = j]
      BY <2>4 DEF Clone, Fork, Alloc
    <3>2. QED BY <2>1, <2>3, <3>1
  <2>5. CASE ~Clone(s) /\ ~Fork(s)
    <3>1. Making(s)' => Making(s) /\ new' = new
      BY <2>1, <2>5 DEF Making, Sbrk, Grow, GrowFails, GrowPanics, CloneSize, CloneFlag,
         ForkBound, ForkCopy, ForkFails, ForkPanics, ForkSize, Goes, Calls
    <3>2. QED BY <2>1, <2>3, <3>1
  <2>6. QED BY <2>4, <2>5
<1>9. \A q \in Slots : pc'[q] = "fork_copy" => arg'[q] \in 0..Top
  <2>1. /\ pc \in [Slots -> Places] /\ arg \in [Slots -> Int] /\ sz \in [Slots -> 0..Top]
        /\ \A q \in Slots : pc[q] = "fork_copy" => arg[q] \in 0..Top
    BY DEF Whole
  <2>2. CASE ForkBound(s)
    BY <2>1, <2>2 DEF ForkBound, Goes
  <2>3. CASE ~ForkBound(s)
    <3>1. \A q \in Slots : pc'[q] = "fork_copy" => pc[q] = "fork_copy" /\ arg'[q] = arg[q]
      BY <2>1, <2>3 DEF Sbrk, Grow, GrowFails, GrowPanics, Clone, CloneSize, CloneFlag,
         Fork, ForkCopy, ForkFails, ForkPanics, ForkSize, Goes, Calls, Alloc, Done
    <3>2. QED BY <2>1, <3>1
  <2>4. QED BY <2>2, <2>3
<1>10. QED BY <1>1, <1>2, <1>3, <1>4, <1>5, <1>7, <1>8, <1>9 DEF Whole

\* Whatever growproc and fork do in whichever order, and however they fail, no
\* page gets lost or is counted twice, and kalloc never gives more than it has.
THEOREM NoPageIsLost == Spec => []PagesConserved
<1>1. Whole /\ [Next]_vars => Whole'
  <2> SUFFICES ASSUME Whole, [Next]_vars PROVE Whole'
    OBVIOUS
  <2>1. CASE UNCHANGED vars
    BY <2>1 DEF vars, Whole, Making, PagesConserved, Entries, Slots, AllPages, Pages, PageUp
  <2>2. CASE Next
    BY <2>2, WholeNext DEF Next
  <2>3. QED BY <2>1, <2>2
<1>2. Whole => PagesConserved
  BY DEF Whole
<1>3. QED BY <1>1, <1>2, InitWhole, PTL DEF Spec

=============================================================================
