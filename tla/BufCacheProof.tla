---------------------------- MODULE BufCacheProof ----------------------------
(***************************************************************************)
(* Proofs about BufCache, for any number of processes, sectors and         *)
(* buffers: a buffer is the sector it names, who sleeps is woken, and the  *)
(* whole is a SectorStore.  The inductive invariant Inv says which buffers *)
(* are clean: all but those that their owner has handed to the driver      *)
(* (Lent).                                                                 *)
(***************************************************************************)
EXTENDS BufCache, FiniteSetTheorems, TLAPS

Elems(list) == {list[i] : i \in DOMAIN list}

\* No element occurs twice.
Once(list) == \A i, j \in DOMAIN list : list[i] = list[j] => i = j

InDriverNow == {"io", "io_sleep", "io_look"}

Holds(p, b) == b \in Elems(held[p])

\* p, the owner of b, has handed b to the driver.
Lent(p, b) == pc[p] \in InDriverNow /\ chan[p] = b

Clean(b) == valid[b] /\ ~dirty[b] /\ data[b] = disk[sector[b]]

TypeInv ==
  /\ sector \in [Bufs -> Sectors \cup {None}]
  /\ busy \in [Bufs -> BOOLEAN] /\ valid \in [Bufs -> BOOLEAN]
  /\ dirty \in [Bufs -> BOOLEAN]
  /\ data \in [Bufs -> Values \cup {None}]
  /\ lru \in Seq(Bufs) /\ queue \in Seq(Bufs)
  /\ disk \in [Sectors -> Values \cup {None}]
  /\ pc \in [Procs -> {"user", "get", "get_sleep"} \cup InDriverNow]
  /\ goal \in [Procs -> Sectors \cup {None}]
  /\ chan \in [Procs -> Bufs \cup {None}]
  /\ held \in [Procs -> Seq(Bufs)]

\* A sector has one buffer, a buffer one owner.
Single ==
  /\ \A b, c \in Bufs : sector[b] = sector[c] /\ sector[b] # None => b = c
  /\ \A p \in Procs : Once(held[p])
  /\ \A p, q \in Procs, b \in Bufs : Holds(p, b) /\ Holds(q, b) => p = q
  /\ \A p \in Procs, b \in Bufs : Holds(p, b) => busy[b] /\ sector[b] # None

\* Where a process is says what it waits for.
Placed(p) ==
  /\ pc[p] \in {"get", "get_sleep"} => goal[p] \in Sectors
  /\ pc[p] = "get_sleep" => chan[p] \in Bufs /\ busy[chan[p]]
  /\ pc[p] \in InDriverNow => chan[p] \in Bufs /\ Holds(p, chan[p])
  /\ pc[p] = "io" => chan[p] \notin Elems(queue) /\ (valid[chan[p]] => dirty[chan[p]])
  /\ pc[p] = "io_sleep" => chan[p] \in Elems(queue)
  /\ pc[p] = "io_look" => chan[p] \in Elems(queue) \/ Clean(chan[p])

\* Buffers are clean but for those lent to the driver.
Tidy ==
  /\ \A p \in Procs, b \in Bufs : Holds(p, b) /\ ~Lent(p, b) => Clean(b)
  /\ \A b \in Bufs : ~busy[b] => ~dirty[b]
  /\ \A b \in Bufs : ~busy[b] /\ valid[b] => data[b] = disk[sector[b]]

\* The queue holds lent buffers, each once, and the controller works on the
\* first of them.
Line ==
  /\ Once(queue)
  /\ \A b \in Elems(queue) :
       /\ valid[b] => dirty[b]
       /\ \E p \in Procs : pc[p] \in {"io_sleep", "io_look"} /\ chan[p] = b
  /\ queue = <<>> => command = None
  /\ queue # <<>> => command = Command(Head(queue), dirty[Head(queue)])
  /\ queue # <<>> /\ done /\ dirty[Head(queue)]
       => disk[sector[Head(queue)]] = data[Head(queue)]

Inv == TypeInv /\ Single /\ (\A p \in Procs : Placed(p)) /\ Tidy /\ Line

-----------------------------------------------------------------------------
(* Sequences. *)

\* A sequence that begins with e.
LEMMA Pushed ==
  ASSUME NEW S, NEW list \in Seq(S), NEW e \in S
  PROVE  /\ <<e>> \o list \in Seq(S)
         /\ Elems(<<e>> \o list) = {e} \cup Elems(list)
         /\ Once(list) /\ e \notin Elems(list) => Once(<<e>> \o list)
<1> DEFINE t == <<e>> \o list
<1>1. t \in Seq(S) /\ Len(t) = Len(list) + 1 /\ t[1] = e
      /\ \A i \in 2..Len(t) : t[i] = list[i - 1]
  OBVIOUS
<1>2. DOMAIN t = 1..(Len(list) + 1) /\ DOMAIN list = 1..Len(list) /\ Len(list) \in Nat
  BY <1>1
<1> HIDE DEF t
<1>3. \A i \in DOMAIN t : t[i] \in {e} \cup Elems(list)
  BY <1>1, <1>2 DEF Elems
<1>4. \A i \in DOMAIN list : i + 1 \in DOMAIN t /\ t[i + 1] = list[i]
  BY <1>1, <1>2
<1>5. Elems(t) = {e} \cup Elems(list)
  <2>1. Elems(t) \subseteq {e} \cup Elems(list)
    BY <1>3 DEF Elems
  <2>2. e \in Elems(t)
    BY <1>1, <1>2 DEF Elems
  <2>3. Elems(list) \subseteq Elems(t)
    BY <1>4 DEF Elems
  <2>4. QED BY <2>1, <2>2, <2>3
<1>6. ASSUME Once(list), e \notin Elems(list) PROVE Once(t)
  <2>1. \A k \in DOMAIN t : k = 1 \/ (k - 1 \in DOMAIN list /\ t[k] = list[k - 1])
    BY <1>1, <1>2
  <2>2. \A k \in DOMAIN list : list[k] # e
    BY <1>6 DEF Elems
  <2>3. \A i, j \in DOMAIN t : t[i] = t[j] /\ i # 1 /\ j # 1 => i - 1 = j - 1
    BY <2>1, <1>6 DEF Once
  <2>4. \A i \in DOMAIN t : i # 1 => t[i] # e
    BY <2>1, <2>2
  <2>5. QED BY <1>1, <1>2, <2>3, <2>4 DEF Once
<1>7. QED BY <1>1, <1>5, <1>6 DEF t

\* A sequence without its first element.
LEMMA Popped ==
  ASSUME NEW S, NEW list \in Seq(S), list # <<>>
  PROVE  /\ Tail(list) \in Seq(S) /\ Head(list) \in Elems(list) /\ Head(list) \in S
         /\ Elems(list) = {Head(list)} \cup Elems(Tail(list))
         /\ Once(list) => Once(Tail(list)) /\ Head(list) \notin Elems(Tail(list))
<1> DEFINE t == Tail(list)
<1>1. /\ t \in Seq(S) /\ Len(list) \in Nat \ {0} /\ Len(t) = Len(list) - 1
      /\ \A i \in 1..Len(t) : t[i] = list[i + 1]
      /\ Head(list) = list[1] /\ list[1] \in S
  OBVIOUS
<1>2. DOMAIN t = 1..(Len(list) - 1) /\ DOMAIN list = 1..Len(list)
  BY <1>1
<1> HIDE DEF t
<1>3. \A i \in DOMAIN list : i = 1 \/ (i - 1 \in DOMAIN t /\ list[i] = t[i - 1])
  BY <1>1, <1>2
<1>4. \A i \in DOMAIN t : i + 1 \in DOMAIN list /\ t[i] = list[i + 1] /\ i + 1 # 1
  BY <1>1, <1>2
<1>5. 1 \in DOMAIN list
  BY <1>1, <1>2
<1>6. Elems(list) = {Head(list)} \cup Elems(t)
  <2>1. Elems(list) \subseteq {Head(list)} \cup Elems(t)
    BY <1>1, <1>3 DEF Elems
  <2>2. Head(list) \in Elems(list)
    BY <1>1, <1>5 DEF Elems
  <2>3. Elems(t) \subseteq Elems(list)
    BY <1>4 DEF Elems
  <2>4. QED BY <2>1, <2>2, <2>3
<1>7. ASSUME Once(list) PROVE Once(t) /\ Head(list) \notin Elems(t)
  BY <1>1, <1>2, <1>4, <1>5, <1>7 DEF Once, Elems
<1>8. QED BY <1>1, <1>5, <1>6, <1>7 DEF t, Elems

\* A sequence that ends with e.
LEMMA Queued ==
  ASSUME NEW S, NEW list \in Seq(S), NEW e \in S
  PROVE  /\ Append(list, e) \in Seq(S) /\ Append(list, e) # <<>>
         /\ Elems(Append(list, e)) = {e} \cup Elems(list)
         /\ Once(list) /\ e \notin Elems(list) => Once(Append(list, e))
         /\ Head(Append(list, e)) = IF list = <<>> THEN e ELSE Head(list)
<1> DEFINE t == Append(list, e)
<1>1. /\ t \in Seq(S) /\ Len(list) \in Nat /\ Len(t) = Len(list) + 1
      /\ \A i \in 1..Len(list) : t[i] = list[i]
      /\ t[Len(list) + 1] = e
  OBVIOUS
<1>2. DOMAIN t = 1..(Len(list) + 1) /\ DOMAIN list = 1..Len(list)
  BY <1>1
<1>3. t # <<>> /\ Head(t) = t[1]
  BY <1>1
<1>4. list = <<>> => Len(list) = 0
  OBVIOUS
<1>5. list # <<>> => Head(list) = list[1] /\ 1 \in 1..Len(list)
  OBVIOUS
<1> HIDE DEF t
<1>6. Elems(t) = {e} \cup Elems(list)
  BY <1>1, <1>2 DEF Elems
<1>7. ASSUME Once(list), e \notin Elems(list) PROVE Once(t)
  BY <1>1, <1>2, <1>7 DEF Once, Elems
<1>8. Head(t) = IF list = <<>> THEN e ELSE Head(list)
  BY <1>1, <1>3, <1>4, <1>5
<1>9. QED BY <1>1, <1>3, <1>6, <1>7, <1>8 DEF t

\* The list of all buffers to start with.
LEMMA AllListed == SetToSeq(Bufs) \in Seq(Bufs)
<1>1. Cardinality(Bufs) \in Nat /\ ExistsBijection(1..Cardinality(Bufs), Bufs)
  BY FS_CardinalityType, DiskAssumption
<1>2. PICK f : f \in [1..Cardinality(Bufs) -> Bufs] /\ IsInjective(f)
  BY <1>1 DEF ExistsBijection, Bijection, Injection
<1>3. SetToSeq(Bufs) \in [1..Cardinality(Bufs) -> Bufs]
  BY <1>2 DEF SetToSeq
<1>4. QED BY <1>1, <1>3

\* brelse moves a buffer to the front.
LEMMA Fronted ==
  ASSUME NEW list \in Seq(Bufs), NEW b \in Bufs
  PROVE  ToFront(list, b) \in Seq(Bufs)
<1>1. Len(list) \in Nat /\ DOMAIN list = 1..Len(list)
  OBVIOUS
<1>2. \A i \in 1..Len(list) : i # 1 => i - 1 \in 1..Len(list)
  BY <1>1
<1>3. ToFront(list, b) \in [1..Len(list) -> Bufs]
  BY <1>1, <1>2 DEF ToFront
<1>4. QED BY <1>1, <1>3

\* What a sequence has comes from its set.
LEMMA ElemsIn ==
  ASSUME NEW S, NEW list \in Seq(S)
  PROVE  Elems(list) \subseteq S
<1>1. \A i \in DOMAIN list : list[i] \in S
  OBVIOUS
<1>2. QED BY <1>1 DEF Elems

\* The idle buffers of a list have a last one.
LEMMA LastIdle ==
  ASSUME lru \in Seq(Bufs), Idle # {}
  PROVE  \E k \in Idle : \A j \in Idle : j <= k
<1> DEFINE N == Len(lru)
           T == {N - i : i \in Idle}
<1>1. N \in Nat /\ Idle \subseteq 1..N
  BY DEF Idle
<1>2. T \subseteq Nat /\ T # {}
  <2>1. \A i \in Idle : N - i \in Nat
    BY <1>1
  <2>2. QED BY <2>1
<1>3. PICK m \in T : \A n \in T : <<n, m>> \notin OpToRel(<, Nat)
  BY <1>2, NatLessThanWellFounded, WFMin
<1>4. \A n \in T : ~(n < m)
  BY <1>2, <1>3 DEF OpToRel
<1>5. PICK k \in Idle : m = N - k
  OBVIOUS
<1>6. \A j \in Idle : ~(N - j < N - k)
  BY <1>4, <1>5
<1>7. QED BY <1>1, <1>6
\* bget recycles an idle buffer.
LEMMA LastInBufs ==
  ASSUME lru \in Seq(Bufs), Idle # {}
  PROVE  LET b == lru[CHOOSE i \in Idle : \A j \in Idle : j <= i]
         IN  b \in Bufs /\ ~busy[b]
<1>1. PICK k \in Idle : \A j \in Idle : j <= k
  BY LastIdle
<1>2. (CHOOSE i \in Idle : \A j \in Idle : j <= i) \in Idle
  BY <1>1
<1>3. QED BY <1>2 DEF Idle

-----------------------------------------------------------------------------
(* Init and the steps. *)

LEMMA Nothing == Elems(<<>>) = {} /\ Once(<<>>)
  BY DEF Elems, Once

LEMMA Starts == Init => Inv
<1> SUFFICES ASSUME Init PROVE Inv
  OBVIOUS
<1>1. TypeInv
  BY AllListed DEF Init, TypeInv, InDriverNow
<1>2. \A p \in Procs, b \in Bufs : ~Holds(p, b)
  BY Nothing DEF Init, Holds
<1>3. Single
  BY <1>2, Nothing DEF Init, Single
<1>4. \A p \in Procs : Placed(p)
  BY DEF Init, Placed, InDriverNow
<1>5. Tidy
  BY <1>2 DEF Init, Tidy
<1>6. Line
  BY Nothing DEF Init, Line
<1>7. QED BY <1>1, <1>3, <1>4, <1>5, <1>6 DEF Inv

\* None is no buffer, no sector and no process.
LEMMA NoneIsNone == None \notin Bufs /\ None \notin Sectors /\ None \notin Procs
  BY DiskAssumption

\* Line holds on when the queued buffers and the controller stay as they are.
LEMMA SameLine ==
  ASSUME Line, UNCHANGED <<queue, command, disk>>,
         done' => done,
         \A c \in Elems(queue) : valid'[c] = valid[c] /\ dirty'[c] = dirty[c]
                               /\ sector'[c] = sector[c] /\ data'[c] = data[c],
         \A c \in Elems(queue) :
           \E q \in Procs : pc'[q] \in {"io_sleep", "io_look"} /\ chan'[q] = c,
         queue # <<>> => Head(queue) \in Elems(queue)
  PROVE  Line'
<1>1. Elems(queue)' = Elems(queue) /\ Once(queue)' = Once(queue)
  BY DEF Elems, Once
<1>2. queue # <<>> =>
         Command(Head(queue), dirty[Head(queue)])' = Command(Head(queue), dirty[Head(queue)])
  BY DEF Command
<1>3. \A c \in Elems(queue)' :
        /\ valid'[c] => dirty'[c]
        /\ \E p \in Procs : pc'[p] \in {"io_sleep", "io_look"} /\ chan'[p] = c
  BY <1>1 DEF Line
<1>4. (queue = <<>> => command = None)' /\ (queue # <<>> => command = Command(Head(queue), dirty[Head(queue)]))'
  BY <1>2 DEF Line
<1>5. (queue # <<>> /\ done /\ dirty[Head(queue)] => disk[sector[Head(queue)]] = data[Head(queue)])'
  BY DEF Line
<1>6. QED BY <1>1, <1>3, <1>4, <1>5 DEF Line

\* A step that only moves p: what p has and what is queued stays so.
LEMMA MoveKeeps ==
  ASSUME Inv, NEW p \in Procs, TypeInv',
         UNCHANGED <<bufVars, lru, ideVars, held>>,
         \A q \in Procs \ {p} : pc'[q] = pc[q] /\ goal'[q] = goal[q] /\ chan'[q] = chan[q],
         Placed(p)',
         \A b \in Bufs : Holds(p, b) /\ ~Lent(p, b)' => Clean(b),
         pc[p] \in {"io_sleep", "io_look"} /\ chan[p] \in Elems(queue)
           => pc'[p] \in {"io_sleep", "io_look"} /\ chan'[p] = chan[p]
  PROVE  Inv'
<1> USE DEF Inv
<1>1. UNCHANGED <<sector, busy, valid, dirty, data, lru, queue, command, done, disk, held>>
  BY DEF bufVars, ideVars
<1>2. \A q \in Procs, b \in Bufs :
        /\ Holds(q, b)' = Holds(q, b)
        /\ q # p => Lent(q, b)' = Lent(q, b)
        /\ Clean(b)' = Clean(b)
  BY <1>1 DEF TypeInv, Holds, Lent, Clean
<1>3. Single'
  BY <1>1, <1>2 DEF Single
<1>4. ASSUME NEW q \in Procs PROVE Placed(q)'
  <2>1. CASE q = p
    BY <2>1
  <2>2. CASE q # p
    BY <2>2, <1>1 DEF Placed, Holds, Clean, Elems
  <2>3. QED BY <2>1, <2>2
<1>5. Tidy'
  <2>1. \A q \in Procs, b \in Bufs : Holds(q, b)' /\ ~Lent(q, b)' => Clean(b)'
    <3> SUFFICES ASSUME NEW q \in Procs, NEW b \in Bufs, Holds(q, b)', ~Lent(q, b)'
                 PROVE  Clean(b)'
      OBVIOUS
    <3>1. CASE q = p
      BY <3>1, <1>2
    <3>2. CASE q # p
      BY <3>2, <1>2 DEF Tidy
    <3>3. QED BY <3>1, <3>2
  <2>2. QED BY <1>1, <2>1 DEF Tidy
<1>6. Line'
  <2>1. \A c \in Elems(queue) :
          \E q \in Procs : pc'[q] \in {"io_sleep", "io_look"} /\ chan'[q] = c
    <3> SUFFICES ASSUME NEW c \in Elems(queue)
                 PROVE  \E q \in Procs : pc'[q] \in {"io_sleep", "io_look"} /\ chan'[q] = c
      OBVIOUS
    <3>1. PICK q \in Procs : pc[q] \in {"io_sleep", "io_look"} /\ chan[q] = c
      BY DEF Line
    <3>2. QED BY <3>1
  <2>2. queue # <<>> => Head(queue) \in Elems(queue)
    BY Popped DEF TypeInv
  <2>3. QED BY <1>1, <2>1, <2>2, SameLine
<1>7. QED BY <1>3, <1>4, <1>5, <1>6

LEMMA BreadKeeps ==
  ASSUME Inv, NEW p \in Procs, NEW s \in Sectors, Bread(p, s)
  PROVE  Inv'
<1> USE DEF Inv
<1>1. /\ pc[p] = "user" /\ pc' = [pc EXCEPT ![p] = "get"]
      /\ goal' = [goal EXCEPT ![p] = s]
      /\ UNCHANGED <<bufVars, lru, ideVars, chan, held>>
  BY DEF Bread, Goto
<1>2. TypeInv'
  BY <1>1 DEF TypeInv, bufVars, ideVars
<1>3. Placed(p)'
  BY <1>1 DEF TypeInv, Placed, InDriverNow
<1>4. \A b \in Bufs : Holds(p, b) => Clean(b)
  BY <1>1 DEF Tidy, Lent, InDriverNow
<1>5. QED BY <1>1, <1>2, <1>3, <1>4, MoveKeeps DEF TypeInv

\* bget returns b, which was idle, to p: with its sector, or with a new one
\* and then not valid.
LEMMA GotKeeps ==
  ASSUME Inv, NEW p \in Procs, NEW b \in Bufs,
         pc[p] = "get", ~busy[b], Got(p, b),
         \A c \in Bufs : sector[c] = goal[p] => c = b,
         sector' = [sector EXCEPT ![b] = goal[p]],
         NEW v \in BOOLEAN, valid' = [valid EXCEPT ![b] = v],
         v => valid[b] /\ sector[b] = goal[p],
         dirty' = [dirty EXCEPT ![b] = FALSE],
         UNCHANGED <<data, lru, ideVars>>
  PROVE  Inv'
<1> USE DEF Inv
<1>1. /\ busy' = [busy EXCEPT ![b] = TRUE]
      /\ held' = [held EXCEPT ![p] = <<b>> \o held[p]]
      /\ goal' = [goal EXCEPT ![p] = None]
      /\ pc' = [pc EXCEPT ![p] = IF v THEN "user" ELSE "io"]
      /\ chan' = [chan EXCEPT ![p] = IF v THEN None ELSE b]
      /\ UNCHANGED <<data, lru, queue, command, done, disk>>
  BY DEF Got, Goto, ideVars, TypeInv
<1>2. /\ <<b>> \o held[p] \in Seq(Bufs)
      /\ Elems(<<b>> \o held[p]) = {b} \cup Elems(held[p])
      /\ b \notin Elems(held[p]) => Once(<<b>> \o held[p])
  BY Pushed DEF TypeInv, Single
<1>3. TypeInv'
  BY <1>1, <1>2 DEF TypeInv, InDriverNow
<1>4. /\ \A q \in Procs : ~Holds(q, b)
      /\ \A q \in Procs, c \in Bufs : Holds(q, c)' <=> Holds(q, c) \/ (q = p /\ c = b)
  <2>1. \A q \in Procs : ~Holds(q, b)
    BY DEF Single
  <2>2. \A q \in Procs :
            Elems(held'[q]) = IF q = p THEN {b} \cup Elems(held[p]) ELSE Elems(held[q])
    <3>1. held'[p] = <<b>> \o held[p]
      BY <1>1 DEF TypeInv
    <3>2. \A q \in Procs : q # p => held'[q] = held[q]
      BY <1>1 DEF TypeInv
    <3>3. QED BY <3>1, <3>2, <1>2
  <2>3. QED BY <2>1, <2>2 DEF Holds
<1>5. b \notin Elems(queue)
  BY <1>4 DEF Line, Placed, InDriverNow
<1>6. goal[p] \in Sectors /\ goal[p] # None
  BY NoneIsNone DEF Placed
<1>7. Single'
  <2>1. \A c, d \in Bufs : sector'[c] = sector'[d] /\ sector'[c] # None => c = d
    BY <1>6 DEF Single, TypeInv
  <2>2. \A q \in Procs : Once(held[q])'
    BY <1>1, <1>2, <1>4 DEF Single, Holds, TypeInv, Once
  <2>3. \A q, r \in Procs, c \in Bufs : Holds(q, c)' /\ Holds(r, c)' => q = r
    BY <1>4 DEF Single
  <2>4. \A q \in Procs, c \in Bufs : Holds(q, c)' => busy'[c] /\ sector'[c] # None
    BY <1>1, <1>4, <1>6 DEF Single, TypeInv
  <2>5. QED BY <2>1, <2>2, <2>3, <2>4 DEF Single
<1>8. \A c \in Bufs \ {b} : Clean(c)' = Clean(c) /\ busy'[c] = busy[c]
  BY <1>1 DEF Clean, TypeInv
<1>9. v => Clean(b)'
  BY <1>1 DEF Clean, TypeInv, Tidy
<1>10. ASSUME NEW q \in Procs PROVE Placed(q)'
  <2>1. CASE q = p
    BY <2>1, <1>1, <1>4, <1>5 DEF Placed, TypeInv, InDriverNow
  <2>2. CASE q # p
    <3>1. /\ pc'[q] = pc[q] /\ chan'[q] = chan[q] /\ goal'[q] = goal[q]
      BY <2>2, <1>1 DEF TypeInv
    <3>2. ASSUME pc[q] \in InDriverNow
          PROVE  chan[q] \in Bufs \ {b} /\ Holds(q, chan[q])'
      <4>1. chan[q] \in Bufs /\ Holds(q, chan[q])
        BY <3>2 DEF Placed
      <4>2. PICK c \in Bufs : c = chan[q]
        BY <4>1
      <4>3. Holds(q, c)' /\ c # b
        BY <4>1, <4>2, <1>4
      <4>4. QED BY <4>2, <4>3, <3>1 DEF Holds, Elems
    <3>3. pc[q] \in InDriverNow => valid'[chan[q]] = valid[chan[q]] /\ dirty'[chan[q]] = dirty[chan[q]]
      BY <3>2 DEF TypeInv
    <3>4. pc[q] = "get_sleep" => busy'[chan[q]]
      BY <1>1 DEF Placed, TypeInv
    <3>5. QED BY <1>1, <1>8, <3>1, <3>2, <3>3, <3>4 DEF Placed, InDriverNow
  <2>3. QED BY <2>1, <2>2
<1>11. Tidy'
  <2>1. \A q \in Procs, c \in Bufs : Holds(q, c)' /\ ~Lent(q, c)' => Clean(c)'
    <3> SUFFICES ASSUME NEW q \in Procs, NEW c \in Bufs, Holds(q, c)', ~Lent(q, c)'
                 PROVE Clean(c)'
      OBVIOUS
    <3>1. CASE c = b
      BY <3>1, <1>1, <1>4, <1>9 DEF Lent, InDriverNow, TypeInv
    <3>2. CASE c # b
      <4>1. Holds(q, c)
        BY <3>2, <1>4
      <4>2. ~Lent(q, c)
        BY <1>1 DEF Lent, InDriverNow, TypeInv
      <4>3. QED BY <3>2, <4>1, <4>2, <1>8 DEF Tidy
    <3>3. QED BY <3>1, <3>2
  <2>2. \A c \in Bufs : ~busy'[c] =>
           c # b /\ ~busy[c] /\ dirty'[c] = dirty[c] /\ valid'[c] = valid[c]
           /\ sector'[c] = sector[c]
    BY <1>1 DEF TypeInv
  <2>3. \A c \in Bufs : ~busy'[c] => ~dirty'[c]
    BY <2>2 DEF Tidy
  <2>4. \A c \in Bufs : ~busy'[c] /\ valid'[c] => data'[c] = disk'[sector'[c]]
    BY <1>1, <2>2, ZenonT(40) DEF Tidy
  <2>5. QED BY <2>1, <2>3, <2>4 DEF Tidy
<1>12. Line'
  <2>1. \A c \in Elems(queue) : c \in Bufs /\ valid'[c] = valid[c] /\ dirty'[c] = dirty[c]
                               /\ sector'[c] = sector[c]
    <3>1. Elems(queue) \subseteq Bufs \ {b}
      BY <1>5, ElemsIn DEF TypeInv
    <3>2. QED BY <3>1 DEF TypeInv
  <2>2. \A c \in Elems(queue) : \E q \in Procs : pc'[q] \in {"io_sleep", "io_look"} /\ chan'[q] = c
    BY <1>1 DEF Line, TypeInv
  <2>3. queue # <<>> => Head(queue) \in Elems(queue)
    BY Popped DEF TypeInv
  <2>4. QED BY <1>1, <2>1, <2>2, <2>3, SameLine
<1>13. QED BY <1>3, <1>7, <1>10, <1>11, <1>12

LEMMA GetCachedKeeps ==
  ASSUME Inv, NEW p \in Procs, GetCached(p)
  PROVE  Inv'
<1> USE DEF Inv
<1>1. PICK b \in Bufs : /\ sector[b] = goal[p] /\ ~busy[b] /\ Got(p, b)
                        /\ UNCHANGED <<sector, valid, dirty, data>>
  BY DEF GetCached, Cached
<1>2. pc[p] = "get" /\ UNCHANGED <<data, lru, ideVars>>
  BY <1>1 DEF GetCached
<1>3. \A c \in Bufs : sector[c] = goal[p] => c = b
  BY <1>1, <1>2, NoneIsNone DEF Placed, Single
<1>4. /\ sector' = [sector EXCEPT ![b] = goal[p]]
      /\ valid' = [valid EXCEPT ![b] = valid[b]]
      /\ dirty' = [dirty EXCEPT ![b] = FALSE]
      /\ valid[b] \in BOOLEAN
  BY <1>1 DEF TypeInv, Tidy
<1>5. QED BY <1>1, <1>2, <1>3, <1>4, GotKeeps

LEMMA GetFreshKeeps ==
  ASSUME Inv, NEW p \in Procs, GetFresh(p)
  PROVE  Inv'
<1> USE DEF Inv
<1> DEFINE b == lru[CHOOSE i \in Idle : \A j \in Idle : j <= i]
<1>1. /\ pc[p] = "get" /\ UNCHANGED <<data, lru, ideVars>>
      /\ sector' = [sector EXCEPT ![b] = goal[p]]
      /\ valid' = [valid EXCEPT ![b] = FALSE]
      /\ dirty' = [dirty EXCEPT ![b] = FALSE]
      /\ Got(p, b) /\ Cached(goal[p]) = {} /\ Idle # {}
  BY DEF GetFresh, FreshValid
<1>2. \A c \in Bufs : sector[c] = goal[p] => c = b
  BY <1>1 DEF Cached
<1>3. b \in Bufs /\ ~busy[b]
  BY <1>1, LastInBufs DEF TypeInv
<1> HIDE DEF b
<1>4. QED BY <1>1, <1>2, <1>3, GotKeeps

LEMMA GetBusyKeeps ==
  ASSUME Inv, NEW p \in Procs, GetBusy(p)
  PROVE  Inv'
<1> USE DEF Inv
<1>1. PICK b \in Bufs : busy[b] /\ chan' = [chan EXCEPT ![p] = b]
  BY DEF GetBusy, Cached
<1>2. /\ pc[p] = "get" /\ pc' = [pc EXCEPT ![p] = "get_sleep"]
      /\ UNCHANGED <<bufVars, lru, ideVars, goal, held>>
  BY DEF GetBusy, Goto
<1>3. TypeInv'
  BY <1>1, <1>2 DEF TypeInv, bufVars, ideVars
<1>4. Placed(p)'
  BY <1>1, <1>2 DEF TypeInv, Placed, InDriverNow, bufVars
<1>5. \A c \in Bufs : Holds(p, c) => Clean(c)
  BY <1>2 DEF Tidy, Lent, InDriverNow
<1>6. QED BY <1>1, <1>2, <1>3, <1>4, <1>5, MoveKeeps DEF TypeInv

LEMMA IderwLookKeeps ==
  ASSUME Inv, NEW p \in Procs, IderwLook(p)
  PROVE  Inv'
<1> USE DEF Inv
<1>1. /\ pc[p] = "io_look" /\ UNCHANGED <<bufVars, lru, ideVars, goal, held>>
  BY DEF IderwLook
<1>2. /\ chan[p] \in Bufs /\ Holds(p, chan[p])
      /\ chan[p] \in Elems(queue) \/ Clean(chan[p])
  BY <1>1 DEF Placed, InDriverNow
<1>3. UNCHANGED <<sector, busy, valid, dirty, data, lru, queue, command, done, disk, held>>
  BY <1>1 DEF bufVars, ideVars
<1>4. CASE valid[chan[p]] /\ ~dirty[chan[p]]
  <2>1. pc' = [pc EXCEPT ![p] = "user"] /\ chan' = [chan EXCEPT ![p] = None]
    BY <1>4 DEF IderwLook, Goto
  <2>2. chan[p] \notin Elems(queue) /\ Clean(chan[p])
    BY <1>2, <1>4 DEF Line
  <2>3. TypeInv'
    BY <1>1, <1>3, <2>1 DEF TypeInv
  <2>4. Placed(p)'
    BY <2>1 DEF TypeInv, Placed, InDriverNow
  <2>5. \A c \in Bufs : Holds(p, c) => Clean(c)
    BY <2>2 DEF Tidy, Lent
  <2>6. QED BY <1>1, <2>1, <2>2, <2>3, <2>4, <2>5, MoveKeeps DEF TypeInv
<1>5. CASE ~(valid[chan[p]] /\ ~dirty[chan[p]])
  <2>1. pc' = [pc EXCEPT ![p] = "io_sleep"] /\ chan' = chan
    BY <1>5 DEF IderwLook, Goto
  <2>2. chan[p] \in Elems(queue)
    BY <1>2, <1>5 DEF Clean
  <2>3. TypeInv'
    BY <1>1, <1>3, <2>1 DEF TypeInv, InDriverNow
  <2>4. Placed(p)'
    BY <1>1, <1>2, <1>3, <2>1, <2>2 DEF TypeInv, Placed, InDriverNow, Holds, Elems
  <2>5. \A c \in Bufs : Lent(p, c)' <=> Lent(p, c)
    BY <1>1, <2>1 DEF Lent, InDriverNow, TypeInv
  <2>6. QED BY <1>1, <2>1, <2>3, <2>4, <2>5, MoveKeeps DEF TypeInv, Tidy
<1>6. QED BY <1>4, <1>5

LEMMA KillKeeps ==
  ASSUME Inv, NEW p \in Procs, Kill(p)
  PROVE  Inv'
<1> USE DEF Inv
<1>1. /\ pc[p] \in {"get_sleep", "io_sleep"}
      /\ pc' = [pc EXCEPT ![p] = IF pc[p] = "get_sleep" THEN "get" ELSE "io_look"]
      /\ UNCHANGED <<bufVars, lru, ideVars, goal, chan, held>>
  BY DEF Kill, Goto
<1>2. UNCHANGED <<sector, busy, valid, dirty, data, lru, queue, command, done, disk, held>>
  BY <1>1 DEF bufVars, ideVars
<1>3. TypeInv'
  BY <1>1, <1>2 DEF TypeInv, InDriverNow
<1>4. Placed(p)'
  BY <1>1, <1>2 DEF TypeInv, Placed, InDriverNow, Holds, Elems
<1>5. \A c \in Bufs : Lent(p, c)' <=> Lent(p, c)
  BY <1>1 DEF Lent, InDriverNow, TypeInv
<1>6. QED BY <1>1, <1>3, <1>4, <1>5, MoveKeeps DEF TypeInv, Tidy

\* Only the owner of a buffer has handed it to the driver.
LEMMA LenderHolds ==
  ASSUME Inv, NEW p \in Procs, NEW q \in Procs, NEW b \in Bufs, Holds(p, b),
         pc[q] \in InDriverNow, chan[q] = b
  PROVE  q = p
BY DEF Inv, Placed, Single

\* Who is not in the driver has nothing in its queue.
LEMMA NotQueued ==
  ASSUME Inv, NEW p \in Procs, NEW b \in Bufs, Holds(p, b), b \in Elems(queue)
  PROVE  pc[p] \in {"io_sleep", "io_look"} /\ chan[p] = b
<1>1. PICK q \in Procs : pc[q] \in {"io_sleep", "io_look"} /\ chan[q] = b
  BY DEF Inv, Line
<1>2. q = p
  BY <1>1, LenderHolds DEF InDriverNow
<1>3. QED BY <1>1, <1>2

LEMMA BwriteKeeps ==
  ASSUME Inv, NEW p \in Procs, NEW v \in Values, Bwrite(p, v)
  PROVE  Inv'
<1> USE DEF Inv
<1> DEFINE b == Head(held[p])
<1>1. /\ pc[p] = "user" /\ held[p] # <<>>
      /\ data' = [data EXCEPT ![b] = v] /\ dirty' = [dirty EXCEPT ![b] = TRUE]
      /\ chan' = [chan EXCEPT ![p] = b] /\ pc' = [pc EXCEPT ![p] = "io"]
      /\ UNCHANGED <<sector, busy, valid, lru, queue, command, done, disk, goal, held>>
  BY DEF Bwrite, Goto, ideVars
<1>2. b \in Bufs /\ Holds(p, b)
  BY <1>1, Popped DEF TypeInv, Holds
<1> HIDE DEF b
<1>3. b \notin Elems(queue)
  BY <1>1, <1>2, NotQueued
<1>4. TypeInv'
  BY <1>1, <1>2 DEF TypeInv, InDriverNow
<1>5. \A q \in Procs, c \in Bufs : Holds(q, c)' = Holds(q, c)
  BY <1>1 DEF Holds, Elems
<1>6. Single'
  BY <1>1, <1>5 DEF Single, Once
<1>7. \A c \in Bufs \ {b} : Clean(c)' = Clean(c)
  BY <1>1 DEF Clean, TypeInv
<1>8. \A q \in Procs \ {p} : pc'[q] = pc[q] /\ chan'[q] = chan[q]
  BY <1>1 DEF TypeInv
<1>9. \A q \in Procs \ {p} : pc[q] \in InDriverNow => chan[q] # b
  BY <1>2, LenderHolds
<1>10. ASSUME NEW q \in Procs PROVE Placed(q)'
  <2>1. CASE q = p
    <3>1. pc'[p] = "io" /\ chan'[p] = b /\ dirty'[b]
      BY <1>1, <1>2 DEF TypeInv
    <3>2. Holds(p, chan[p])' /\ chan'[p] \notin Elems(queue')
      BY <1>1, <1>2, <1>3, <3>1 DEF Holds
    <3>3. QED BY <2>1, <3>1, <3>2, <1>2 DEF Placed, InDriverNow
  <2>2. CASE q # p
    <3>1. pc'[q] = pc[q] /\ chan'[q] = chan[q]
      BY <2>2, <1>8
    <3>2. ASSUME pc[q] \in InDriverNow
          PROVE  /\ Holds(q, chan[q])' = Holds(q, chan[q])
                 /\ Clean(chan[q])' = Clean(chan[q])
                 /\ dirty'[chan[q]] = dirty[chan[q]]
      <4>1. PICK c \in Bufs : c = chan[q] /\ c # b
        BY <2>2, <3>2, <1>9 DEF Placed
      <4>2. dirty'[c] = dirty[c] /\ data'[c] = data[c]
        BY <4>1, <1>1 DEF TypeInv
      <4>3. QED BY <3>1, <4>1, <4>2, <1>1 DEF Holds, Clean
    <3>3. QED BY <1>1, <3>1, <3>2 DEF Placed, InDriverNow
  <2>3. QED BY <2>1, <2>2
<1>11. Tidy'
  <2>1. ASSUME NEW q \in Procs, NEW c \in Bufs, Holds(q, c)', ~Lent(q, c)'
        PROVE  Clean(c)'
    <3>1. Holds(q, c)
      BY <2>1, <1>5
    <3>2. c # b
      BY <2>1, <3>1, <1>1, <1>2 DEF Single, Lent, InDriverNow, TypeInv
    <3>3. ~Lent(q, c)
      <4>1. CASE q = p
        BY <4>1, <1>1 DEF Lent, InDriverNow
      <4>2. CASE q # p
        BY <4>2, <2>1, <1>8 DEF Lent
      <4>3. QED BY <4>1, <4>2
    <3>4. QED BY <3>1, <3>2, <3>3, <1>7 DEF Tidy
  <2>2. \A c \in Bufs : ~busy[c] => c # b
    BY <1>2 DEF Single
  <2>3. \A c \in Bufs \ {b} : dirty'[c] = dirty[c] /\ data'[c] = data[c]
    BY <1>1 DEF TypeInv
  <2>4. QED BY <1>1, <2>1, <2>2, <2>3 DEF Tidy
<1>12. Line'
  <2>1. \A c \in Elems(queue) : c \in Bufs \ {b} /\ dirty'[c] = dirty[c] /\ data'[c] = data[c]
    <3>1. Elems(queue) \subseteq Bufs \ {b}
      BY <1>3, ElemsIn DEF TypeInv
    <3>2. QED BY <3>1, <1>1 DEF TypeInv
  <2>2. \A c \in Elems(queue) :
          \E q \in Procs : pc'[q] \in {"io_sleep", "io_look"} /\ chan'[q] = c
    <3> SUFFICES ASSUME NEW c \in Elems(queue)
                 PROVE  \E q \in Procs : pc'[q] \in {"io_sleep", "io_look"} /\ chan'[q] = c
      OBVIOUS
    <3>1. PICK q \in Procs : pc[q] \in {"io_sleep", "io_look"} /\ chan[q] = c
      BY DEF Line
    <3>2. q # p
      BY <3>1, <1>1
    <3>3. QED BY <3>1, <3>2, <1>8
  <2>3. queue # <<>> => Head(queue) \in Elems(queue)
    BY Popped DEF TypeInv
  <2>4. QED BY <1>1, <2>1, <2>2, <2>3, SameLine
<1>13. QED BY <1>4, <1>6, <1>10, <1>11, <1>12

\* The first of the queue has an owner, and so a sector of its own.
LEMMA FirstQueued ==
  ASSUME Inv, queue # <<>>
  PROVE  /\ Head(queue) \in Elems(queue) /\ Head(queue) \in Bufs
         /\ sector[Head(queue)] \in Sectors /\ busy[Head(queue)]
         /\ \A c \in Bufs : sector[c] = sector[Head(queue)] => c = Head(queue)
<1> DEFINE h == Head(queue)
<1>1. h \in Elems(queue) /\ h \in Bufs
  BY Popped DEF Inv, TypeInv
<1> HIDE DEF h
<1>2. PICK q \in Procs : pc[q] \in {"io_sleep", "io_look"} /\ chan[q] = h
  BY <1>1 DEF Inv, Line
<1>3. Holds(q, h)
  BY <1>2 DEF Inv, Placed, InDriverNow
<1>4. busy[h] /\ sector[h] # None
  BY <1>1, <1>3 DEF Inv, Single
<1>5. sector[h] \in Sectors
  BY <1>1, <1>4 DEF Inv, TypeInv
<1>6. \A c \in Bufs : sector[c] = sector[h] => c = h
  BY <1>1, <1>4 DEF Inv, Single
<1>7. QED BY <1>1, <1>4, <1>5, <1>6 DEF h

LEMMA DiskWorksKeeps ==
  ASSUME Inv, DiskWorks
  PROVE  Inv'
<1> USE DEF Inv
<1> DEFINE h == Head(queue)
<1>1. /\ command # None /\ done'
      /\ disk' = IF command[1] = "write" THEN [disk EXCEPT ![command[2]] = command[3]]
                                         ELSE disk
      /\ UNCHANGED <<sector, busy, valid, dirty, data, lru, queue, command, pc, goal, chan, held>>
  BY DEF DiskWorks, bufVars, procVars
<1>2. queue # <<>> /\ command = Command(h, dirty[h])
  BY <1>1 DEF Line
<1>3. /\ h \in Elems(queue) /\ h \in Bufs /\ sector[h] \in Sectors /\ busy[h]
      /\ \A c \in Bufs : sector[c] = sector[h] => c = h
  BY <1>2, FirstQueued
<1> HIDE DEF h
<1>4. disk' = IF dirty[h] THEN [disk EXCEPT ![sector[h]] = data[h]] ELSE disk
  BY <1>1, <1>2 DEF Command
<1>5. \A c \in Bufs \ {h} : disk'[sector[c]] = disk[sector[c]]
  BY <1>3, <1>4 DEF TypeInv
<1>6. \A c \in Bufs : Clean(c) => Clean(c)'
  BY <1>1, <1>4, <1>5 DEF Clean
<1>7. TypeInv'
  BY <1>1, <1>3, <1>4 DEF TypeInv
<1>8. \A q \in Procs, c \in Bufs : Holds(q, c)' = Holds(q, c) /\ Lent(q, c)' = Lent(q, c)
  BY <1>1 DEF Holds, Lent, Elems
<1>9. Single'
  BY <1>1, <1>8 DEF Single, Once
<1>10. ASSUME NEW q \in Procs PROVE Placed(q)'
  <2>1. pc[q] \in InDriverNow /\ Clean(chan[q]) => Clean(chan[q])'
    <3> SUFFICES ASSUME pc[q] \in InDriverNow, Clean(chan[q]) PROVE Clean(chan[q])'
      OBVIOUS
    <3>1. PICK c \in Bufs : c = chan[q]
      BY DEF Placed
    <3>2. Clean(c)'
      BY <3>1, <1>6
    <3>3. QED BY <1>1, <3>1, <3>2 DEF Clean
  <2>2. QED BY <1>1, <2>1 DEF Placed, Holds, Elems, InDriverNow
<1>11. Tidy'
  <2>1. \A q \in Procs, c \in Bufs : Holds(q, c)' /\ ~Lent(q, c)' => Clean(c)'
    BY <1>6, <1>8 DEF Tidy
  <2>2. \A c \in Bufs : ~busy'[c] /\ valid'[c] => data'[c] = disk'[sector'[c]]
    BY <1>1, <1>3, <1>5 DEF Tidy
  <2>3. QED BY <1>1, <2>1, <2>2 DEF Tidy
<1>12. Line'
  <2>1. Elems(queue)' = Elems(queue) /\ Once(queue)' = Once(queue)
    BY <1>1 DEF Elems, Once
  <2>2. (queue # <<>> => command = Command(Head(queue), dirty[Head(queue)]))'
    BY <1>1, <1>2 DEF Command, h
  <2>3. dirty[h] => disk'[sector[h]] = data[h]
    BY <1>3, <1>4 DEF TypeInv
  <2>4. (queue # <<>> /\ done /\ dirty[Head(queue)] => disk[sector[Head(queue)]] = data[Head(queue)])'
    BY <1>1, <2>3 DEF h
  <2>5. \A c \in Elems(queue)' :
          /\ valid'[c] => dirty'[c]
          /\ \E q \in Procs : pc'[q] \in {"io_sleep", "io_look"} /\ chan'[q] = c
    BY <1>1, <2>1 DEF Line
  <2>6. (queue = <<>> => command = None)'
    BY <1>1, <1>2
  <2>7. QED BY <2>1, <2>2, <2>4, <2>5, <2>6, <1>1 DEF Line
<1>13. QED BY <1>7, <1>9, <1>10, <1>11, <1>12

LEMMA BrelseKeeps ==
  ASSUME Inv, NEW p \in Procs, Brelse(p)
  PROVE  Inv'
<1> USE DEF Inv
<1> DEFINE b == Head(held[p])
<1>1. /\ pc[p] = "user" /\ held[p] # <<>>
      /\ lru' = ToFront(lru, b) /\ busy' = [busy EXCEPT ![b] = FALSE]
      /\ held' = [held EXCEPT ![p] = Tail(held[p])]
      /\ WakeAndGoto(b, p, "user")
      /\ UNCHANGED <<sector, valid, dirty, data, queue, command, done, disk, goal, chan>>
  BY DEF Brelse, ideVars
<1>2. /\ b \in Bufs /\ Holds(p, b) /\ Tail(held[p]) \in Seq(Bufs)
      /\ Elems(held[p]) = {b} \cup Elems(Tail(held[p]))
      /\ Once(Tail(held[p])) /\ b \notin Elems(Tail(held[p]))
  BY <1>1, Popped DEF TypeInv, Holds, Single
<1> HIDE DEF b
<1>3. /\ \A q \in Procs : pc[q] \in InDriverNow => chan[q] # b
      /\ b \notin Elems(queue)
      /\ Clean(b)
  <2>1. \A q \in Procs : pc[q] \in InDriverNow => chan[q] # b
    BY <1>1, <1>2, LenderHolds DEF InDriverNow
  <2>2. b \notin Elems(queue)
    BY <1>1, <1>2, NotQueued
  <2>3. Clean(b)
    BY <1>1, <1>2 DEF Tidy, Lent, InDriverNow
  <2>4. QED BY <2>1, <2>2, <2>3
<1>4. /\ pc' \in [Procs -> {"user", "get", "get_sleep"} \cup InDriverNow]
      /\ \A q \in Procs : pc'[q] = IF pc[q] = "get_sleep" /\ chan[q] = b THEN "get" ELSE pc[q]
  BY <1>1, <1>3 DEF WakeAndGoto, TypeInv, InDriverNow
<1>5. TypeInv'
  BY <1>1, <1>2, <1>4, Fronted DEF TypeInv
<1>6. \A q \in Procs, c \in Bufs : Holds(q, c)' <=> Holds(q, c) /\ ~(q = p /\ c = b)
  <2>1. held'[p] = Tail(held[p]) /\ \A q \in Procs : q # p => held'[q] = held[q]
    BY <1>1 DEF TypeInv
  <2>2. \A q \in Procs : Elems(held'[q]) = IF q = p THEN Elems(held[p]) \ {b} ELSE Elems(held[q])
    BY <1>2, <2>1
  <2>3. QED BY <2>2 DEF Holds
<1>7. Single'
  <2>1. \A q \in Procs : Once(held[q])'
    BY <1>1, <1>2 DEF Single, TypeInv, Once
  <2>2. \A q \in Procs, c \in Bufs : Holds(q, c)' => busy'[c] /\ sector'[c] # None
    BY <1>1, <1>2, <1>6 DEF Single, TypeInv
  <2>3. QED BY <1>1, <1>6, <2>1, <2>2 DEF Single
<1>8. \A c \in Bufs : Clean(c)' = Clean(c)
  BY <1>1 DEF Clean
<1>9. \A q \in Procs : pc[q] \in InDriverNow \/ pc'[q] \in InDriverNow => pc'[q] = pc[q]
  BY <1>4 DEF InDriverNow
<1>10. ASSUME NEW q \in Procs PROVE Placed(q)'
  <2>1. ASSUME pc'[q] = "get_sleep" PROVE chan[q] \in Bufs /\ busy'[chan[q]]
    BY <2>1, <1>1, <1>2, <1>4 DEF Placed, TypeInv, InDriverNow
  <2>2. ASSUME pc'[q] \in InDriverNow
        PROVE  /\ chan[q] \in Bufs /\ Holds(q, chan[q])'
               /\ Clean(chan[q])' = Clean(chan[q])
    <3>1. PICK c \in Bufs : c = chan[q] /\ c # b /\ Holds(q, c)
      BY <2>2, <1>3, <1>9 DEF Placed
    <3>2. Holds(q, c)'
      BY <3>1, <1>6
    <3>3. QED BY <3>1, <3>2, <1>1, <1>8 DEF Holds, Clean
  <2>3. QED BY <1>1, <1>4, <1>9, <2>1, <2>2 DEF Placed, InDriverNow
<1>11. Tidy'
  <2>1. ASSUME NEW q \in Procs, NEW c \in Bufs, Holds(q, c)', ~Lent(q, c)'
        PROVE  Clean(c)'
    <3>1. Holds(q, c) /\ ~Lent(q, c)
      BY <2>1, <1>1, <1>6, <1>9 DEF Lent
    <3>2. QED BY <3>1, <1>8 DEF Tidy
  <2>2. \A c \in Bufs : c # b => busy'[c] = busy[c]
    BY <1>1 DEF TypeInv
  <2>3. QED BY <1>1, <1>3, <2>1, <2>2 DEF Tidy, Clean
<1>12. Line'
  <2>1. \A c \in Elems(queue) :
          \E q \in Procs : pc'[q] \in {"io_sleep", "io_look"} /\ chan'[q] = c
    BY <1>1, <1>9 DEF Line, InDriverNow
  <2>2. queue # <<>> => Head(queue) \in Elems(queue)
    BY Popped DEF TypeInv
  <2>3. QED BY <1>1, <2>1, <2>2, SameLine
<1>13. QED BY <1>5, <1>7, <1>10, <1>11, <1>12

LEMMA IderwKeeps ==
  ASSUME Inv, NEW p \in Procs, Iderw(p)
  PROVE  Inv'
<1> USE DEF Inv
<1>0. PICK b \in Bufs : b = chan[p]
  BY DEF Iderw, Placed, InDriverNow
<1>1. /\ pc[p] = "io" /\ queue' = Append(queue, b) /\ pc' = [pc EXCEPT ![p] = "io_sleep"]
      /\ queue = <<>> => command' = Command(b, dirty[b]) /\ done' = FALSE
      /\ queue # <<>> => command' = command /\ done' = done
      /\ UNCHANGED <<sector, busy, valid, dirty, data, lru, disk, goal, chan, held>>
  BY <1>0 DEF Iderw, StartsDisk, Goto, bufVars
<1>2. Holds(p, b) /\ b \notin Elems(queue) /\ (valid[b] => dirty[b])
  BY <1>0, <1>1 DEF Placed, InDriverNow
<1>3. /\ Append(queue, b) \in Seq(Bufs) /\ Append(queue, b) # <<>>
      /\ Elems(Append(queue, b)) = {b} \cup Elems(queue)
      /\ Once(Append(queue, b))
      /\ Head(Append(queue, b)) = IF queue = <<>> THEN b ELSE Head(queue)
  BY <1>2, Queued DEF TypeInv, Line
<1>4. TypeInv'
  BY <1>1, <1>3 DEF TypeInv, InDriverNow
<1>5. \A q \in Procs, c \in Bufs :
        /\ Holds(q, c)' = Holds(q, c)
        /\ Lent(q, c)' = Lent(q, c)
        /\ Clean(c)' = Clean(c)
  BY <1>1 DEF TypeInv, Holds, Lent, Clean, InDriverNow, Elems
<1>6. Single'
  BY <1>1, <1>5 DEF Single, Once
<1>7. ASSUME NEW q \in Procs PROVE Placed(q)'
  <2>1. CASE q = p
    <3>1. pc'[p] = "io_sleep" /\ chan'[p] = b /\ b \in Elems(queue')
      BY <1>0, <1>1, <1>3 DEF TypeInv
    <3>2. Holds(p, chan[p])'
      BY <1>0, <1>1, <1>2 DEF Holds
    <3>3. QED BY <2>1, <3>1, <3>2, <1>1, <1>2 DEF Placed, InDriverNow
  <2>2. CASE q # p
    <3>1. pc'[q] = pc[q] /\ chan'[q] = chan[q]
      BY <2>2, <1>1 DEF TypeInv
    <3>2. pc[q] \in InDriverNow => chan[q] # b
      BY <2>2, <1>2, LenderHolds
    <3>3. pc[q] \in InDriverNow => (chan[q] \in Elems(queue') <=> chan[q] \in Elems(queue))
      BY <1>1, <1>3, <3>2
    <3>4. /\ Holds(q, chan[q])' = Holds(q, chan[q])
          /\ Clean(chan[q])' = Clean(chan[q])
      BY <1>1 DEF Holds, Clean
    <3>5. QED BY <1>1, <3>1, <3>3, <3>4 DEF Placed, InDriverNow
  <2>3. QED BY <2>1, <2>2
<1>8. Tidy'
  <2>1. \A q \in Procs, c \in Bufs : Holds(q, c)' /\ ~Lent(q, c)' => Clean(c)'
    BY <1>5 DEF Tidy
  <2>2. QED BY <1>1, <2>1 DEF Tidy
<1>9. Line'
  <2>1. queue' # <<>> /\ Once(queue')
    BY <1>1, <1>3
  <2>2. PICK h : h = Head(queue') /\ h = IF queue = <<>> THEN b ELSE Head(queue)
    BY <1>1, <1>3
  <2>3. ASSUME NEW c \in Elems(queue')
        PROVE  /\ valid'[c] => dirty'[c]
               /\ \E q \in Procs : pc'[q] \in {"io_sleep", "io_look"} /\ chan'[q] = c
    <3>1. CASE c = b
      BY <3>1, <1>0, <1>1, <1>2 DEF TypeInv
    <3>2. CASE c # b
      <4>1. c \in Elems(queue)
        BY <3>2, <1>1, <1>3
      <4>2. PICK q \in Procs : pc[q] \in {"io_sleep", "io_look"} /\ chan[q] = c
        BY <4>1 DEF Line
      <4>3. pc'[q] = pc[q] /\ chan'[q] = chan[q]
        BY <4>2, <1>1 DEF TypeInv
      <4>4. QED BY <4>1, <4>2, <4>3, <1>1 DEF Line
    <3>3. QED BY <3>1, <3>2
  <2>4. command' = Command(h, dirty[h])
    BY <1>1, <2>2 DEF Line
  <2>5. done' /\ dirty'[h] => disk'[sector'[h]] = data'[h]
    BY <1>1, <2>2 DEF Line
  <2>6. (queue # <<>> => command = Command(Head(queue), dirty[Head(queue)]))'
    BY <2>2, <2>4, <1>1 DEF Command
  <2>7. QED BY <2>1, <2>2, <2>3, <2>5, <2>6 DEF Line
<1>10. QED BY <1>4, <1>6, <1>7, <1>8, <1>9

LEMMA IdeIntrKeeps ==
  ASSUME Inv, IdeIntr
  PROVE  Inv'
<1> USE DEF Inv
<1>0. PICK h, rest : h = Head(queue) /\ rest = Tail(queue)
  OBVIOUS
<1>1. /\ done /\ queue # <<>> /\ queue' = rest /\ done' = FALSE
      /\ data' = IF dirty[h] THEN data ELSE [data EXCEPT ![h] = disk[command[2]]]
      /\ valid' = [valid EXCEPT ![h] = TRUE] /\ dirty' = [dirty EXCEPT ![h] = FALSE]
      /\ WakeAndGoto(h, None, "user")
      /\ command' = IF rest = <<>> THEN None ELSE Command(Head(rest), dirty[Head(rest)])
      /\ UNCHANGED <<sector, busy, lru, disk, goal, chan, held>>
  BY <1>0 DEF IdeIntr, NextCommand
<1>2. /\ rest \in Seq(Bufs) /\ Elems(queue) = {h} \cup Elems(rest)
      /\ Once(rest) /\ h \notin Elems(rest)
  BY <1>0, <1>1, Popped DEF TypeInv, Line
<1>3. /\ h \in Elems(queue) /\ h \in Bufs /\ sector[h] \in Sectors /\ busy[h]
      /\ \A c \in Bufs : sector[c] = sector[h] => c = h
  BY <1>0, <1>1, FirstQueued
<1>4. command = Command(h, dirty[h]) /\ (dirty[h] => disk[sector[h]] = data[h])
  BY <1>0, <1>1 DEF Line
<1>5. rest # <<>> => Head(rest) \in Elems(rest)
  BY <1>2, Popped
<1>6. Clean(h)'
  <2>1. CASE dirty[h]
    BY <2>1, <1>1, <1>3, <1>4 DEF TypeInv, Clean
  <2>2. CASE ~dirty[h]
    <3>1. command[2] = sector[h]
      BY <2>2, <1>4 DEF Command
    <3>2. QED BY <2>2, <3>1, <1>1, <1>3 DEF TypeInv, Clean
  <2>3. QED BY <2>1, <2>2
<1>7. \A c \in Bufs \ {h} : /\ data'[c] = data[c] /\ valid'[c] = valid[c] /\ dirty'[c] = dirty[c]
                            /\ sector'[c] = sector[c] /\ Clean(c)' = Clean(c)
  BY <1>1 DEF Clean, TypeInv
<1>8. /\ pc' \in [Procs -> {"user", "get", "get_sleep"} \cup InDriverNow]
      /\ \A q \in Procs : pc'[q] = IF chan[q] = h /\ pc[q] = "get_sleep" THEN "get"
                                   ELSE IF chan[q] = h /\ pc[q] = "io_sleep" THEN "io_look"
                                   ELSE pc[q]
  BY <1>1, NoneIsNone DEF WakeAndGoto, TypeInv, InDriverNow
<1>9. TypeInv'
  <2>1. ~dirty[h] => command[2] = sector[h]
    BY <1>4 DEF Command
  <2>2. data' \in [Bufs -> Values \cup {None}]
    BY <1>1, <1>3, <2>1 DEF TypeInv
  <2>3. QED BY <1>1, <1>2, <1>8, <2>2 DEF TypeInv
<1>10. \A q \in Procs, c \in Bufs : Holds(q, c)' = Holds(q, c) /\ Lent(q, c)' = Lent(q, c)
  BY <1>1, <1>8 DEF Holds, Lent, InDriverNow, Elems
<1>11. Single'
  BY <1>1, <1>10 DEF Single, Once
<1>12. ASSUME NEW q \in Procs PROVE Placed(q)'
  <2>1. pc'[q] = "get_sleep" => pc[q] = "get_sleep"
    BY <1>8
  <2>2. pc'[q] \in InDriverNow => pc[q] \in InDriverNow /\ chan[q] \in Bufs /\ Holds(q, chan[q])'
    BY <1>1, <1>8 DEF InDriverNow, Placed, Holds
  <2>3. pc'[q] = "io" => pc[q] = "io" /\ chan[q] \in Bufs \ {h}
    BY <1>3, <1>8 DEF InDriverNow, Placed
  <2>4. pc'[q] = "io" => /\ chan[q] \notin Elems(rest)
                         /\ valid'[chan[q]] => dirty'[chan[q]]
    BY <1>2, <1>7, <2>3 DEF Placed
  <2>5. pc'[q] = "io_sleep" => chan[q] \in Elems(rest)
    BY <1>2, <1>8 DEF Placed, InDriverNow
  <2>6. ASSUME pc'[q] = "io_look" PROVE chan[q] \in Elems(rest) \/ Clean(chan[q])'
    <3>1. PICK c \in Bufs : c = chan[q]
      BY <2>2, <2>6 DEF InDriverNow
    <3>2. c \in Elems(rest) \/ Clean(c)'
      <4>1. CASE c = h
        BY <4>1, <1>6 DEF Clean
      <4>2. CASE c # h
        BY <4>2, <2>6, <3>1, <1>2, <1>7, <1>8 DEF Placed, InDriverNow
      <4>3. QED BY <4>1, <4>2
    <3>3. QED BY <3>1, <3>2, <1>1 DEF Clean
  <2>7. QED BY <1>1, <1>8, <2>1, <2>2, <2>4, <2>5, <2>6 DEF Placed, InDriverNow, Elems
<1>13. Tidy'
  <2>1. ASSUME NEW q \in Procs, NEW c \in Bufs, Holds(q, c)', ~Lent(q, c)'
        PROVE  Clean(c)'
    <3>1. CASE c = h
      BY <3>1, <1>6 DEF Clean
    <3>2. CASE c # h
      BY <3>2, <2>1, <1>7, <1>10 DEF Tidy
    <3>3. QED BY <3>1, <3>2
  <2>2. \A c \in Bufs : ~busy[c] => c # h
    BY <1>3
  <2>3. QED BY <1>1, <1>7, <2>1, <2>2 DEF Tidy
<1>14. Line'
  <2>1. ASSUME NEW c \in Elems(rest)
        PROVE  /\ valid'[c] => dirty'[c]
               /\ \E q \in Procs : pc'[q] \in {"io_sleep", "io_look"} /\ chan'[q] = c
    <3>1. c \in Elems(queue) /\ c \in Bufs \ {h}
      BY <1>2, ElemsIn
    <3>2. PICK q \in Procs : pc[q] \in {"io_sleep", "io_look"} /\ chan[q] = c
      BY <3>1 DEF Line
    <3>3. pc'[q] = pc[q] /\ chan'[q] = chan[q]
      BY <3>1, <3>2, <1>1, <1>8
    <3>4. QED BY <3>1, <3>2, <3>3, <1>7 DEF Line
  <2>2. rest # <<>> => Head(rest) \in Bufs \ {h}
    BY <1>2, <1>5, ElemsIn
  <2>3. rest # <<>> => command' = Command(Head(rest), dirty[Head(rest)])'
    BY <2>2, <1>1, <1>7 DEF Command
  <2>4. (queue # <<>> => command = Command(Head(queue), dirty[Head(queue)]))'
    BY <2>3, <1>1 DEF Command
  <2>5. (queue = <<>> => command = None)' /\ ~done'
    BY <1>1
  <2>6. Elems(queue)' = Elems(rest) /\ Once(queue)'
    BY <1>1, <1>2 DEF Elems, Once
  <2>7. QED BY <1>1, <2>1, <2>4, <2>5, <2>6 DEF Line
<1>15. QED BY <1>9, <1>11, <1>12, <1>13, <1>14

\* A step that leaves all but panicked as it is.
LEMMA StillKeeps ==
  ASSUME Inv, UNCHANGED <<bufVars, lru, ideVars, procVars>>
  PROVE  Inv'
<1>1. UNCHANGED <<sector, busy, valid, dirty, data, lru, queue, command, done, disk,
                  pc, goal, chan, held>>
  BY DEF bufVars, ideVars, procVars
<1>2. QED
  BY <1>1 DEF Inv, TypeInv, Single, Placed, Tidy, Line, Holds, Lent, Clean, Elems, Once, Command

LEMMA NextKeeps ==
  ASSUME Inv, [Next]_vars
  PROVE  Inv'
<1>1. ASSUME NEW p \in Procs, Get(p) PROVE Inv'
  <2>1. CASE GetNone(p)
    BY <2>1, StillKeeps DEF GetNone
  <2>2. QED BY <1>1, <2>1, GetCachedKeeps, GetBusyKeeps, GetFreshKeeps DEF Get
<1>2. ASSUME NEW p \in Procs, Uses(p) PROVE Inv'
  BY <1>2, BreadKeeps, BwriteKeeps DEF Uses
<1>3. ASSUME NEW p \in Procs, Iderw(p) \/ IderwLook(p) \/ Brelse(p) \/ Kill(p) PROVE Inv'
  BY <1>3, IderwKeeps, IderwLookKeeps, BrelseKeeps, KillKeeps
<1>4. CASE UNCHANGED vars
  BY <1>4, StillKeeps DEF vars
<1>5. QED BY <1>1, <1>2, <1>3, <1>4, DiskWorksKeeps, IdeIntrKeeps DEF Next

LEMMA Invariance == Spec => []Inv
BY Starts, NextKeeps, PTL DEF Spec

-----------------------------------------------------------------------------
\* However many processes bget runs for, and however often it sleeps and scans
\* again, a sector has one buffer, and a buffer nobody has is clean and as the
\* disk.
THEOREM CacheIsCoherent == Spec => []CacheCoherent
<1>1. Inv => CacheCoherent
  BY DEF Inv, Single, Tidy, CacheCoherent
<1>2. QED BY <1>1, Invariance, PTL

\* Whoever sleeps in bget sleeps on a buffer that somebody has, whoever sleeps
\* in iderw on one that the interrupt has yet to come for: brelse and ideintr
\* wake them.
THEOREM NoWakeupIsLost == Spec => []WaitersHaveCause
<1>1. Inv => WaitersHaveCause
  BY DEF Inv, Placed, WaitersHaveCause, Elems
<1>2. QED BY <1>1, Invariance, PTL

-----------------------------------------------------------------------------
(* BufCache implements SectorStore.  The refinement rests on Inv and on     *)
(* Filled: what a buffer has when it is valid.                             *)

Filled ==
  /\ disk \in [Sectors -> Values]
  /\ \A b \in Bufs : valid[b] => data[b] \in Values
  /\ \A b \in Bufs : dirty[b] => valid[b]
  /\ \A p \in Procs : pc[p] \notin {"get", "get_sleep"} => goal[p] = None

FullInv == Inv /\ Filled

\* The substitutions for holder and seen.
Owner == [s \in Sectors |-> IF \E p \in Procs : Has(s, p)
                            THEN CHOOSE p \in Procs : Has(s, p) ELSE None]
Sight == [s \in Sectors |-> IF \E b \in Cached(s) : busy[b] /\ valid[b]
                            THEN data[CHOOSE b \in Cached(s) : busy[b] /\ valid[b]]
                            ELSE None]

-----------------------------------------------------------------------------
(* Filled is invariant. *)

LEMMA FilledStarts == Init => Filled
BY DEF Init, Filled

LEMMA GotFills ==
  ASSUME Inv, Filled, NEW p \in Procs, NEW b \in Bufs, Got(p, b), pc[p] = "get",
         NEW v \in BOOLEAN, valid' = [valid EXCEPT ![b] = v], v => valid[b],
         dirty' = [dirty EXCEPT ![b] = FALSE], UNCHANGED <<data, disk>>
  PROVE  Filled'
<1>1. /\ goal' = [goal EXCEPT ![p] = None]
      /\ \A q \in Procs \ {p} : pc'[q] = pc[q]
  BY DEF Got, Goto, Inv, TypeInv
<1>2. QED BY <1>1 DEF Filled, Inv, TypeInv

LEMMA BufferStepFills ==
  ASSUME Inv, Filled, NEW p \in Procs, GetCached(p) \/ GetFresh(p)
  PROVE  Filled'
<1>1. CASE GetCached(p)
  <2>1. PICK b \in Bufs : ~busy[b] /\ Got(p, b) /\ UNCHANGED <<sector, valid, dirty, data>>
    BY <1>1 DEF GetCached, Cached
  <2>2. pc[p] = "get" /\ UNCHANGED <<data, disk>>
    BY <1>1, <2>1 DEF GetCached, ideVars
  <2>3. valid' = [valid EXCEPT ![b] = valid[b]] /\ dirty' = [dirty EXCEPT ![b] = FALSE]
        /\ valid[b] \in BOOLEAN
    BY <2>1 DEF Inv, TypeInv, Tidy
  <2>4. QED BY <2>1, <2>2, <2>3, GotFills
<1>2. CASE GetFresh(p)
  <2>1. PICK b : /\ b = lru[CHOOSE i \in Idle : \A j \in Idle : j <= i]
                 /\ valid' = [valid EXCEPT ![b] = FALSE]
                 /\ dirty' = [dirty EXCEPT ![b] = FALSE] /\ Got(p, b)
    BY <1>2 DEF GetFresh, FreshValid
  <2>2. pc[p] = "get" /\ UNCHANGED <<data, disk>> /\ Idle # {}
    BY <1>2 DEF GetFresh, ideVars
  <2>3. b \in Bufs
    BY <2>1, <2>2, LastInBufs DEF Inv, TypeInv
  <2>4. QED BY <2>1, <2>2, <2>3, GotFills
<1>3. QED BY <1>1, <1>2

LEMMA FilledSteps ==
  ASSUME Inv, Filled, [Next]_vars
  PROVE  Filled'
<1> USE DEF Inv
<1>1. ASSUME NEW p \in Procs, Get(p) PROVE Filled'
  <2>1. CASE GetBusy(p)
    BY <2>1 DEF GetBusy, Goto, Filled, TypeInv, bufVars, ideVars
  <2>2. CASE GetNone(p)
    BY <2>2 DEF GetNone, Filled, bufVars, ideVars, procVars
  <2>3. QED BY <1>1, <2>1, <2>2, BufferStepFills DEF Get
<1>2. ASSUME NEW p \in Procs, NEW s \in Sectors, Bread(p, s) PROVE Filled'
  BY <1>2 DEF Bread, Goto, Filled, TypeInv, bufVars, ideVars
<1>3. ASSUME NEW p \in Procs, NEW v \in Values, Bwrite(p, v) PROVE Filled'
  <2>1. PICK b : /\ b = Head(held[p]) /\ pc[p] = "user" /\ held[p] # <<>>
                 /\ data' = [data EXCEPT ![b] = v] /\ dirty' = [dirty EXCEPT ![b] = TRUE]
                 /\ pc' = [pc EXCEPT ![p] = "io"] /\ UNCHANGED <<valid, disk, goal>>
    BY <1>3 DEF Bwrite, Goto, ideVars
  <2>2. b \in Bufs /\ Holds(p, b)
    BY <2>1, Popped DEF TypeInv, Holds
  <2>3. valid[b]
    BY <2>1, <2>2 DEF Tidy, Lent, InDriverNow, Clean
  <2>4. QED BY <2>1, <2>2, <2>3 DEF Filled, TypeInv
<1>4. ASSUME NEW p \in Procs, Brelse(p) PROVE Filled'
  <2>1. \A q \in Procs : pc'[q] \in {"get", "get_sleep"} \/ pc[q] \notin {"get", "get_sleep"}
    BY <1>4 DEF Brelse, WakeAndGoto
  <2>2. UNCHANGED <<valid, dirty, data, disk, goal>>
    BY <1>4 DEF Brelse, ideVars
  <2>3. QED BY <2>1, <2>2 DEF Filled
<1>5. ASSUME NEW p \in Procs, Iderw(p) \/ IderwLook(p) \/ Kill(p) PROVE Filled'
  <2>1. \A q \in Procs : pc'[q] \in {"get", "get_sleep"} \/ pc[q] \notin {"get", "get_sleep"}
    BY <1>5 DEF Iderw, IderwLook, Kill, Goto, TypeInv
  <2>2. UNCHANGED <<valid, dirty, data, disk, goal>>
    BY <1>5 DEF Iderw, IderwLook, Kill, bufVars, ideVars
  <2>3. QED BY <2>1, <2>2 DEF Filled
<1>6. CASE DiskWorks
  <2>1. /\ command # None /\ UNCHANGED <<valid, dirty, data, pc, goal>>
        /\ disk' = IF command[1] = "write" THEN [disk EXCEPT ![command[2]] = command[3]]
                                           ELSE disk
    BY <1>6 DEF DiskWorks, bufVars, procVars
  <2>2. PICK h \in Bufs : command = Command(h, dirty[h])
    BY <2>1, FirstQueued DEF Line
  <2>3. disk' = IF dirty[h] THEN [disk EXCEPT ![sector[h]] = data[h]] ELSE disk
    BY <2>1, <2>2 DEF Command
  <2>4. QED BY <2>1, <2>3 DEF Filled
<1>7. CASE IdeIntr
  <2>1. PICK h \in Bufs : /\ command = Command(h, dirty[h]) /\ sector[h] \in Sectors
                          /\ data' = IF dirty[h] THEN data ELSE [data EXCEPT ![h] = disk[command[2]]]
                          /\ valid' = [valid EXCEPT ![h] = TRUE]
                          /\ dirty' = [dirty EXCEPT ![h] = FALSE]
                          /\ WakeAndGoto(h, None, "user") /\ UNCHANGED <<disk, goal>>
    BY <1>7, FirstQueued DEF IdeIntr, Line
  <2>2. ~dirty[h] => command[2] = sector[h]
    BY <2>1 DEF Command
  <2>3. \A q \in Procs : pc'[q] \in {"get", "get_sleep"} \/ pc[q] \notin {"get", "get_sleep"}
    BY <2>1, NoneIsNone DEF WakeAndGoto
  <2>4. QED BY <2>1, <2>2, <2>3 DEF Filled, TypeInv
<1>8. CASE UNCHANGED vars
  BY <1>8 DEF Filled, vars, bufVars, ideVars, procVars
<1>9. QED BY <1>1, <1>2, <1>3, <1>4, <1>5, <1>6, <1>7, <1>8 DEF Next, Uses

LEMMA FullInvariance == Spec => []FullInv
<1>1. Init => FullInv
  BY Starts, FilledStarts DEF FullInv
<1>2. FullInv /\ [Next]_vars => FullInv'
  BY NextKeeps, FilledSteps DEF FullInv
<1>3. QED BY <1>1, <1>2, PTL DEF Spec

-----------------------------------------------------------------------------
(* The mapping. *)

\* What the two substitutions say when a sector has one buffer.
OwnerFacts ==
  /\ \A p \in Procs, b \in Bufs : Holds(p, b) => Owner[sector[b]] = p
  /\ \A s \in Sectors :
       (\A p \in Procs, b \in Bufs : Holds(p, b) => sector[b] # s) => Owner[s] = None
SightFacts ==
  /\ \A b \in Bufs : busy[b] /\ valid[b] /\ sector[b] \in Sectors
                       => Sight[sector[b]] = data[b]
  /\ \A s \in Sectors :
       (\A b \in Bufs : busy[b] /\ valid[b] => sector[b] # s) => Sight[s] = None

LEMMA OwnerMeans == Inv => OwnerFacts
<1> SUFFICES ASSUME Inv PROVE OwnerFacts
  OBVIOUS
<1>1. \A s \in Sectors, p \in Procs : Has(s, p) <=> \E b \in Bufs : Holds(p, b) /\ sector[b] = s
  <2>1. \A p \in Procs : held[p] \in Seq(Bufs) /\ Elems(held[p]) \subseteq Bufs
    BY ElemsIn DEF Inv, TypeInv
  <2>2. \A s \in Sectors, p \in Procs : Has(s, p) <=> \E b \in Elems(held[p]) : sector[b] = s
    BY DEF Has, Elems
  <2>3. QED BY <2>1, <2>2 DEF Holds
<1>2. ASSUME NEW p \in Procs, NEW b \in Bufs, Holds(p, b)
      PROVE  Owner[sector[b]] = p
  <2>1. PICK s \in Sectors : s = sector[b]
    BY <1>2 DEF Inv, Single, TypeInv
  <2>2. Has(s, p)
    BY <1>1, <1>2, <2>1
  <2>3. \A q \in Procs : Has(s, q) => q = p
    BY <1>1, <1>2, <2>1, NoneIsNone DEF Inv, Single
  <2>4. QED BY <2>1, <2>2, <2>3 DEF Owner
<1>3. ASSUME NEW s \in Sectors, \A p \in Procs, b \in Bufs : Holds(p, b) => sector[b] # s
      PROVE  Owner[s] = None
  BY <1>1, <1>3 DEF Owner
<1>4. QED BY <1>2, <1>3 DEF OwnerFacts

LEMMA SightMeans == Inv => SightFacts
<1> SUFFICES ASSUME Inv PROVE SightFacts
  OBVIOUS
<1>1. ASSUME NEW b \in Bufs, busy[b], valid[b], sector[b] \in Sectors
      PROVE  Sight[sector[b]] = data[b]
  <2>1. b \in Cached(sector[b])
    BY DEF Cached
  <2>2. \A c \in Cached(sector[b]) : c = b
    BY <1>1, NoneIsNone DEF Cached, Inv, Single
  <2>3. QED BY <1>1, <2>1, <2>2 DEF Sight
<1>2. ASSUME NEW s \in Sectors, \A b \in Bufs : busy[b] /\ valid[b] => sector[b] # s
      PROVE  Sight[s] = None
  BY <1>2 DEF Sight, Cached
<1>3. QED BY <1>1, <1>2 DEF SightFacts

-----------------------------------------------------------------------------
(* Every step maps to a step of SectorStore or to a stutter. *)

\* What a step does not touch the mapping does not see.
LEMMA OwnerStays == UNCHANGED <<sector, held>> => Owner' = Owner
BY DEF Owner, Has

LEMMA SightStays == UNCHANGED <<sector, busy, valid, data>> => Sight' = Sight
BY DEF Sight, Cached

\* Both are functions on the sectors, in this state and the next.
LEMMA OwnerIsMap == /\ Owner = [s \in Sectors |-> Owner[s]]
                    /\ Owner' = [s \in Sectors |-> Owner'[s]]
BY DEF Owner

LEMMA SightIsMap == /\ Sight = [s \in Sectors |-> Sight[s]]
                    /\ Sight' = [s \in Sectors |-> Sight'[s]]
BY DEF Sight

\* A step that the store does not see.
LEMMA Unseen ==
  ASSUME UNCHANGED <<sector, busy, valid, data, disk, goal, held>>
  PROVE  UNCHANGED Store!vars
<1>1. Owner' = Owner /\ Sight' = Sight
  BY OwnerStays, SightStays
<1>2. QED BY <1>1 DEF Store!vars, Owner, Sight

LEMMA MapsInit == Init => Store!Init
<1> SUFFICES ASSUME Init PROVE Store!Init
  OBVIOUS
<1>1. Owner = [s \in Sectors |-> None]
  BY DEF Init, Owner, Has
<1>2. Sight = [s \in Sectors |-> None]
  BY DEF Init, Sight, Cached
<1>3. QED BY <1>1, <1>2 DEF Init, Store!Init, Owner, Sight

LEMMA MapsBread ==
  ASSUME FullInv, NEW p \in Procs, NEW s \in Sectors, Bread(p, s)
  PROVE  Store!Ask(p, s)
<1>1. /\ goal[p] = None /\ goal' = [goal EXCEPT ![p] = s]
      /\ UNCHANGED <<sector, busy, valid, data, held, disk>>
  BY DEF FullInv, Filled, Bread, bufVars, ideVars
<1>2. Owner' = Owner /\ Sight' = Sight
  BY <1>1, OwnerStays, SightStays
<1>3. QED BY <1>1, <1>2 DEF Store!Ask, Owner, Sight

\* bget and bread take the sector, and see it if it is valid.
LEMMA MapsGot ==
  ASSUME FullInv, FullInv', NEW p \in Procs, NEW b \in Bufs,
         pc[p] = "get", ~busy[b], Got(p, b),
         sector' = [sector EXCEPT ![b] = goal[p]],
         NEW v \in BOOLEAN, valid' = [valid EXCEPT ![b] = v],
         v => valid[b] /\ sector[b] = goal[p],
         \A c \in Bufs : sector[c] = goal[p] => c = b,
         UNCHANGED <<data, disk>>
  PROVE  \E s \in Sectors : Store!Take(p, s) \/ Store!TakeAndSee(p, s)
<1> USE DEF FullInv
<1>1. PICK s \in Sectors : s = goal[p]
  BY DEF Inv, Placed
<1>2. PICK mine \in Seq(Bufs) : /\ held' = [held EXCEPT ![p] = mine]
                               /\ Elems(mine) = {b} \cup Elems(held[p])
  <2>1. held' = [held EXCEPT ![p] = <<b>> \o held[p]] /\ held[p] \in Seq(Bufs)
    BY DEF Got, Inv, TypeInv
  <2>2. QED BY <2>1, Pushed
<1>3. busy' = [busy EXCEPT ![b] = TRUE] /\ goal' = [goal EXCEPT ![p] = None]
  BY DEF Got
<1>4. /\ \A q \in Procs : ~Holds(q, b)
      /\ \A q \in Procs, c \in Bufs : Holds(q, c)' <=> Holds(q, c) \/ (q = p /\ c = b)
  <2>1. \A q \in Procs : ~Holds(q, b)
    BY DEF Inv, Single
  <2>2. held'[p] = mine /\ \A q \in Procs : q # p => held'[q] = held[q]
    BY <1>2 DEF Inv, TypeInv
  <2>3. QED BY <1>2, <2>1, <2>2 DEF Holds
<1>5. /\ \A c \in Bufs \ {b} : /\ sector'[c] = sector[c] /\ sector[c] # s
                               /\ busy'[c] = busy[c] /\ valid'[c] = valid[c]
      /\ sector'[b] = s /\ busy'[b] /\ (valid'[b] <=> v)
  BY <1>1, <1>3 DEF Inv, TypeInv
<1>6. OwnerFacts /\ SightFacts
  BY OwnerMeans, SightMeans
<1>7. OwnerFacts' /\ SightFacts'
  <2>1. Inv'
    OBVIOUS
  <2>2. QED BY <2>1, OwnerMeans, SightMeans, PTL
<1>8. Owner[s] = None
  BY <1>4, <1>5, <1>6 DEF OwnerFacts
<1>9. Owner' = [Owner EXCEPT ![s] = p]
  <2>1. Owner'[s] = p
    BY <1>4, <1>5, <1>7 DEF OwnerFacts
  <2>2. ASSUME NEW t \in Sectors, t # s PROVE Owner'[t] = Owner[t]
    <3>1. CASE \E q \in Procs, c \in Bufs : Holds(q, c) /\ sector[c] = t
      <4>1. PICK q \in Procs, c \in Bufs : Holds(q, c) /\ sector[c] = t
        BY <3>1
      <4>2. Holds(q, c)' /\ sector'[c] = t
        BY <1>4, <1>5, <4>1
      <4>3. QED BY <4>1, <4>2, <1>6, <1>7 DEF OwnerFacts
    <3>2. CASE \A q \in Procs, c \in Bufs : Holds(q, c) => sector[c] # t
      <4>1. \A q \in Procs, c \in Bufs : Holds(q, c)' => sector'[c] # t
        BY <2>2, <3>2, <1>4, <1>5
      <4>2. QED BY <3>2, <4>1, <1>6, <1>7 DEF OwnerFacts
    <3>3. QED BY <3>1, <3>2
  <2>3. QED BY <2>1, <2>2, OwnerIsMap
<1>10. Sight' = [Sight EXCEPT ![s] = IF v THEN disk[s] ELSE @]
  <2>1. Sight[s] = None
    BY <1>5, <1>6 DEF SightFacts
  <2>2. Sight'[s] = IF v THEN disk[s] ELSE None
    <3>1. CASE v
      <4>1. data[b] = disk[s]
        BY <1>1, <3>1 DEF Inv, Tidy
      <4>2. QED BY <3>1, <4>1, <1>5, <1>7 DEF SightFacts
    <3>2. CASE ~v
      BY <3>2, <1>5, <1>7 DEF SightFacts
    <3>3. QED BY <3>1, <3>2
  <2>3. ASSUME NEW t \in Sectors, t # s PROVE Sight'[t] = Sight[t]
    <3>1. CASE \E c \in Bufs : busy[c] /\ valid[c] /\ sector[c] = t
      <4>1. PICK c \in Bufs : busy[c] /\ valid[c] /\ sector[c] = t
        BY <3>1
      <4>2. busy'[c] /\ valid'[c] /\ sector'[c] = t
        BY <1>5, <4>1
      <4>3. QED BY <4>1, <4>2, <1>6, <1>7 DEF SightFacts
    <3>2. CASE \A c \in Bufs : busy[c] /\ valid[c] => sector[c] # t
      <4>1. \A c \in Bufs : busy'[c] /\ valid'[c] => sector'[c] # t
        BY <2>3, <3>2, <1>5
      <4>2. QED BY <3>2, <4>1, <1>6, <1>7 DEF SightFacts
    <3>3. QED BY <3>1, <3>2
  <2>4. QED BY <2>1, <2>2, <2>3, SightIsMap
<1>11. CASE v
  BY <1>1, <1>3, <1>8, <1>9, <1>10, <1>11 DEF Store!TakeAndSee, Owner, Sight
<1>12. CASE ~v
  BY <1>1, <1>3, <1>8, <1>9, <1>10, <1>12, SightIsMap DEF Store!Take, Owner, Sight
<1>13. QED BY <1>11, <1>12

LEMMA MapsGet ==
  ASSUME FullInv, FullInv', NEW p \in Procs, Get(p)
  PROVE  Store!Next \/ UNCHANGED Store!vars
<1> USE DEF FullInv
<1>1. CASE GetCached(p)
  <2>1. PICK b \in Bufs : /\ sector[b] = goal[p] /\ ~busy[b] /\ Got(p, b)
                          /\ UNCHANGED <<sector, valid, dirty, data>>
    BY <1>1 DEF GetCached, Cached
  <2>2. pc[p] = "get" /\ UNCHANGED disk
    BY <1>1 DEF GetCached, ideVars
  <2>3. \A c \in Bufs : sector[c] = goal[p] => c = b
    BY <2>1, <2>2, NoneIsNone DEF Inv, Placed, Single
  <2>4. /\ sector' = [sector EXCEPT ![b] = goal[p]]
        /\ valid' = [valid EXCEPT ![b] = valid[b]] /\ valid[b] \in BOOLEAN
    BY <2>1 DEF Inv, TypeInv
  <2>5. \E s \in Sectors : Store!Take(p, s) \/ Store!TakeAndSee(p, s)
    BY <2>1, <2>2, <2>3, <2>4, MapsGot
  <2>6. QED BY <2>5 DEF Store!Next
<1>2. CASE GetFresh(p)
  <2>1. PICK b : /\ b = lru[CHOOSE i \in Idle : \A j \in Idle : j <= i]
                 /\ sector' = [sector EXCEPT ![b] = goal[p]]
                 /\ valid' = [valid EXCEPT ![b] = FALSE] /\ Got(p, b)
    BY <1>2 DEF GetFresh, FreshValid
  <2>2. pc[p] = "get" /\ UNCHANGED <<data, disk>> /\ Idle # {} /\ Cached(goal[p]) = {}
    BY <1>2 DEF GetFresh, ideVars
  <2>3. b \in Bufs /\ ~busy[b]
    BY <2>1, <2>2, LastInBufs DEF Inv, TypeInv
  <2>4. \A c \in Bufs : sector[c] = goal[p] => c = b
    BY <2>2 DEF Cached
  <2>5. \E s \in Sectors : Store!Take(p, s) \/ Store!TakeAndSee(p, s)
    BY <2>1, <2>2, <2>3, <2>4, MapsGot
  <2>6. QED BY <2>5 DEF Store!Next
<1>3. CASE GetBusy(p) \/ GetNone(p)
  <2>1. UNCHANGED <<sector, busy, valid, data, disk, goal, held>>
    BY <1>3 DEF GetBusy, GetNone, bufVars, ideVars, procVars
  <2>2. QED BY <2>1, Unseen
<1>4. QED BY <1>1, <1>2, <1>3 DEF Get

\* The owner of a valid buffer changes its bytes.
LEMMA MapsBwrite ==
  ASSUME FullInv, FullInv', NEW p \in Procs, NEW v \in Values, Bwrite(p, v)
  PROVE  Store!Next
<1> USE DEF FullInv
<1>1. PICK b : /\ b = Head(held[p]) /\ pc[p] = "user" /\ held[p] # <<>>
               /\ data' = [data EXCEPT ![b] = v]
               /\ UNCHANGED <<sector, busy, valid, disk, goal, held>>
  BY DEF Bwrite, ideVars
<1>2. b \in Bufs /\ Holds(p, b)
  BY <1>1, Popped DEF Inv, TypeInv, Holds
<1>3. busy[b] /\ valid[b] /\ data[b] \in Values
  BY <1>1, <1>2 DEF Inv, Single, Tidy, Lent, InDriverNow, Clean, Filled
<1>4. PICK s \in Sectors : s = sector[b]
  BY <1>2 DEF Inv, Single, TypeInv
<1>5. Owner[s] # None /\ Sight[s] # None
  BY <1>2, <1>3, <1>4, OwnerMeans, SightMeans, DiskAssumption DEF OwnerFacts, SightFacts
<1>6. Owner' = Owner
  BY <1>1, OwnerStays
<1>7. SightFacts /\ SightFacts'
  <2>1. Inv'
    OBVIOUS
  <2>2. QED BY <2>1, SightMeans, PTL
<1>8. Sight' = [Sight EXCEPT ![s] = v]
  <2>1. Sight'[s] = v
    BY <1>1, <1>2, <1>3, <1>4, <1>7 DEF SightFacts, Inv, TypeInv
  <2>2. ASSUME NEW t \in Sectors, t # s PROVE Sight'[t] = Sight[t]
    <3>1. CASE \E c \in Bufs : busy[c] /\ valid[c] /\ sector[c] = t
      <4>1. PICK c \in Bufs : busy[c] /\ valid[c] /\ sector[c] = t
        BY <3>1
      <4>2. data'[c] = data[c]
        BY <2>2, <4>1, <1>1, <1>4 DEF Inv, TypeInv
      <4>3. QED BY <4>1, <4>2, <1>1, <1>7 DEF SightFacts
    <3>2. CASE \A c \in Bufs : busy[c] /\ valid[c] => sector[c] # t
      BY <3>2, <1>1, <1>7 DEF SightFacts
    <3>3. QED BY <3>1, <3>2
  <2>3. QED BY <2>1, <2>2, SightIsMap
<1>9. Store!Change(s)
  BY <1>1, <1>5, <1>6, <1>8 DEF Store!Change, Owner, Sight
<1>10. QED BY <1>9 DEF Store!Next

\* What is given back is clean.
LEMMA MapsBrelse ==
  ASSUME FullInv, FullInv', NEW p \in Procs, Brelse(p)
  PROVE  Store!Next
<1> USE DEF FullInv
<1>1. PICK b : /\ b = Head(held[p]) /\ pc[p] = "user" /\ held[p] # <<>>
               /\ busy' = [busy EXCEPT ![b] = FALSE]
               /\ held' = [held EXCEPT ![p] = Tail(held[p])]
               /\ UNCHANGED <<sector, valid, data, disk, goal>>
  BY DEF Brelse, ideVars
<1>2. /\ b \in Bufs /\ Holds(p, b)
      /\ Elems(held[p]) = {b} \cup Elems(Tail(held[p])) /\ b \notin Elems(Tail(held[p]))
  BY <1>1, Popped DEF Inv, TypeInv, Holds, Single
<1>3. busy[b] /\ Clean(b)
  BY <1>1, <1>2 DEF Inv, Single, Tidy, Lent, InDriverNow
<1>4. PICK s \in Sectors : s = sector[b]
  BY <1>2 DEF Inv, Single, TypeInv
<1>5. \A c \in Bufs \ {b} : sector[c] # s /\ busy'[c] = busy[c]
  BY <1>1, <1>2, <1>4, NoneIsNone DEF Inv, Single, TypeInv
<1>6. \A q \in Procs, c \in Bufs : Holds(q, c)' <=> Holds(q, c) /\ c # b
  <2>1. held'[p] = Tail(held[p]) /\ \A q \in Procs : q # p => held'[q] = held[q]
    BY <1>1 DEF Inv, TypeInv
  <2>2. \A q \in Procs : q # p => ~Holds(q, b)
    BY <1>2 DEF Inv, Single
  <2>3. \A q \in Procs :
          Elems(held'[q]) = IF q = p THEN Elems(held[p]) \ {b} ELSE Elems(held[q])
    BY <1>2, <2>1
  <2>4. QED BY <2>2, <2>3 DEF Holds
<1>7. OwnerFacts /\ SightFacts /\ OwnerFacts' /\ SightFacts'
  <2>1. Inv /\ Inv'
    OBVIOUS
  <2>2. QED BY <2>1, OwnerMeans, SightMeans, PTL
<1>8. Owner[s] # None /\ Sight[s] = disk[s]
  BY <1>2, <1>3, <1>4, <1>7, NoneIsNone DEF OwnerFacts, SightFacts, Clean
<1>9. Owner' = [Owner EXCEPT ![s] = None]
  <2>1. Owner'[s] = None
    BY <1>1, <1>5, <1>6, <1>7 DEF OwnerFacts
  <2>2. ASSUME NEW t \in Sectors, t # s PROVE Owner'[t] = Owner[t]
    <3>1. CASE \E q \in Procs, c \in Bufs : Holds(q, c) /\ sector[c] = t
      <4>1. PICK q \in Procs, c \in Bufs : Holds(q, c) /\ sector[c] = t
        BY <3>1
      <4>2. Holds(q, c)' /\ sector'[c] = t
        BY <1>1, <1>4, <1>6, <2>2, <4>1
      <4>3. QED BY <4>1, <4>2, <1>7 DEF OwnerFacts
    <3>2. CASE \A q \in Procs, c \in Bufs : Holds(q, c) => sector[c] # t
      <4>1. \A q \in Procs, c \in Bufs : Holds(q, c)' => sector'[c] # t
        BY <3>2, <1>1, <1>6
      <4>2. QED BY <3>2, <4>1, <1>7 DEF OwnerFacts
    <3>3. QED BY <3>1, <3>2
  <2>3. QED BY <2>1, <2>2, OwnerIsMap
<1>10. Sight' = [Sight EXCEPT ![s] = None]
  <2>1. Sight'[s] = None
    BY <1>1, <1>2, <1>5, <1>7 DEF SightFacts, Inv, TypeInv
  <2>2. ASSUME NEW t \in Sectors, t # s PROVE Sight'[t] = Sight[t]
    <3>1. CASE \E c \in Bufs : busy[c] /\ valid[c] /\ sector[c] = t
      <4>1. PICK c \in Bufs : busy[c] /\ valid[c] /\ sector[c] = t
        BY <3>1
      <4>2. busy'[c] /\ c # b
        BY <1>4, <1>5, <2>2, <4>1
      <4>3. QED BY <4>1, <4>2, <1>1, <1>7 DEF SightFacts
    <3>2. CASE \A c \in Bufs : busy[c] /\ valid[c] => sector[c] # t
      <4>1. \A c \in Bufs : busy'[c] /\ valid'[c] => sector'[c] # t
        BY <2>2, <3>2, <1>1, <1>4, <1>5
      <4>2. QED BY <3>2, <4>1, <1>7 DEF SightFacts
    <3>3. QED BY <3>1, <3>2
  <2>3. QED BY <2>1, <2>2, SightIsMap
<1>11. Store!Give(s)
  BY <1>1, <1>8, <1>9, <1>10 DEF Store!Give, Owner, Sight
<1>12. QED BY <1>11 DEF Store!Next

\* The first of the queue has an owner.
LEMMA FirstOwned ==
  ASSUME Inv, queue # <<>>
  PROVE  Owner[sector[Head(queue)]] # None
<1>1. PICK h \in Bufs : h = Head(queue) /\ h \in Elems(queue)
  BY FirstQueued
<1>2. PICK q \in Procs : pc[q] \in {"io_sleep", "io_look"} /\ chan[q] = h
  BY <1>1 DEF Inv, Line
<1>3. Holds(q, h)
  BY <1>2 DEF Inv, Placed, InDriverNow
<1>4. QED BY <1>1, <1>3, OwnerMeans, NoneIsNone DEF OwnerFacts

\* A write takes place when the controller carries it out, ...
LEMMA MapsDiskWorks ==
  ASSUME FullInv, DiskWorks
  PROVE  Store!Next \/ UNCHANGED Store!vars
<1> USE DEF FullInv
<1>1. /\ command # None /\ UNCHANGED <<sector, busy, valid, data, goal, held>>
      /\ disk' = IF command[1] = "write" THEN [disk EXCEPT ![command[2]] = command[3]]
                                         ELSE disk
  BY DEF DiskWorks, bufVars, procVars
<1>2. PICK h \in Bufs : /\ h = Head(queue) /\ command = Command(h, dirty[h])
                        /\ sector[h] \in Sectors /\ busy[h] /\ Owner[sector[h]] # None
  BY <1>1, FirstQueued, FirstOwned DEF Inv, Line
<1>3. disk' = IF dirty[h] THEN [disk EXCEPT ![sector[h]] = data[h]] ELSE disk
  BY <1>1, <1>2 DEF Command
<1>4. CASE dirty[h]
  <2>1. Sight[sector[h]] = data[h] /\ data[h] # None
    BY <1>2, <1>4, SightMeans, DiskAssumption DEF SightFacts, Filled
  <2>2. Owner' = Owner /\ Sight' = Sight
    BY <1>1, OwnerStays, SightStays
  <2>3. Store!Write(sector[h])
    BY <1>1, <1>2, <1>3, <1>4, <2>1, <2>2 DEF Store!Write, Owner, Sight
  <2>4. QED BY <1>2, <2>3 DEF Store!Next
<1>5. CASE ~dirty[h]
  BY <1>1, <1>3, <1>5, Unseen
<1>6. QED BY <1>4, <1>5

\* ... and a read when its interrupt is handled.
LEMMA MapsIdeIntr ==
  ASSUME FullInv, FullInv', IdeIntr
  PROVE  Store!Next \/ UNCHANGED Store!vars
<1> USE DEF FullInv
<1>1. PICK h : /\ h = Head(queue) /\ queue # <<>>
               /\ data' = IF dirty[h] THEN data ELSE [data EXCEPT ![h] = disk[command[2]]]
               /\ valid' = [valid EXCEPT ![h] = TRUE]
               /\ UNCHANGED <<sector, busy, disk, goal, held>>
  BY DEF IdeIntr
<1>2. /\ h \in Bufs /\ h \in Elems(queue) /\ sector[h] \in Sectors /\ busy[h]
      /\ \A c \in Bufs : sector[c] = sector[h] => c = h
      /\ Owner[sector[h]] # None /\ command = Command(h, dirty[h])
  BY <1>1, FirstQueued, FirstOwned DEF Inv, Line
<1>3. CASE dirty[h]
  <2>1. UNCHANGED <<data, valid>>
    BY <1>1, <1>2, <1>3 DEF Filled, Inv, TypeInv
  <2>2. QED BY <1>1, <2>1, Unseen
<1>4. CASE ~dirty[h]
  <2>1. ~valid[h] /\ command[2] = sector[h]
    BY <1>2, <1>4 DEF Inv, Line, Command
  <2>2. PICK s \in Sectors : s = sector[h]
    BY <1>2
  <2>3. SightFacts /\ SightFacts'
    <3>1. Inv /\ Inv'
      OBVIOUS
    <3>2. QED BY <3>1, SightMeans, PTL
  <2>4. Owner' = Owner
    BY <1>1, OwnerStays
  <2>5. \A c \in Bufs \ {h} : data'[c] = data[c] /\ valid'[c] = valid[c] /\ sector[c] # s
    BY <1>1, <1>2, <2>2 DEF Inv, TypeInv
  <2>6. data'[h] = disk[s] /\ valid'[h]
    BY <1>1, <1>2, <1>4, <2>1, <2>2 DEF Inv, TypeInv
  <2>7. Sight' = [Sight EXCEPT ![s] = disk[s]]
    <3>1. Sight'[s] = disk[s]
      BY <1>1, <1>2, <2>2, <2>3, <2>6 DEF SightFacts
    <3>2. ASSUME NEW t \in Sectors, t # s PROVE Sight'[t] = Sight[t]
      <4>1. CASE \E c \in Bufs : busy[c] /\ valid[c] /\ sector[c] = t
        <5>1. PICK c \in Bufs : busy[c] /\ valid[c] /\ sector[c] = t
          BY <4>1
        <5>2. c # h
          BY <2>2, <3>2, <5>1
        <5>3. QED BY <5>1, <5>2, <1>1, <2>3, <2>5 DEF SightFacts
      <4>2. CASE \A c \in Bufs : busy[c] /\ valid[c] => sector[c] # t
        <5>1. \A c \in Bufs : busy'[c] /\ valid'[c] => sector'[c] # t
          BY <3>2, <4>2, <1>1, <2>2, <2>5
        <5>2. QED BY <4>2, <5>1, <2>3 DEF SightFacts
      <4>3. QED BY <4>1, <4>2
    <3>3. QED BY <3>1, <3>2, SightIsMap
  <2>8. Store!See(s)
    BY <1>1, <1>2, <2>2, <2>4, <2>7 DEF Store!See, Owner, Sight
  <2>9. QED BY <2>8 DEF Store!Next
<1>5. QED BY <1>3, <1>4

-----------------------------------------------------------------------------
\* Cache, driver and disk implement a store of sectors, which one process has
\* at a time, in which writes take place as a whole, and of which nothing is
\* given back that has not been written: for any number of processes, sectors
\* and buffers, whatever bget recycles and whoever kill wakes.
THEOREM CacheIsAStore == Spec => IsSectorStore
<1>1. FullInv /\ FullInv' /\ [Next]_vars => [Store!Next]_(Store!vars)
  <2> SUFFICES ASSUME FullInv, FullInv', [Next]_vars
               PROVE  Store!Next \/ UNCHANGED Store!vars
    OBVIOUS
  <2>1. ASSUME NEW p \in Procs, NEW s \in Sectors, Bread(p, s) PROVE Store!Next
    BY <2>1, MapsBread DEF Store!Next
  <2>2. ASSUME NEW p \in Procs, Iderw(p) \/ IderwLook(p) \/ Kill(p)
        PROVE  UNCHANGED Store!vars
    <3>1. UNCHANGED <<sector, busy, valid, data, disk, goal, held>>
      BY <2>2 DEF Iderw, IderwLook, Kill, bufVars, ideVars
    <3>2. QED BY <3>1, Unseen
  <2>3. CASE UNCHANGED vars
    <3>1. UNCHANGED <<sector, busy, valid, data, disk, goal, held>>
      BY <2>3 DEF vars, bufVars, ideVars, procVars
    <3>2. QED BY <3>1, Unseen
  <2>4. QED
    BY <2>1, <2>2, <2>3, MapsGet, MapsBwrite, MapsBrelse, MapsDiskWorks, MapsIdeIntr
    DEF Next, Uses
<1>2. QED BY <1>1, MapsInit, FullInvariance, PTL DEF Spec, IsSectorStore, Store!Spec

==============================================================================
