--------------------------- MODULE TicketLockProof ---------------------------
(***************************************************************************)
(* Mutual exclusion of the ticket lock and its first-come first-served     *)
(* order, for every finite set of threads smaller than the range of an     *)
(* int, across the wrap of both counters and whoever is killed.            *)
(*                                                                         *)
(* The tickets that are out form a window of Cardinality(Active) values    *)
(* from turn up to, but not including, ticket.  Since there are fewer      *)
(* threads than values the window never meets its own tail (Length), so no *)
(* ticket is out twice (Distinct) and only one thread is at the window's   *)
(* start (HolderFirst).                                                    *)
(***************************************************************************)
EXTENDS TicketLock, Sequences, TLAPS, FiniteSetTheorems

Window      == \A t \in Active : Ahead(turn, myTurn[t]) < Ahead(turn, ticket)
Distinct    == \A t, u \in Active : myTurn[t] = myTurn[u] => t = u
HolderFirst == \A t \in Holders : myTurn[t] = turn
Length      == Ahead(turn, ticket) = Cardinality(Active)

LockInv == LockTypeOK /\ Window /\ Distinct /\ HolderFirst /\ Length

-----------------------------------------------------------------------------
LEMMA ActiveIsFinite ==
  /\ IsFiniteSet(Active) /\ Cardinality(Active) \in Nat
  /\ Cardinality(Active) <= Cardinality(Threads)
<1>1. Active \in SUBSET Threads
  BY DEF Active
<1>2. QED BY <1>1, LockAssumption, FS_Subset, FS_CardinalityType

LEMMA WidthPositive == Width \in Nat /\ Width > 0
  BY LockAssumption, FS_CardinalityType

\* Inc and Ahead stay in range, and Inc moves one value away.
LEMMA Arithmetic ==
  ASSUME NEW a \in Values, NEW b \in Values
  PROVE  /\ Inc(a) \in Values
         /\ Ahead(a, b) \in 0..(Width - 1)
         /\ Ahead(a, b) = 0 <=> a = b
         /\ Ahead(a, b) < Width - 1 => Ahead(a, Inc(b)) = Ahead(a, b) + 1
         /\ a # b => Ahead(Inc(a), b) = Ahead(a, b) - 1
  BY WidthPositive DEF Values, Inc, Ahead

LEMMA SameDistance ==
  ASSUME NEW a \in Values, NEW b \in Values, NEW c \in Values, Ahead(a, b) = Ahead(a, c)
  PROVE  b = c
  BY WidthPositive DEF Values, Ahead

LEMMA LockInitially == LockInit => LockInv
<1> SUFFICES ASSUME LockInit PROVE LockInv
  OBVIOUS
<1>1. Active = {} /\ Holders = {}
  BY DEF LockInit, Active, Holders
<1>2. LockTypeOK
  BY WidthPositive DEF LockInit, LockTypeOK, Values
<1>3. Length
  BY <1>1, FS_EmptySet, WidthPositive DEF LockInit, Length, Ahead
<1>4. QED BY <1>1, <1>2, <1>3 DEF LockInv, Window, Distinct, HolderFirst

\* A thread that draws a ticket extends the window by one value.
LEMMA TakeKeeps ==
  ASSUME LockInv, NEW t \in Threads, Take(t) PROVE LockInv' /\ Active' = Active \cup {t}
<1> USE DEF LockInv
<1>1. /\ place[t] = "out" /\ t \notin Active
      /\ ticket \in Values /\ turn \in Values
      /\ turn' = turn /\ ticket' = Inc(ticket) /\ myTurn'[t] = ticket
      /\ \A u \in Threads \ {t} : myTurn'[u] = myTurn[u]
  BY DEF Take, Active, LockTypeOK
<1>2. Active' = Active \cup {t} /\ Holders' = Holders
  BY DEF Take, Active, Holders, LockTypeOK
<1>3. Cardinality(Active') = Cardinality(Active) + 1
  BY <1>1, <1>2, ActiveIsFinite, FS_AddElement
<1>4. Cardinality(Active') <= Cardinality(Threads)
  <2>1. Active' \in SUBSET Threads
    BY DEF Active
  <2>2. QED BY <2>1, LockAssumption, FS_Subset
<1>5. Ahead(turn, ticket) < Width - 1
  BY <1>3, <1>4, LockAssumption, ActiveIsFinite, FS_CardinalityType DEF Length
<1>6. Ahead(turn', ticket') = Ahead(turn, ticket) + 1
  BY <1>1, <1>5, Arithmetic
<1>7. LockTypeOK'
  BY <1>1, Arithmetic DEF Take, LockTypeOK
<1>8. Length'
  BY <1>3, <1>6 DEF Length
<1>9. Window'
  <2> SUFFICES ASSUME NEW u \in Active' PROVE Ahead(turn', myTurn'[u]) < Ahead(turn', ticket')
    BY DEF Window
  <2>1. Ahead(turn, ticket) \in Int
    BY <1>1, Arithmetic
  <2>2. CASE u = t
    BY <1>1, <1>6, <2>1, <2>2
  <2>3. CASE u # t
    <3>1. u \in Active /\ myTurn'[u] = myTurn[u] /\ myTurn[u] \in Values
      BY <1>1, <1>2, <2>3 DEF Active, LockTypeOK
    <3>2. Ahead(turn, myTurn[u]) < Ahead(turn, ticket) /\ Ahead(turn, myTurn[u]) \in Int
      BY <1>1, <3>1, Arithmetic DEF Window
    <3>3. QED BY <1>1, <1>6, <2>1, <3>1, <3>2
  <2>4. QED BY <2>2, <2>3
<1>10. Distinct'
  BY <1>1, <1>2, Arithmetic DEF Distinct, Window, Active
<1>11. HolderFirst'
  BY <1>1, <1>2 DEF HolderFirst, Holders
<1>12. QED BY <1>2, <1>7, <1>8, <1>9, <1>10, <1>11

\* The thread at the start of the window comes in.
LEMMA EnterKeeps ==
  ASSUME LockInv, NEW t \in Threads, Enter(t)
  PROVE  /\ LockInv' /\ Active' = Active
         /\ t \in Active /\ myTurn[t] = turn /\ Holders' = Holders \cup {t}
<1> USE DEF LockInv
<1>1. /\ place[t] = "spin" /\ myTurn[t] = turn /\ UNCHANGED <<ticket, turn, myTurn>>
      /\ Active' = Active /\ t \in Active /\ Holders' = Holders \cup {t}
  BY DEF Enter, Active, Holders, LockTypeOK
<1>2. LockTypeOK'
  BY DEF Enter, LockTypeOK
<1>3. Window' /\ Distinct' /\ HolderFirst' /\ Length'
  BY <1>1 DEF Window, Distinct, HolderFirst, Length, Ahead
<1>4. QED BY <1>1, <1>2, <1>3

\* The holder leaves and the window starts one value later.
LEMMA LeaveKeeps ==
  ASSUME LockInv, NEW t \in Threads, Leave(t)
  PROVE  LockInv' /\ t \in Holders /\ Active' = Active \ {t} /\ Holders' = {}
<1> USE DEF LockInv
<1>1. /\ place[t] = "in" /\ t \in Holders /\ t \in Active
      /\ ticket \in Values /\ turn \in Values
      /\ turn' = Inc(turn) /\ UNCHANGED <<ticket, myTurn>>
  BY DEF Leave, Active, Holders, LockTypeOK
<1>2. Active' = Active \ {t} /\ Holders' = Holders \ {t}
  BY DEF Leave, Active, Holders, LockTypeOK
<1>3. \A u \in Holders : u \in Active
  BY DEF Active, Holders
<1>4. Holders' = {}
  BY <1>1, <1>2, <1>3 DEF HolderFirst, Distinct
<1>5. \A u \in Active' : u \in Active /\ myTurn[u] \in Values /\ myTurn[u] # turn
  BY <1>1, <1>2 DEF Distinct, HolderFirst, Active, LockTypeOK
<1>6. turn # ticket
  BY <1>1, Arithmetic DEF Window, HolderFirst
<1>7. LockTypeOK'
  BY <1>1, Arithmetic DEF Leave, LockTypeOK
<1>8. Window'
  BY <1>1, <1>2, <1>5, <1>6, Arithmetic DEF Window
<1>9. Distinct' /\ HolderFirst'
  BY <1>1, <1>2, <1>4 DEF Distinct, HolderFirst
<1>10. Length'
  <2>1. Cardinality(Active') = Cardinality(Active) - 1
    BY <1>1, <1>2, ActiveIsFinite, FS_RemoveElement
  <2>2. Ahead(turn', ticket') = Ahead(turn, ticket) - 1
    BY <1>1, <1>6, Arithmetic
  <2>3. QED BY <2>1, <2>2 DEF Length
<1>11. QED BY <1>1, <1>2, <1>4, <1>7, <1>8, <1>9, <1>10

\* A killed thread stays where it is in the window.
LEMMA DieKeeps ==
  ASSUME LockInv, NEW t \in Threads, Die(t)
  PROVE  LockInv' /\ Active' = Active /\ Holders' = Holders
<1> USE DEF LockInv
<1>1. UNCHANGED <<ticket, turn, myTurn>> /\ Active' = Active /\ Holders' = Holders
  BY DEF Die, Active, Holders, LockTypeOK
<1>2. LockTypeOK'
  BY DEF Die, LockTypeOK
<1>3. Window' /\ Distinct' /\ HolderFirst' /\ Length'
  BY <1>1 DEF Window, Distinct, HolderFirst, Length, Ahead
<1>4. QED BY <1>1, <1>2, <1>3

LEMMA LockInvariance == LockSpec => []LockInv
<1>1. LockInv /\ [LockNext]_lockVars => LockInv'
  <2> SUFFICES ASSUME LockInv, [LockNext]_lockVars PROVE LockInv'
    OBVIOUS
  <2>1. CASE UNCHANGED lockVars
    BY <2>1 DEF LockInv, LockTypeOK, Window, Distinct, HolderFirst, Length, Active,
           Holders, Ahead, lockVars
  <2>2. CASE LockNext
    BY <2>2, TakeKeeps, EnterKeeps, LeaveKeeps, DieKeeps DEF LockNext
  <2>3. QED BY <2>1, <2>2
<1>2. QED BY <1>1, LockInitially, PTL DEF LockSpec

\* Two threads are never between lock_acquire and lock_release at once.
THEOREM LockIsExclusive == LockSpec => []MutualExclusion
<1>1. LockInv => MutualExclusion
  BY DEF LockInv, HolderFirst, Distinct, MutualExclusion, Holders, Active
<1>2. QED BY <1>1, LockInvariance, PTL

-----------------------------------------------------------------------------
(* The order of service: the window, read as a sequence, is FifoLock's queue. *)

Place(t) == Ahead(turn, myTurn[t]) + 1

LEMMA OnePlaceEach ==
  ASSUME LockInv
  PROVE  /\ \A t \in Active : Place(t) \in 1..Cardinality(Active)
         /\ \A t, u \in Active : Place(t) = Place(u) => t = u
<1> USE DEF LockInv
<1>1. \A t \in Active : myTurn[t] \in Values /\ turn \in Values
  BY DEF LockTypeOK, Active
<1>2. \A t \in Active : Ahead(turn, myTurn[t]) \in 0..(Width - 1)
  BY <1>1, Arithmetic
<1>3. \A t \in Active : Place(t) \in 1..Cardinality(Active)
  BY <1>2, ActiveIsFinite DEF Window, Length, Place
<1>4. \A t, u \in Active : Place(t) = Place(u) => t = u
  <2> SUFFICES ASSUME NEW t \in Active, NEW u \in Active, Place(t) = Place(u) PROVE t = u
    OBVIOUS
  <2>1. Ahead(turn, myTurn[t]) = Ahead(turn, myTurn[u])
    BY <1>2 DEF Place
  <2>2. QED BY <1>1, <2>1, SameDistance DEF Distinct
<1>5. QED BY <1>3, <1>4

\* Every place of the line is taken, by exactly one thread.
LineFull ==
  /\ WaitingLine \in [1..Cardinality(Active) -> Active]
  /\ \A i \in 1..Cardinality(Active), t \in Active : WaitingLine[i] = t <=> Place(t) = i

LEMMA LineIsFull == LockInv => LineFull
<1> SUFFICES ASSUME LockInv PROVE LineFull
  OBVIOUS
<1> DEFINE n == Cardinality(Active)
           f == [t \in Active |-> Place(t)]
<1>1. f \in Injection(Active, 1..n)
  BY OnePlaceEach DEF Injection, IsInjective
<1>2. IsFiniteSet(1..n) /\ Cardinality(1..n) = n
  BY ActiveIsFinite, FS_Interval
<1>3. f \in Surjection(Active, 1..n)
  <2> HIDE DEF f
  <2>1. QED BY <1>1, <1>2, FS_Injection
<1>4. \A i \in 1..n : \E t \in Active : Place(t) = i
  BY <1>3 DEF Surjection
<1>5. \A i \in 1..n : WaitingLine[i] \in Active /\ Place(WaitingLine[i]) = i
  <2> SUFFICES ASSUME NEW i \in 1..n
               PROVE  WaitingLine[i] \in Active /\ Place(WaitingLine[i]) = i
    OBVIOUS
  <2>1. WaitingLine[i] = CHOOSE t \in Active : Ahead(turn, myTurn[t]) = i - 1
    BY DEF WaitingLine
  <2>2. PICK t \in Active : Place(t) = i
    BY <1>4
  <2>3. \A u \in Active : Ahead(turn, myTurn[u]) \in Int
    BY Arithmetic DEF LockInv, LockTypeOK, Active, Values
  <2>4. Ahead(turn, myTurn[t]) = i - 1
    BY <2>2, <2>3 DEF Place
  <2>5. WaitingLine[i] \in Active /\ Ahead(turn, myTurn[WaitingLine[i]]) = i - 1
    BY <2>1, <2>4
  <2>6. QED BY <2>5 DEF Place
<1>6. WaitingLine \in [1..n -> Active]
  BY <1>5 DEF WaitingLine
<1>7. QED BY <1>5, <1>6, OnePlaceEach DEF LineFull

LEMMA MapsInit == LockInit => Fifo!Init
<1> SUFFICES ASSUME LockInit PROVE Fifo!Init
  OBVIOUS
<1>1. Active = {} /\ Holders = {}
  BY DEF LockInit, Active, Holders
<1>2. Cardinality(Active) = 0
  BY <1>1, FS_EmptySet
<1>3. WaitingLine = <<>>
  BY <1>2 DEF WaitingLine
<1>4. QED BY <1>1, <1>3 DEF Fifo!Init

LEMMA MapsTake ==
  ASSUME LockInv, NEW t \in Threads, Take(t) PROVE Fifo!Ask(t)
<1> DEFINE n == Cardinality(Active)
<1>1. LockInv' /\ Active' = Active \cup {t} /\ t \notin Active /\ Holders' = Holders
  BY TakeKeeps DEF Take, Active, Holders, LockInv, LockTypeOK
<1>2. n \in Nat /\ Cardinality(Active)' = n + 1
  BY <1>1, ActiveIsFinite, FS_AddElement
<1>3. \A u \in Active : Place(u)' = Place(u)
  BY <1>1 DEF Take, Place, Active, LockInv, LockTypeOK
<1>4. Place(t)' = n + 1
  BY <1>1 DEF Take, Place, LockInv, LockTypeOK, Length
<1>5. /\ WaitingLine \in [1..n -> Active]
      /\ \A i \in 1..n, u \in Active : WaitingLine[i] = u <=> Place(u) = i
  BY LineIsFull DEF LineFull
<1>6. /\ WaitingLine' \in [1..(n + 1) -> Active']
      /\ \A i \in 1..(n + 1), u \in Active' : WaitingLine'[i] = u <=> Place(u)' = i
  <2>1. LineFull'
    BY <1>1, LineIsFull, PTL
  <2>2. QED BY <1>2, <2>1 DEF LineFull
<1> HIDE DEF n
<1>7. \A i \in 1..n : WaitingLine'[i] = WaitingLine[i]
  BY <1>1, <1>2, <1>3, <1>5, <1>6
<1>8. WaitingLine'[n + 1] = t
  BY <1>1, <1>2, <1>4, <1>6
<1>9. WaitingLine' = Append(WaitingLine, t)
  BY <1>2, <1>5, <1>6, <1>7, <1>8
<1>10. ~Fifo!Queued(t)
  BY <1>1, <1>5 DEF Fifo!Queued
<1>11. QED BY <1>1, <1>9, <1>10 DEF Fifo!Ask

\* Whoever comes in, or dies, leaves the line as it is.
LEMMA LineStays ==
  ASSUME UNCHANGED <<turn, myTurn>>, Active' = Active PROVE WaitingLine' = WaitingLine
  BY DEF WaitingLine, Ahead

LEMMA MapsEnter ==
  ASSUME LockInv, NEW t \in Threads, Enter(t) PROVE Fifo!Grant(t)
<1>1. t \in Active /\ myTurn[t] = turn /\ place[t] = "spin" /\ turn \in Values
  BY EnterKeeps DEF Enter, LockInv, LockTypeOK
<1>2. WaitingLine' = WaitingLine
  BY EnterKeeps, LineStays DEF Enter
<1>3. Place(t) = 1
  <2>1. Ahead(turn, turn) = 0
    BY <1>1 DEF Ahead, Values
  <2>2. QED BY <1>1, <2>1 DEF Place
<1>4. 1 \in 1..Cardinality(Active) /\ WaitingLine \in [1..Cardinality(Active) -> Active]
  BY <1>1, <1>3, OnePlaceEach, LineIsFull DEF LineFull
<1>5. WaitingLine[1] = t
  BY <1>1, <1>3, <1>4, LineIsFull DEF LineFull
<1>6. WaitingLine \in Seq(Active) /\ WaitingLine # <<>>
  BY <1>4, ActiveIsFinite
<1>7. Head(WaitingLine) = t
  BY <1>5, <1>6
<1>8. Holders = {} /\ Holders' = {t}
  BY <1>1, EnterKeeps DEF Holders, HolderFirst, Distinct, LockInv, Active
<1>9. QED BY <1>2, <1>6, <1>7, <1>8 DEF Fifo!Grant

LEMMA MapsLeave ==
  ASSUME LockInv, NEW t \in Threads, Leave(t) PROVE Fifo!Release(t)
<1> DEFINE n == Cardinality(Active)
<1>1. /\ LockInv' /\ t \in Holders /\ t \in Active /\ Holders' = {}
      /\ Active' = Active \ {t} /\ myTurn[t] = turn /\ myTurn' = myTurn
      /\ turn \in Values /\ turn' = Inc(turn)
  BY LeaveKeeps DEF Leave, Active, Holders, HolderFirst, LockInv, LockTypeOK
<1>2. n \in Nat /\ n > 0 /\ Cardinality(Active)' = n - 1
  BY <1>1, ActiveIsFinite, FS_RemoveElement, FS_EmptySet
<1>3. Place(t) = 1
  <2>1. Ahead(turn, turn) = 0
    BY <1>1 DEF Ahead, Values
  <2>2. QED BY <1>1, <2>1 DEF Place
<1>4. \A u \in Active' : Place(u)' = Place(u) - 1
  <2> SUFFICES ASSUME NEW u \in Active' PROVE Place(u)' = Place(u) - 1
    OBVIOUS
  <2>1. myTurn[u] \in Values /\ turn # myTurn[u]
    BY <1>1 DEF Active, LockInv, LockTypeOK, Distinct
  <2>2. Ahead(Inc(turn), myTurn[u]) = Ahead(turn, myTurn[u]) - 1
    BY <1>1, <2>1, Arithmetic
  <2>3. Ahead(turn, myTurn[u]) \in Int
    BY <1>1, <2>1, Arithmetic
  <2>4. Ahead(turn', myTurn'[u]) = Ahead(Inc(turn), myTurn[u])
    BY <1>1
  <2>5. QED BY <2>2, <2>3, <2>4 DEF Place
<1>5. /\ WaitingLine \in [1..n -> Active]
      /\ \A i \in 1..n, u \in Active : WaitingLine[i] = u <=> Place(u) = i
  BY LineIsFull DEF LineFull
<1>6. /\ WaitingLine' \in [1..(n - 1) -> Active']
      /\ \A i \in 1..(n - 1), u \in Active' : WaitingLine'[i] = u <=> Place(u)' = i
  <2>1. LineFull'
    BY <1>1, LineIsFull, PTL
  <2>2. QED BY <1>2, <2>1 DEF LineFull
<1> HIDE DEF n
<1>7. WaitingLine[1] = t
  BY <1>1, <1>2, <1>3, <1>5
<1>8. \A i \in 1..(n - 1) : WaitingLine'[i] = WaitingLine[i + 1]
  <2> SUFFICES ASSUME NEW i \in 1..(n - 1) PROVE WaitingLine'[i] = WaitingLine[i + 1]
    OBVIOUS
  <2>1. WaitingLine'[i] \in Active' /\ WaitingLine'[i] \in Active
    BY <1>1, <1>6
  <2>2. Place(WaitingLine'[i]) - 1 = i
    BY <1>4, <1>6, <2>1
  <2>3. Place(WaitingLine'[i]) \in 1..Cardinality(Active)
    BY <2>1, OnePlaceEach
  <2>4. Place(WaitingLine'[i]) = i + 1
    BY <2>2, <2>3, ActiveIsFinite
  <2>5. i + 1 \in 1..n
    BY <1>2
  <2>6. QED BY <1>5, <2>1, <2>4, <2>5
<1>9. WaitingLine \in Seq(Active) /\ Len(WaitingLine) = n /\ Head(WaitingLine) = t
  BY <1>2, <1>5, <1>7
<1>10. WaitingLine' = Tail(WaitingLine)
  BY <1>2, <1>5, <1>6, <1>8, <1>9
<1>11. Holders = {t}
  BY <1>1 DEF HolderFirst, Distinct, Holders, Active, LockInv
<1>12. QED BY <1>1, <1>9, <1>10, <1>11 DEF Fifo!Release

\* The ticket lock serves its threads in the order in which they asked.
THEOREM LockIsFifo == LockSpec => HandedOnInOrder
<1>1. LockInv /\ [LockNext]_lockVars => [Fifo!Next]_(Fifo!vars)
  <2> SUFFICES ASSUME LockInv, [LockNext]_lockVars PROVE [Fifo!Next]_(Fifo!vars)
    OBVIOUS
  <2>1. CASE UNCHANGED lockVars
    <3>1. Active' = Active /\ Holders' = Holders
      BY <2>1 DEF lockVars, Active, Holders
    <3>2. QED BY <2>1, <3>1, LineStays DEF lockVars, Fifo!vars
  <2>2. ASSUME NEW t \in Threads, Take(t) \/ Enter(t) \/ Leave(t) PROVE Fifo!Next
    BY <2>2, MapsTake, MapsEnter, MapsLeave DEF Fifo!Next
  <2>3. ASSUME NEW t \in Threads, Die(t) PROVE UNCHANGED Fifo!vars
    <3>1. UNCHANGED <<turn, myTurn>> /\ Active' = Active /\ Holders' = Holders
      BY <2>3, DieKeeps DEF Die
    <3>2. QED BY <3>1, LineStays DEF Fifo!vars
  <2>4. QED BY <2>1, <2>2, <2>3 DEF LockNext
<1>2. QED BY <1>1, MapsInit, LockInvariance, PTL DEF LockSpec, HandedOnInOrder, Fifo!Spec

=============================================================================
