---------------------------- MODULE ShellPipeProof ----------------------------
(***************************************************************************)
(* What the file table and the pipes guarantee under the shell's pipeline, *)
(* for any number of processes, files, descriptors and pipes, any size of  *)
(* a pipe and any width of its two counters.                               *)
(*                                                                         *)
(* The argument goes up from the file table.  A count is the number of     *)
(* slots that name the file, so a file whose count falls to 0 is named     *)
(* nowhere and one that pipe() holds is named nowhere else.  Hence an end  *)
(* of a pipe has one holder, a file or a close under way, and is open as   *)
(* long as there is one; a process inside a read or a write has a          *)
(* descriptor of that end and so keeps it open.  What a process saw under  *)
(* the lock of the pipe is still so when it sleeps, and whoever changes it *)
(* later wakes the sleepers.                                               *)
(* The ring is the numbers of its bytes: of n bytes written and m read the *)
(* counters are the remainders, byte j + 1 lies in the cell of j, and as   *)
(* n - m is at most the size of the ring no two that lie there meet.       *)
(***************************************************************************)
EXTENDS ShellPipe, FiniteSetTheorems, SequenceTheorems, WellFoundedInduction, TLAPS

Ends == {"reader", "writer"}

Reading == {"read", "rgap", "rsleep"}
Writing == {"write", "wgap", "wsleep"}
Piping  == {"pipe1", "pipe2"}
Places  == {"user", "closing", "exiting", "unused", "zombie"}
             \cup Piping \cup Reading \cup Writing

Others == [f \in Files |-> IF f \in elsewhere THEN 1 ELSE 0]

TypeInv ==
  /\ ref \in [Files -> Nat] /\ kind \in [Files -> Kinds]
  /\ fpage \in [Files -> Pages \cup {None}]
  /\ ofile \in [Procs -> [Fds -> Files \cup {NoFile}]]
  /\ pf \in [Procs -> [1..2 -> Files \cup {NoFile}]]
  /\ ff \in [Procs -> (Ends \X Pages) \cup {None}]
  /\ pc \in [Procs -> Places]
  /\ page \in [Procs -> Pages \cup {None}] /\ want \in [Procs -> Nat]
  /\ pfd \in [Procs -> Fds \X Fds]
  /\ killed \in [Procs -> BOOLEAN]
  /\ live \subseteq Pages /\ lock \in [Pages -> Procs \cup {None}]
  /\ nread \in [Pages -> 0..(Width - 1)] /\ nwrite \in [Pages -> 0..(Width - 1)]
  /\ readopen \in [Pages -> BOOLEAN] /\ writeopen \in [Pages -> BOOLEAN]
  /\ elsewhere \subseteq Files

\* Which slots a process may have in use, by where it is.
Phases ==
  \A p \in Procs :
    /\ pc[p] \notin Piping \cup {"closing"} => Unclosed(p) = {}
    /\ pc[p] = "pipe1" => Unclosed(p) = {1}
    /\ pc[p] = "pipe2" => Unclosed(p) = {1, 2}
    /\ pc[p] = "closing" /\ ff[p] = None => Unclosed(p) # {}
    /\ pc[p] = "exiting" /\ ff[p] = None => OpenFds(p) # {}
    /\ ff[p] # None => pc[p] \in {"closing", "exiting"}
    /\ pc[p] = "unused" => OpenFds(p) = {}

\* A file that nobody counts has no type, one of a pipe has a page, and one
\* that pipe() holds is counted once and has no type before pipealloc is done.
Fresh ==
  /\ \A f \in Files : /\ ref[f] = 0 => kind[f] = "none"
                      /\ kind[f] \in Ends => fpage[f] \in Pages
  /\ \A p \in Procs, i \in 1..2 :
       pf[p][i] # NoFile => /\ ref[pf[p][i]] = 1
                            /\ pc[p] \in Piping => kind[pf[p][i]] = "none"

Table == TypeInv /\ CountsAre(Others) /\ Phases /\ Fresh

\* An end of a pipe has one holder.
IsEnd(f, end, pg) == kind[f] = end /\ fpage[f] = pg

OneHolder ==
  \A end \in Ends, pg \in Pages :
    /\ \A f, g \in Files : IsEnd(f, end, pg) /\ IsEnd(g, end, pg) => f = g
    /\ \A f \in Files, p \in Procs : ~(IsEnd(f, end, pg) /\ ff[p] = <<end, pg>>)
    /\ \A p, q \in Procs : ff[p] = <<end, pg>> /\ ff[q] = <<end, pg>> => p = q

\* Who holds an end, when every file with a type is counted.
Held(end, pg) ==
  \/ \E f \in Files : IsEnd(f, end, pg)
  \/ \E p \in Procs : ff[p] = <<end, pg>>

EndsOpen ==
  /\ \A pg \in live : /\ readopen[pg] <=> Held("reader", pg)
                      /\ writeopen[pg] <=> Held("writer", pg)
                      /\ readopen[pg] \/ writeopen[pg]
  /\ \A pg \in Pages \ live, end \in Ends : ~Held(end, pg)

\* Who reads or writes has a descriptor for it.
HasEnd(p, end) == \E fd \in OpenFds(p) : IsEnd(ofile[p][fd], end, page[p])

Busy ==
  \A p \in Procs : /\ pc[p] \in Reading => page[p] \in Pages /\ HasEnd(p, "reader")
                   /\ pc[p] \in Writing => page[p] \in Pages /\ HasEnd(p, "writer")

Waiting == {"rgap", "rsleep", "wgap", "wsleep"}

\* Between its test and its sleep a process has the pipe's lock, and from the
\* test on it has a cause to wait.
Waits(p) ==
  LET pg == page[p] IN
    /\ pc[p] \in {"rgap", "wgap"} => lock[pg] = p
    /\ pc[p] = "rgap" => Used(pg) = 0 /\ writeopen[pg]
    /\ pc[p] = "rsleep" => (Used(pg) = 0 \/ \E q \in Procs : killed[q]) /\ writeopen[pg]
    /\ pc[p] \in {"wgap", "wsleep"} => Room(pg) = 0 /\ readopen[pg]

\* No more bytes are in a pipe than it has room for, whatever the counters say.
NeverOverfull == \A pg \in Pages : Used(pg) \in 0..PipeSize

FileInv == Table /\ OneHolder /\ EndsOpen /\ Busy
Inv     == FileInv /\ NeverOverfull /\ \A p \in Procs : Waits(p)

-----------------------------------------------------------------------------
(* Counting slots. *)

\* The tables are finite.
LEMMA Sizes ==
  /\ IsFiniteSet(Procs) /\ IsFiniteSet(Fds) /\ IsFiniteSet(1..2)
  /\ NFILE \in Nat /\ NOFILE \in Nat /\ 0 \in Fds
  /\ NoFile \notin Files
<1>1. NOFILE \in Nat \ {0} /\ NFILE \in Nat \ {0} /\ IsFiniteSet(Procs)
  BY PipeAssumption
<1>2. 0 \in Int /\ NOFILE - 1 \in Int /\ 1 \in Int /\ 2 \in Int
  BY <1>1
<1>3. IsFiniteSet(0..(NOFILE - 1)) /\ IsFiniteSet(1..2)
  BY <1>2, FS_Interval
<1>4. QED BY <1>1, <1>3 DEF Fds, Files, NoFile

LEMMA SlotsFinite ==
  ASSUME NEW table, NEW cols, IsFiniteSet(cols), NEW f
  PROVE  /\ IsFiniteSet(Slots(table, cols, f))
         /\ Cardinality(Slots(table, cols, f)) \in Nat
<1>1. IsFiniteSet(Procs \X cols)
  BY Sizes, FS_Product
<1>2. Slots(table, cols, f) \subseteq Procs \X cols
  BY DEF Slots
<1>3. IsFiniteSet(Slots(table, cols, f))
  BY <1>1, <1>2, FS_Subset
<1>4. QED BY <1>3, FS_CardinalityType

\* 1 when x is f.
Hit(x, f) == IF x = f THEN 1 ELSE 0

\* How a table changes: one slot is given v; a row becomes a copy of another.
Puts(table, new, cols, p, c, v) ==
  \A q \in Procs, d \in cols :
    new[q][d] = IF q = p /\ d = c THEN v ELSE table[q][d]

Copies(table, new, cols, p, q) ==
  \A r \in Procs, c \in cols :
    new[r][c] = IF r = q THEN table[p][c] ELSE table[r][c]

\* One slot is given another file.
LEMMA SlotPut ==
  ASSUME NEW cols, IsFiniteSet(cols), NEW table, NEW new,
         NEW p \in Procs, NEW c \in cols, NEW v, NEW f,
         Puts(table, new, cols, p, c, v)
  PROVE  Cardinality(Slots(new, cols, f))
           = Cardinality(Slots(table, cols, f)) - Hit(table[p][c], f) + Hit(v, f)
<1> DEFINE S    == Slots(table, cols, f)
           T    == Slots(new, cols, f)
           Rest == S \ {<<p, c>>}
<1>1. IsFiniteSet(S) /\ IsFiniteSet(T) /\ Cardinality(S) \in Nat
  BY SlotsFinite
<1>2. \A x \in Procs \X cols : new[x[1]][x[2]] = IF x = <<p, c>> THEN v ELSE table[x[1]][x[2]]
  BY DEF Puts
<1>3. IsFiniteSet(Rest) /\ Cardinality(Rest) \in Nat /\ <<p, c>> \notin Rest
  <2>1. IsFiniteSet(Rest)
    BY <1>1, FS_Subset
  <2>2. QED BY <2>1, FS_CardinalityType
<1>4. S = IF table[p][c] = f THEN Rest \cup {<<p, c>>} ELSE Rest
  BY DEF Slots
<1>5. T = IF v = f THEN Rest \cup {<<p, c>>} ELSE Rest
  <2>1. T = {x \in Procs \X cols : (IF x = <<p, c>> THEN v ELSE table[x[1]][x[2]]) = f}
    BY <1>2 DEF Slots
  <2>2. QED BY <2>1 DEF Slots
<1> HIDE DEF S, T, Rest
<1>6. Cardinality(Rest \cup {<<p, c>>}) = Cardinality(Rest) + 1
  BY <1>3, FS_AddElement
<1>7. Cardinality(S) = Cardinality(Rest) + Hit(table[p][c], f)
  BY <1>3, <1>4, <1>6 DEF Hit
<1>8. Cardinality(T) = Cardinality(Rest) + Hit(v, f)
  BY <1>3, <1>5, <1>6 DEF Hit
<1>9. Hit(table[p][c], f) \in Nat /\ Hit(v, f) \in Nat
  BY DEF Hit
<1>10. Cardinality(T) = Cardinality(S) - Hit(table[p][c], f) + Hit(v, f)
  BY <1>3, <1>7, <1>8, <1>9
<1>11. QED BY <1>10 DEF S, T

\* A row that names no file becomes a copy of another.
LEMMA SlotCopy ==
  ASSUME NEW cols, IsFiniteSet(cols), NEW table, NEW new,
         NEW p \in Procs, NEW q \in Procs, NEW f,
         \A c \in cols : table[q][c] # f,
         Copies(table, new, cols, p, q)
  PROVE  Cardinality(Slots(new, cols, f))
           = Cardinality(Slots(table, cols, f)) + Cardinality({c \in cols : table[p][c] = f})
<1> DEFINE S   == Slots(table, cols, f)
           T   == Slots(new, cols, f)
           row == {c \in cols : table[p][c] = f}
<1>1. IsFiniteSet(S) /\ Cardinality(S) \in Nat
  BY SlotsFinite
<1>2. IsFiniteSet(row) /\ Cardinality(row) \in Nat
  <2>1. IsFiniteSet(row)
    BY FS_Subset
  <2>2. QED BY <2>1, FS_CardinalityType
<1>3. IsFiniteSet({q} \X row) /\ Cardinality({q} \X row) = Cardinality(row)
  <2>1. IsFiniteSet({q}) /\ Cardinality({q}) = 1
    BY FS_Singleton
  <2> HIDE DEF row
  <2>2. IsFiniteSet({q} \X row) /\ Cardinality({q} \X row) = Cardinality({q}) * Cardinality(row)
    BY <1>2, <2>1, FS_Product
  <2>3. QED BY <1>2, <2>1, <2>2
<1>4. T = S \cup ({q} \X row)
  <2>1. ASSUME NEW x \in Procs \X cols PROVE x \in T <=> x \in S \/ x \in {q} \X row
    BY DEF Slots, Copies
  <2>2. T \subseteq Procs \X cols /\ S \subseteq Procs \X cols /\ {q} \X row \subseteq Procs \X cols
    BY DEF Slots
  <2>3. QED BY <2>1, <2>2
<1>5. S \cap ({q} \X row) = {}
  BY DEF Slots
<1> HIDE DEF S, T, row
<1>6. Cardinality(T) = Cardinality(S) + Cardinality({q} \X row) - Cardinality(S \cap ({q} \X row))
  BY <1>1, <1>3, <1>4, FS_Union
<1>7. Cardinality(S \cap ({q} \X row)) = 0
  BY <1>5, FS_EmptySet
<1>8. Cardinality(T) = Cardinality(S) + Cardinality(row)
  BY <1>1, <1>2, <1>3, <1>6, <1>7
<1>9. QED BY <1>8 DEF S, T, row

\* A slot that names f is counted, and two are counted twice.
LEMMA SlotsCount ==
  ASSUME NEW table, NEW cols, IsFiniteSet(cols), NEW f,
         NEW x \in Slots(table, cols, f)
  PROVE  /\ Cardinality(Slots(table, cols, f)) > 0
         /\ \A y \in Slots(table, cols, f) :
              y # x => Cardinality(Slots(table, cols, f)) > 1
<1> DEFINE S == Slots(table, cols, f)
<1>1. IsFiniteSet(S) /\ Cardinality(S) \in Nat
  BY SlotsFinite
<1> HIDE DEF S
<1>2. x \in S
  BY DEF S
<1>3. IsFiniteSet(S \ {x}) /\ Cardinality(S \ {x}) = Cardinality(S) - 1
      /\ Cardinality(S \ {x}) \in Nat
  BY <1>1, <1>2, FS_RemoveElement, FS_CardinalityType
<1>4. ASSUME NEW y \in S, y # x PROVE Cardinality(S) > 1
  <2>1. y \in S \ {x}
    BY <1>4
  <2>2. Cardinality(S \ {x}) # 0
    BY <1>3, <2>1, FS_EmptySet
  <2>3. QED BY <1>1, <1>3, <2>2
<1>5. QED BY <1>1, <1>3, <1>4 DEF S

-----------------------------------------------------------------------------
(* What the table says of a file. *)

\* The references that the count of f stands for.
Uses(f) == Cardinality(Slots(ofile, Fds, f)) + Cardinality(Slots(pf, 1..2, f))

\* A loop that takes the first element that fits finds one if there is one.
LEMMA LowestFound ==
  ASSUME NEW S \in SUBSET Nat, S # {}
  PROVE  Lowest(S) \in S /\ \A y \in S : Lowest(S) <= y
<1>1. PICK x \in S : \A y \in S : <<y, x>> \notin OpToRel(<, Nat)
  BY NatLessThanWellFounded, WFMin
<1>2. \A y \in S : ~(y < x)
  BY <1>1 DEF OpToRel
<1>3. \A y \in S : x <= y
  BY <1>2
<1>4. QED BY <1>3 DEF Lowest

LEMMA FirstFreeFound ==
  ASSUME FreeFiles # {}
  PROVE  FirstFree \in Files /\ ref[FirstFree] = 0
<1>1. FreeFiles \in SUBSET Nat /\ FreeFiles \subseteq Files
  BY Sizes DEF FreeFiles, Files
<1>2. FirstFree = Lowest(FreeFiles)
  BY DEF FirstFree, Lowest
<1>3. FirstFree \in FreeFiles
  BY <1>1, <1>2, LowestFound
<1>4. QED BY <1>3 DEF FreeFiles

\* Counts and references are numbers.
LEMMA UsesCount ==
  ASSUME TypeInv, CountsAre(Others)
  PROVE  \A f \in Files : Uses(f) \in Nat /\ Others[f] \in 0..1 /\ ref[f] = Others[f] + Uses(f)
<1>1. SUFFICES ASSUME NEW f \in Files
               PROVE  Uses(f) \in Nat /\ Others[f] \in 0..1 /\ ref[f] = Others[f] + Uses(f)
  OBVIOUS
<1>2. Cardinality(Slots(ofile, Fds, f)) \in Nat /\ Cardinality(Slots(pf, 1..2, f)) \in Nat
  BY Sizes, SlotsFinite
<1>3. Others[f] \in 0..1
  BY DEF Others
<1>4. ref[f] = Others[f] + Cardinality(Slots(ofile, Fds, f)) + Cardinality(Slots(pf, 1..2, f))
  BY DEF CountsAre
<1>5. QED BY <1>2, <1>3, <1>4 DEF Uses

\* A descriptor's file is counted.
LEMMA DescriptorCounted ==
  ASSUME TypeInv, CountsAre(Others), NEW p \in Procs, NEW fd \in Fds, ofile[p][fd] # NoFile
  PROVE  ofile[p][fd] \in Files /\ ref[ofile[p][fd]] > 0
<1> DEFINE f == ofile[p][fd]
<1>1. f \in Files
  BY DEF TypeInv
<1>2. <<p, fd>> \in Slots(ofile, Fds, f)
  BY DEF Slots
<1>3. Cardinality(Slots(ofile, Fds, f)) > 0
  BY <1>2, Sizes, SlotsCount
<1>4. Cardinality(Slots(ofile, Fds, f)) \in Nat /\ Cardinality(Slots(pf, 1..2, f)) \in Nat
  BY Sizes, SlotsFinite
<1> HIDE DEF f
<1>5. Uses(f) > 0
  BY <1>3, <1>4 DEF Uses
<1>6. QED BY <1>1, <1>5, UsesCount DEF f

\* A file that pipe() holds and that is counted once is named nowhere else.
LEMMA HeldAlone ==
  ASSUME TypeInv, CountsAre(Others), NEW p \in Procs, NEW i \in 1..2,
         pf[p][i] # NoFile, ref[pf[p][i]] = 1
  PROVE  /\ pf[p][i] \in Files
         /\ \A q \in Procs, fd \in Fds : ofile[q][fd] # pf[p][i]
         /\ \A q \in Procs, j \in 1..2 : pf[q][j] = pf[p][i] => q = p /\ j = i
<1> DEFINE f == pf[p][i]
<1>1. f \in Files
  BY DEF TypeInv
<1>2. <<p, i>> \in Slots(pf, 1..2, f)
  BY DEF Slots
<1>3. /\ Cardinality(Slots(pf, 1..2, f)) > 0
      /\ \A y \in Slots(pf, 1..2, f) :
           y # <<p, i>> => Cardinality(Slots(pf, 1..2, f)) > 1
  BY <1>2, Sizes, SlotsCount
<1>4. Cardinality(Slots(ofile, Fds, f)) \in Nat /\ Cardinality(Slots(pf, 1..2, f)) \in Nat
  BY Sizes, SlotsFinite
<1>5. Others[f] \in 0..1 /\ ref[f] = Others[f] + Uses(f) /\ ref[f] = 1
  BY <1>1, UsesCount
<1> HIDE DEF f
<1>6. Cardinality(Slots(ofile, Fds, f)) = 0 /\ Cardinality(Slots(pf, 1..2, f)) = 1
  BY <1>3, <1>4, <1>5 DEF Uses
<1>7. ASSUME NEW q \in Procs, NEW fd \in Fds, ofile[q][fd] = f PROVE FALSE
  <2>1. <<q, fd>> \in Slots(ofile, Fds, f)
    BY <1>7 DEF Slots
  <2>2. Cardinality(Slots(ofile, Fds, f)) > 0
    BY <2>1, Sizes, SlotsCount
  <2>3. QED BY <2>2, <1>6
<1>8. ASSUME NEW q \in Procs, NEW j \in 1..2, pf[q][j] = f PROVE q = p /\ j = i
  <2>1. <<q, j>> \in Slots(pf, 1..2, f)
    BY <1>8 DEF Slots
  <2>2. <<q, j>> = <<p, i>>
    BY <1>3, <1>6, <2>1
  <2>3. QED BY <2>2
<1>9. QED BY <1>1, <1>7, <1>8 DEF f

\* One slot of either table changes.
LEMMA DescriptorPut ==
  ASSUME TypeInv, NEW p \in Procs, NEW fd \in Fds, NEW v,
         ofile' = [ofile EXCEPT ![p][fd] = v], pf' = pf
  PROVE  \A f \in Files : Uses(f)' = Uses(f) - Hit(ofile[p][fd], f) + Hit(v, f)
<1>1. SUFFICES ASSUME NEW f \in Files
               PROVE  Uses(f)' = Uses(f) - Hit(ofile[p][fd], f) + Hit(v, f)
  OBVIOUS
<1>2. IsFiniteSet(Fds) /\ ofile \in [Procs -> [Fds -> Files \cup {NoFile}]]
  BY Sizes DEF TypeInv
<1>3. Puts(ofile, ofile', Fds, p, fd, v)
  BY <1>2 DEF Puts
<1>4. Cardinality(Slots(ofile', Fds, f))
        = Cardinality(Slots(ofile, Fds, f)) - Hit(ofile[p][fd], f) + Hit(v, f)
  BY <1>2, <1>3, SlotPut
<1>5. Cardinality(Slots(ofile, Fds, f)) \in Nat /\ Cardinality(Slots(pf, 1..2, f)) \in Nat
  BY Sizes, SlotsFinite
<1>6. Hit(ofile[p][fd], f) \in Nat /\ Hit(v, f) \in Nat
  BY DEF Hit
<1>7. QED BY <1>4, <1>5, <1>6 DEF Uses

LEMMA HeldPut ==
  ASSUME TypeInv, NEW p \in Procs, NEW i \in 1..2, NEW v,
         pf' = [pf EXCEPT ![p][i] = v], ofile' = ofile
  PROVE  \A f \in Files : Uses(f)' = Uses(f) - Hit(pf[p][i], f) + Hit(v, f)
<1>1. SUFFICES ASSUME NEW f \in Files
               PROVE  Uses(f)' = Uses(f) - Hit(pf[p][i], f) + Hit(v, f)
  OBVIOUS
<1>2. IsFiniteSet(1..2) /\ pf \in [Procs -> [1..2 -> Files \cup {NoFile}]]
  BY Sizes DEF TypeInv
<1>3. Puts(pf, pf', 1..2, p, i, v)
  BY <1>2 DEF Puts
<1>4. Cardinality(Slots(pf', 1..2, f))
        = Cardinality(Slots(pf, 1..2, f)) - Hit(pf[p][i], f) + Hit(v, f)
  BY <1>2, <1>3, SlotPut
<1>5. Cardinality(Slots(ofile, Fds, f)) \in Nat /\ Cardinality(Slots(pf, 1..2, f)) \in Nat
  BY Sizes, SlotsFinite
<1>6. Hit(pf[p][i], f) \in Nat /\ Hit(v, f) \in Nat
  BY DEF Hit
<1>7. QED BY <1>4, <1>5, <1>6 DEF Uses

\* The counts are right when they change as the references do.
LEMMA CountsFollow ==
  ASSUME TypeInv, CountsAre(Others), elsewhere' = elsewhere,
         \A f \in Files : ref'[f] - ref[f] = Uses(f)' - Uses(f) /\ ref'[f] \in Int
  PROVE  CountsAre(Others)'
<1>1. SUFFICES ASSUME NEW f \in Files
               PROVE  (ref[f] = Others[f] + Cardinality(Slots(ofile, Fds, f))
                                          + Cardinality(Slots(pf, 1..2, f)))'
  BY DEF CountsAre
<1>2. Uses(f) \in Nat /\ Others[f] \in 0..1 /\ ref[f] = Others[f] + Uses(f)
  BY UsesCount
<1>3. Others' = Others
  BY DEF Others
<1>4. /\ Cardinality(Slots(ofile', Fds, f)) \in Nat
      /\ Cardinality(Slots(pf', 1..2, f)) \in Nat
  BY Sizes, SlotsFinite
<1>5. Uses(f)' \in Nat
  BY <1>4 DEF Uses
<1>6. ref'[f] = Others[f] + Uses(f)'
  BY <1>2, <1>5
<1>7. QED BY <1>2, <1>3, <1>4, <1>6 DEF Uses

-----------------------------------------------------------------------------
(* The steps of the kernel, by what they do to the file table. *)

KernelStep(p) ==
  \/ InKernel(p) \/ SysPipe(p) \/ SysExit(p) \/ Kill(p)
  \/ \E q \in Procs : Fork(p, q)
  \/ \E fd \in Fds : \/ SysClose(p, fd) \/ SysDup(p, fd)
                     \/ \E k \in Nat : SysRead(p, fd, k) \/ SysWrite(p, fd, k)

\* Whatever line of sh.c a process is at, it makes a step of the kernel or none.
LEMMA KernelSteps ==
  ASSUME TypeInv, [Next]_vars
  PROVE  /\ elsewhere' = elsewhere
         /\ (\E p \in Procs : KernelStep(p)) \/ UNCHANGED kernelVars
<1>1. CASE UNCHANGED vars
  BY <1>1 DEF vars, progVars
<1>2. CASE Killing
  BY <1>2 DEF Killing, progVars, KernelStep
<1>3. ASSUME NEW p \in Procs, Step(p)
      PROVE  elsewhere' = elsewhere /\ (KernelStep(p) \/ UNCHANGED kernelVars)
  <2>0. sh \in Procs /\ Chunks \subseteq Nat /\ 0 \in Fds /\ 1 \in Fds
    BY ShellAssumption, PipeAssumption DEF Fds
  <2>1. CASE InKernel(p) /\ UNCHANGED progVars
    BY <2>1 DEF progVars, KernelStep
  <2>2. CASE p = sh /\ (MakePipe \/ PipeFailed \/ ForkFailed \/ Wait)
    BY <2>2 DEF MakePipe, PipeFailed, ForkFailed, Wait, KernelStep
  <2>3. CASE p = sh /\ (Start("left", "right", "L1") \/ Start("right", "C0", "R1"))
    BY <2>3 DEF Start, KernelStep
  <2>4. CASE Redirect(p)
    <3>1. pfd[p][1] \in Fds /\ pfd[p][2] \in Fds
      BY DEF TypeInv
    <3>2. QED BY <2>0, <2>4, <3>1 DEF Redirect, KernelStep
  <2>5. CASE Writes(p) \/ Reads(p)
    <3>1. NotConsole(p) \subseteq Fds
      BY <2>0 DEF NotConsole
    <3>2. QED BY <2>0, <2>5, <3>1 DEF Writes, Reads, KernelStep
  <2>6. CASE Helps(p) \/ Leaves(p)
    BY <2>6 DEF Helps, Leaves, KernelStep
  <2>7. QED BY <1>3, <2>1, <2>2, <2>3, <2>4, <2>5, <2>6 DEF Step, Program
<1>4. QED BY <1>1, <1>2, <1>3 DEF Next

\* A step that opens and closes nothing, and where it may lead.
Calm == {"user"} \cup Reading \cup Writing

Moves(q) == \/ pc'[q] = pc[q]
            \/ pc[q] \in Calm /\ pc'[q] \in Calm
            \/ pc[q] = "pipe2" /\ pc'[q] = "closing"
            \/ pc[q] = "user" /\ pc'[q] = "zombie"

Quiet == UNCHANGED <<fileVars, ofile, pf, ff, live, openVars>> /\ \A q \in Procs : Moves(q)

\* The close of a descriptor, by close() or by exit().
FdClosed(p) ==
  /\ pc[p] \in {"user", "exiting"} /\ ff[p] = None
  /\ \E fd \in OpenFds(p) : \/ pc[p] = "user" /\ CloseFd(p, fd, "closing", FALSE)
                            \/ CloseFd(p, fd, "exiting", OpenFds(p) # {fd})
  /\ UNCHANGED <<pf, page, want, killed, pipeVars>>
  /\ pfd' = pfd \/ pfd' = [pfd EXCEPT ![p] = <<0, 0>>]

\* A process in user space has nothing to close.
LEMMA UserHasNothing ==
  ASSUME Table, NEW p \in Procs, pc[p] \notin {"closing", "exiting"}
  PROVE  ff[p] = None
BY DEF Table, Phases

LEMMA OpenFdsFound ==
  ASSUME NEW p \in Procs, OpenFds(p) # {}
  PROVE  Lowest(OpenFds(p)) \in OpenFds(p)
<1>1. OpenFds(p) \in SUBSET Nat
  BY Sizes DEF OpenFds, Fds
<1>2. QED BY <1>1, LowestFound

LEMMA UnclosedFound ==
  ASSUME NEW p \in Procs, Unclosed(p) # {}
  PROVE  Lowest(Unclosed(p)) \in Unclosed(p)
<1>1. Unclosed(p) \in SUBSET Nat
  BY DEF Unclosed
<1>2. QED BY <1>1, LowestFound

LEMMA SysCloseSteps ==
  ASSUME Table, NEW p \in Procs, NEW fd \in Fds, SysClose(p, fd)
  PROVE  FdClosed(p) \/ Quiet
<1>1. pc[p] = "user" /\ ff[p] = None
  BY UserHasNothing DEF SysClose, Running
<1>2. CASE ofile[p][fd] = NoFile
  BY <1>2 DEF SysClose, Quiet, Moves, pipeVars
<1>3. CASE ofile[p][fd] # NoFile
  <2>1. fd \in OpenFds(p)
    BY <1>3 DEF OpenFds
  <2>2. CloseFd(p, fd, "closing", FALSE) /\ UNCHANGED <<pf, page, want, pfd, killed, pipeVars>>
    BY <1>3 DEF SysClose
  <2>3. QED BY <1>1, <2>1, <2>2 DEF FdClosed
<1>4. QED BY <1>2, <1>3

LEMMA ExitSteps ==
  ASSUME Table, NEW p \in Procs, SysExit(p) \/ ExitClose(p)
  PROVE  FdClosed(p) \/ (Quiet /\ SysExit(p) /\ OpenFds(p) = {})
<1>1. pc[p] \in {"user", "exiting"} /\ ff[p] = None
  BY UserHasNothing DEF SysExit, ExitClose, Running
<1>2. CASE OpenFds(p) = {}
  <2>1. SysExit(p)
    BY <1>2 DEF ExitClose, Table, Phases
  <2>2. /\ UNCHANGED <<fileVars, ofile, pf, ff, live, openVars>>
        /\ Goto(p, "zombie") /\ pc[p] = "user"
    BY <1>2, <2>1 DEF SysExit, Running, pipeVars
  <2>3. \A q \in Procs : Moves(q)
    BY <2>2 DEF Table, TypeInv, Goto, Moves
  <2>4. QED BY <1>2, <2>1, <2>2, <2>3 DEF Quiet
<1>3. CASE OpenFds(p) # {}
  <2>1. CloseNext(p) /\ UNCHANGED <<pf, page, want, killed, pipeVars>>
    BY <1>3 DEF SysExit, ExitClose
  <2>2. pfd' = pfd \/ pfd' = [pfd EXCEPT ![p] = <<0, 0>>]
    BY DEF SysExit, ExitClose
  <2>3. Lowest(OpenFds(p)) \in OpenFds(p)
    BY <1>3, OpenFdsFound
  <2>4. QED BY <1>1, <2>1, <2>2, <2>3 DEF FdClosed, CloseNext
<1>4. QED BY <1>2, <1>3

\* Reads, writes, sleeps, kills and the failure of kalloc are quiet.
LEMMA QuietSteps ==
  ASSUME Table, NEW p \in Procs,
         \/ PipeNoPage(p) \/ PipeWrite(p) \/ PipeRead(p) \/ PipeSleep(p) \/ Kill(p)
         \/ \E fd \in Fds, k \in Nat : SysRead(p, fd, k) \/ SysWrite(p, fd, k)
  PROVE  Quiet
<1>0. pc \in [Procs -> Places]
  BY DEF Table, TypeInv
<1> USE DEF Quiet, Moves, Calm, Reading, Writing, Places, Piping
<1>1. CASE PipeNoPage(p)
  BY <1>0, <1>1 DEF PipeNoPage, Goto, pipeVars
<1>2. CASE PipeWrite(p)
  <2>1. UNCHANGED <<fileVars, ofile, pf, ff, live, openVars>> /\ pc[p] = "write"
    BY <1>2 DEF PipeWrite
  <2>2. \/ \E pg : WakeAndGoto(AsleepReading(pg), p, "user") \/ WakeAndGoto(AsleepReading(pg), p, "wgap")
        \/ Goto(p, "user")
    BY <1>2 DEF PipeWrite
  <2>3. QED BY <1>0, <2>1, <2>2 DEF WakeAndGoto, AsleepReading, Sleepers, Goto
<1>3. CASE PipeRead(p)
  <2>1. UNCHANGED <<fileVars, ofile, pf, ff, live, openVars>> /\ pc[p] = "read"
    BY <1>3 DEF PipeRead
  <2>2. \/ \E pg : WakeAndGoto(AsleepWriting(pg), p, "user")
        \/ Goto(p, "user") \/ Goto(p, "rgap")
    BY <1>3 DEF PipeRead
  <2>3. QED BY <1>0, <2>1, <2>2 DEF WakeAndGoto, AsleepWriting, Sleepers, Goto
<1>4. CASE PipeSleep(p)
  BY <1>0, <1>4 DEF PipeSleep, Goto
<1>5. CASE Kill(p)
  BY <1>0, <1>5 DEF Kill, pipeVars
<1>6. ASSUME NEW fd \in Fds, NEW k \in Nat, SysRead(p, fd, k) \/ SysWrite(p, fd, k)
      PROVE  Quiet
  BY <1>0, <1>6 DEF SysRead, SysWrite, SysMove, Running, Goto, pipeVars
<1>7. QED BY <1>1, <1>2, <1>3, <1>4, <1>5, <1>6

-----------------------------------------------------------------------------
(* Types. *)

\* fdalloc finds two descriptors when two are free.
LEMMA TwoFree ==
  ASSUME NEW p \in Procs, Cardinality(FreeFds(p)) >= 2
  PROVE  LET fd0 == Lowest(FreeFds(p))
             fd1 == Lowest(FreeFds(p) \ {fd0})
         IN  fd0 \in FreeFds(p) /\ fd1 \in FreeFds(p) /\ fd1 # fd0
<1> DEFINE fd0 == Lowest(FreeFds(p))
           fd1 == Lowest(FreeFds(p) \ {fd0})
<1>1. FreeFds(p) \in SUBSET Nat /\ IsFiniteSet(FreeFds(p))
  <2>1. FreeFds(p) \subseteq Fds
    BY DEF FreeFds
  <2>2. IsFiniteSet(FreeFds(p))
    BY <2>1, Sizes, FS_Subset
  <2>3. QED BY <2>1, <2>2, Sizes DEF Fds
<1>2. Cardinality(FreeFds(p)) \in Nat /\ FreeFds(p) # {}
  BY <1>1, FS_EmptySet, FS_CardinalityType
<1>3. fd0 \in FreeFds(p)
  BY <1>1, <1>2, LowestFound
<1> HIDE DEF fd0
<1>4. /\ IsFiniteSet(FreeFds(p) \ {fd0})
      /\ Cardinality(FreeFds(p) \ {fd0}) = Cardinality(FreeFds(p)) - 1
  BY <1>1, <1>3, FS_RemoveElement
<1>5. FreeFds(p) \ {fd0} # {}
  BY <1>2, <1>4, FS_EmptySet
<1>6. FreeFds(p) \ {fd0} \in SUBSET Nat
  BY <1>1
<1>7. fd1 \in FreeFds(p) \ {fd0}
  BY <1>5, <1>6, LowestFound
<1>8. QED BY <1>3, <1>7 DEF fd0

\* The remainder, for the operands that occur.
LEMMA Modulo ==
  ASSUME NEW w \in Nat, w > 0
  PROVE  /\ \A a \in 0..(w - 1) : a % w = a
         /\ \A a \in w..(2 * w - 1) : a % w = a - w
         /\ \A a \in (0 - w)..(0 - 1) : a % w = a + w
         /\ \A a \in Int : a % w \in 0..(w - 1)
OBVIOUS

LEMMA WidthFits ==
  Width \in Nat /\ Width > 0 /\ PipeSize \in Nat /\ PipeSize > 0 /\ PipeSize < Width
BY PipeAssumption

\* What a pipe holds is a number.
LEMMA UsedIsNumber ==
  ASSUME TypeInv, NEW pg \in Pages
  PROVE  Used(pg) \in 0..(Width - 1) /\ Room(pg) \in Int
<1>1. nwrite[pg] - nread[pg] \in Int
  BY WidthFits DEF TypeInv
<1>2. Used(pg) \in 0..(Width - 1)
  BY <1>1, WidthFits, Modulo DEF Used
<1>3. QED BY <1>2, WidthFits DEF Room

\* Where the processes are after a step of p, with and without a wake-up.
LEMMA PlacesKeep ==
  ASSUME TypeInv, NEW p \in Procs, NEW place \in Places, NEW S,
         Goto(p, place) \/ WakeAndGoto(S, p, place)
  PROVE  pc' \in [Procs -> Places]
<1>1. "read" \in Places /\ "write" \in Places
  BY DEF Places, Reading, Writing
<1>2. CASE Goto(p, place)
  BY <1>2 DEF Goto, TypeInv
<1>3. CASE WakeAndGoto(S, p, place)
  BY <1>1, <1>3 DEF WakeAndGoto, TypeInv
<1>4. QED BY <1>2, <1>3

\* Where a call goes after a close.
LEMMA PlaceIsPlace ==
  ASSUME NEW place \in {"closing", "exiting"}, NEW more
  PROVE  Place(place, more) \in Places /\ place \in Places
BY DEF Place, Places

\* fileclose keeps the table in its types.
LEMMA CloseTypes ==
  ASSUME TypeInv, Fresh, NEW p \in Procs, NEW f \in Files, ref[f] > 0,
         NEW place \in {"closing", "exiting"}, NEW more \in BOOLEAN,
         Close(p, f, place, more)
  PROVE  /\ ref' \in [Files -> Nat] /\ kind' \in [Files -> Kinds] /\ fpage' = fpage
         /\ ff' \in [Procs -> (Ends \X Pages) \cup {None}]
         /\ pc' \in [Procs -> Places]
<1>1. ref' \in [Files -> Nat]
  BY DEF TypeInv, Close
<1>2. kind' \in [Files -> Kinds]
  BY DEF TypeInv, Close, Kinds
<1>3. ff' \in [Procs -> (Ends \X Pages) \cup {None}]
  <2>1. kind[f] \in Ends => <<kind[f], fpage[f]>> \in Ends \X Pages
    BY DEF Fresh
  <2>2. QED BY <2>1 DEF TypeInv, Close, Ends
<1>4. pc' \in [Procs -> Places]
  <2>1. Goto(p, place) \/ Goto(p, Place(place, more))
    BY DEF Close
  <2>2. QED BY <2>1, PlaceIsPlace, PlacesKeep
<1>5. QED BY <1>1, <1>2, <1>3, <1>4 DEF Close

LEMMA TypeKeeps ==
  ASSUME Table, Busy, NEW p \in Procs, KernelStep(p), elsewhere' = elsewhere
  PROVE  TypeInv'
<1>0. TypeInv /\ CountsAre(Others) /\ Phases /\ Fresh
  BY DEF Table
<1>1. CASE FdClosed(p)
  <2>1. PICK fd \in OpenFds(p), place \in {"closing", "exiting"}, more \in BOOLEAN :
          CloseFd(p, fd, place, more)
    BY <1>1 DEF FdClosed
  <2>2. fd \in Fds /\ ofile[p][fd] # NoFile
    BY DEF OpenFds
  <2>3. ofile[p][fd] \in Files /\ ref[ofile[p][fd]] > 0
    BY <1>0, <2>2, DescriptorCounted
  <2>4. Close(p, ofile[p][fd], place, more) /\ ofile' = [ofile EXCEPT ![p][fd] = NoFile]
    BY <2>1 DEF CloseFd
  <2>5. /\ ref' \in [Files -> Nat] /\ kind' \in [Files -> Kinds] /\ fpage' = fpage
        /\ ff' \in [Procs -> (Ends \X Pages) \cup {None}]
        /\ pc' \in [Procs -> Places]
    BY <1>0, <2>3, <2>4, CloseTypes
  <2>6. pfd' \in [Procs -> Fds \X Fds]
    <3>1. <<0, 0>> \in Fds \X Fds /\ pfd \in [Procs -> Fds \X Fds]
      BY <1>0, Sizes DEF TypeInv
    <3>2. QED BY <1>1, <3>1 DEF FdClosed
  <2>7. QED BY <1>0, <1>1, <2>4, <2>5, <2>6 DEF FdClosed, TypeInv, pipeVars, openVars, byteVars
<1>2. CASE FileClose(p)
  <2> DEFINE i == Lowest(Unclosed(p))
  <2>1. i \in 1..2 /\ pf[p][i] # NoFile
    <3>1. Unclosed(p) # {}
      BY <1>0, <1>2 DEF FileClose, Phases
    <3>2. QED BY <3>1, UnclosedFound DEF Unclosed
  <2>2. pf[p][i] \in Files /\ ref[pf[p][i]] > 0
    BY <1>0, <2>1 DEF Fresh, TypeInv
  <2>3. Close(p, pf[p][i], "closing", Unclosed(p) # {i}) /\ pf' = [pf EXCEPT ![p][i] = NoFile]
    BY <1>2 DEF FileClose
  <2> HIDE DEF i
  <2>4. /\ ref' \in [Files -> Nat] /\ kind' \in [Files -> Kinds] /\ fpage' = fpage
        /\ ff' \in [Procs -> (Ends \X Pages) \cup {None}]
        /\ pc' \in [Procs -> Places]
    BY <1>0, <2>2, <2>3, CloseTypes
  <2>5. pf' \in [Procs -> [1..2 -> Files \cup {NoFile}]]
    BY <1>0, <2>1, <2>3 DEF TypeInv
  <2>6. UNCHANGED <<ofile, page, want, pfd, killed, pipeVars>>
    BY <1>2 DEF FileClose
  <2>7. QED BY <1>0, <2>4, <2>5, <2>6 DEF TypeInv, pipeVars, openVars, byteVars
<1>3. CASE SysExit(p) /\ OpenFds(p) = {}
  BY <1>0, <1>3, Sizes DEF SysExit, TypeInv, fileVars, pipeVars, openVars, byteVars, Goto, Places
<1>4. CASE PipeClose(p)
  <2>1. pc[p] \in {"closing", "exiting"} /\ ff[p] \in Ends \X Pages
    BY <1>0, <1>4 DEF PipeClose, Phases, TypeInv
  <2>2. pc' \in [Procs -> Places]
    <3>1. \E S, more : WakeAndGoto(S, p, Place(pc[p], more))
      BY <1>4 DEF PipeClose
    <3>2. QED BY <1>0, <2>1, <3>1, PlaceIsPlace, PlacesKeep
  <2>3. /\ readopen' \in [Pages -> BOOLEAN] /\ writeopen' \in [Pages -> BOOLEAN]
        /\ live' \subseteq Pages
    BY <1>0, <1>4, <2>1 DEF PipeClose, TypeInv
  <2>4. ff' \in [Procs -> (Ends \X Pages) \cup {None}]
    BY <1>0, <1>4 DEF PipeClose, TypeInv
  <2>5. QED BY <1>0, <1>4, <2>2, <2>3, <2>4 DEF PipeClose, TypeInv, fileVars, byteVars
<1>5. ASSUME NEW fd \in Fds, SysDup(p, fd) PROVE TypeInv'
  <2>1. CASE UNCHANGED <<ref, ofile>>
    BY <1>0, <1>5, <2>1 DEF SysDup, TypeInv, pipeVars, openVars, byteVars
  <2>2. CASE ofile[p][fd] # NoFile /\ FreeFds(p) # {}
    <3>1. FreeFds(p) \in SUBSET Nat /\ FreeFds(p) \subseteq Fds
      BY Sizes DEF FreeFds, Fds
    <3>2. Lowest(FreeFds(p)) \in Fds /\ ofile[p][fd] \in Files
      <4>1. Lowest(FreeFds(p)) \in FreeFds(p)
        BY <2>2, <3>1, LowestFound
      <4>2. QED BY <1>0, <2>2, <3>1, <4>1 DEF TypeInv
    <3>3. /\ ofile' = [ofile EXCEPT ![p][Lowest(FreeFds(p))] = ofile[p][fd]]
          /\ ref' = [ref EXCEPT ![ofile[p][fd]] = @ + 1]
      BY <1>5, <2>2 DEF SysDup
    <3>4. ofile' \in [Procs -> [Fds -> Files \cup {NoFile}]] /\ ref' \in [Files -> Nat]
      BY <1>0, <3>2, <3>3 DEF TypeInv
    <3>5. QED BY <1>0, <1>5, <3>4 DEF SysDup, TypeInv, pipeVars, openVars, byteVars
  <2>3. QED BY <1>5, <2>1, <2>2 DEF SysDup
<1>6. CASE SysPipe(p) \/ PipeAlloc1(p)
  <2>1. PICK i \in 1..2, next \in Piping : AllocFile(p, i, next)
    BY <1>6 DEF SysPipe, PipeAlloc1, Piping
  <2>2. UNCHANGED <<kind, fpage, ofile, ff, page, want, pfd, killed, pipeVars>>
    BY <1>6 DEF SysPipe, PipeAlloc1
  <2>3. CASE FreeFiles = {}
    BY <1>0, <2>1, <2>2, <2>3
       DEF AllocFile, TypeInv, pipeVars, openVars, byteVars, Goto, Place, Places
  <2>4. CASE FreeFiles # {}
    <3>1. FirstFree \in Files
      BY <2>4, FirstFreeFound
    <3>2. /\ ref' = [ref EXCEPT ![FirstFree] = 1] /\ pf' = [pf EXCEPT ![p][i] = FirstFree]
          /\ Goto(p, next)
      BY <2>1, <2>4 DEF AllocFile
    <3>3. /\ ref' \in [Files -> Nat] /\ pf' \in [Procs -> [1..2 -> Files \cup {NoFile}]]
      BY <1>0, <3>1, <3>2 DEF TypeInv
    <3>4. pc' \in [Procs -> Places]
      BY <1>0, <3>2, PlacesKeep DEF Places
    <3>5. QED BY <1>0, <2>2, <3>3, <3>4 DEF TypeInv, pipeVars, openVars, byteVars
  <2>5. QED BY <2>3, <2>4
<1>7. CASE PipeNoPage(p)
  BY <1>0, <1>7 DEF PipeNoPage, TypeInv, fileVars, pipeVars, openVars, byteVars, Goto, Places
<1>8. CASE PipeAllocPage(p)
  <2> DEFINE fd0 == Lowest(FreeFds(p))
             fd1 == Lowest(FreeFds(p) \ {fd0})
             rf  == pf[p][1]
             wf  == pf[p][2]
  <2>1. PICK pg \in Pages \ live :
          /\ live' = live \cup {pg}
          /\ readopen' = [readopen EXCEPT ![pg] = TRUE]
          /\ writeopen' = [writeopen EXCEPT ![pg] = TRUE]
          /\ nread' = [nread EXCEPT ![pg] = 0] /\ nwrite' = [nwrite EXCEPT ![pg] = 0]
          /\ kind' = [kind EXCEPT ![rf] = "reader", ![wf] = "writer"]
          /\ fpage' = [fpage EXCEPT ![rf] = pg, ![wf] = pg]
    BY <1>8 DEF PipeAllocPage
  <2>2. UNCHANGED <<ref, ff, page, want, killed, lock, data, sent, got, ended>>
    BY <1>8 DEF PipeAllocPage
  <2>3. rf \in Files \cup {NoFile} /\ wf \in Files \cup {NoFile}
    BY <1>0 DEF TypeInv
  <2>31. /\ kind' \in [Files -> Kinds] /\ fpage' \in [Files -> Pages \cup {None}]
         /\ readopen' \in [Pages -> BOOLEAN] /\ writeopen' \in [Pages -> BOOLEAN]
         /\ live' \subseteq Pages
    BY <1>0, <2>1 DEF TypeInv, Kinds
  <2>32. nread' \in [Pages -> 0..(Width - 1)] /\ nwrite' \in [Pages -> 0..(Width - 1)]
    <3>1. 0 \in 0..(Width - 1)
      BY WidthFits
    <3>2. QED BY <1>0, <2>1, <3>1 DEF TypeInv
  <2> HIDE DEF rf, wf
  <2>4. CASE Cardinality(FreeFds(p)) >= 2
    <3>1. fd0 \in Fds /\ fd1 \in Fds
      BY <2>4, TwoFree DEF FreeFds
    <3>2. /\ ofile' = [ofile EXCEPT ![p][fd0] = rf, ![p][fd1] = wf]
          /\ pfd' = [pfd EXCEPT ![p] = <<fd0, fd1>>]
          /\ pf' = [pf EXCEPT ![p] = <<NoFile, NoFile>>]
          /\ Goto(p, "user")
      BY <1>8, <2>4 DEF PipeAllocPage, rf, wf
    <3> HIDE DEF fd0, fd1
    <3>3. pfd' \in [Procs -> Fds \X Fds] /\ ofile' \in [Procs -> [Fds -> Files \cup {NoFile}]]
      BY <1>0, <2>3, <3>1, <3>2 DEF TypeInv
    <3>4. pf' \in [Procs -> [1..2 -> Files \cup {NoFile}]] /\ pc' \in [Procs -> Places]
      BY <1>0, <3>2 DEF TypeInv, Goto, Places
    <3>5. QED BY <1>0, <2>2, <2>31, <2>32, <3>3, <3>4 DEF TypeInv
  <2>5. CASE ~(Cardinality(FreeFds(p)) >= 2)
    <3>1. UNCHANGED <<ofile, pfd, pf>> /\ Goto(p, "closing")
      BY <1>8, <2>5 DEF PipeAllocPage
    <3>2. pc' \in [Procs -> Places]
      BY <1>0, <3>1 DEF TypeInv, Goto, Places
    <3>3. QED BY <1>0, <2>2, <2>31, <2>32, <3>1, <3>2 DEF TypeInv
  <2>6. QED BY <2>4, <2>5
<1>9. ASSUME NEW fd \in Fds, NEW k \in Nat, SysRead(p, fd, k) \/ SysWrite(p, fd, k)
      PROVE  TypeInv'
  <2>1. PICK end \in Ends, start \in {"read", "write"} : SysMove(p, fd, k, end, start)
    BY <1>9 DEF SysRead, SysWrite, Ends
  <2>2. ofile[p][fd] \in Files \cup {NoFile}
    BY <1>0 DEF TypeInv
  <2>3. UNCHANGED <<fileVars, ofile, pf, ff, pfd, killed, pipeVars>>
    BY <2>1 DEF SysMove
  <2>4. CASE UNCHANGED <<pc, page, want>>
    BY <1>0, <2>3, <2>4 DEF TypeInv, fileVars, pipeVars, openVars, byteVars
  <2>5. CASE /\ ofile[p][fd] # NoFile /\ page' = [page EXCEPT ![p] = fpage[ofile[p][fd]]]
             /\ want' = [want EXCEPT ![p] = k] /\ Goto(p, start)
    <3>1. /\ page' \in [Procs -> Pages \cup {None}] /\ want' \in [Procs -> Nat]
      BY <1>0, <2>2, <2>5 DEF TypeInv
    <3>2. pc' \in [Procs -> Places]
      BY <1>0, <2>5, PlacesKeep DEF Places, Reading, Writing
    <3>3. QED BY <1>0, <2>3, <3>1, <3>2 DEF TypeInv, fileVars, pipeVars, openVars, byteVars
  <2>6. QED BY <2>1, <2>4, <2>5 DEF SysMove
<1>10. CASE PipeWrite(p)
  <2> DEFINE pg == page[p]
             k  == Least(want[p], Room(pg))
  <2>1. pg \in Pages
    BY <1>0, <1>10 DEF PipeWrite, Busy, Writing
  <2>2. k \in Int /\ want[p] \in Nat
    BY <1>0, <2>1, UsedIsNumber DEF Least, TypeInv
  <2>3. nwrite' \in [Pages -> 0..(Width - 1)]
    <3>1. nwrite' = [nwrite EXCEPT ![pg] = (@ + k) % Width]
      BY <1>10 DEF PipeWrite, PutBytes
    <3>2. nwrite[pg] + k \in Int
      BY <1>0, <2>1, <2>2, WidthFits DEF TypeInv
    <3>3. (nwrite[pg] + k) % Width \in 0..(Width - 1)
      BY <3>2, WidthFits, Modulo
    <3>4. QED BY <1>0, <3>1, <3>3 DEF TypeInv
  <2>4. pc' \in [Procs -> Places]
    <3>1. \/ Goto(p, "user") \/ WakeAndGoto(AsleepReading(pg), p, "user")
          \/ WakeAndGoto(AsleepReading(pg), p, "wgap")
      BY <1>10 DEF PipeWrite
    <3>2. "user" \in Places /\ "wgap" \in Places
      BY DEF Places, Writing
    <3>3. QED BY <1>0, <3>1, <3>2, PlacesKeep
  <2>5. want' \in [Procs -> Nat]
    <3>1. want' = [want EXCEPT ![p] = 0] \/ (want[p] > k /\ want' = [want EXCEPT ![p] = @ - k])
      BY <1>10 DEF PipeWrite, Return
    <3>2. want[p] > k => want[p] - k \in Nat
      BY <2>2
    <3> HIDE DEF k
    <3>3. CASE want' = [want EXCEPT ![p] = 0]
      BY <1>0, <3>3 DEF TypeInv
    <3>4. CASE want[p] > k /\ want' = [want EXCEPT ![p] = @ - k]
      BY <1>0, <3>2, <3>4 DEF TypeInv
    <3>5. QED BY <3>1, <3>3, <3>4
  <2>6. page' \in [Procs -> Pages \cup {None}] /\ lock' \in [Pages -> Procs \cup {None}]
    <3>1. /\ page' = page \/ page' = [page EXCEPT ![p] = None]
          /\ lock' = lock \/ lock' = [lock EXCEPT ![pg] = p]
      BY <1>10 DEF PipeWrite, Return
    <3> HIDE DEF pg
    <3>2. page' \in [Procs -> Pages \cup {None}]
      BY <1>0, <3>1 DEF TypeInv
    <3>3. lock' \in [Pages -> Procs \cup {None}]
      BY <1>0, <3>1 DEF TypeInv
    <3>4. QED BY <3>2, <3>3
  <2>7. UNCHANGED <<fileVars, ofile, pf, ff, pfd, killed, live, openVars, nread>>
    BY <1>10 DEF PipeWrite
  <2> HIDE DEF k, pg
  <2>8. QED BY <1>0, <2>3, <2>4, <2>5, <2>6, <2>7 DEF TypeInv, fileVars, openVars
<1>11. CASE PipeRead(p)
  <2> DEFINE pg == page[p]
             k  == Least(want[p], Used(pg))
  <2>1. pg \in Pages
    BY <1>0, <1>11 DEF PipeRead, Busy, Reading
  <2>2. k \in Int
    BY <1>0, <2>1, UsedIsNumber DEF Least, TypeInv
  <2>3. nread' \in [Pages -> 0..(Width - 1)]
    <3>1. nread' = [nread EXCEPT ![pg] = (@ + k) % Width] \/ nread' = nread
      BY <1>11 DEF PipeRead, TakeBytes
    <3>2. nread[pg] + k \in Int
      BY <1>0, <2>1, <2>2, WidthFits DEF TypeInv
    <3>3. (nread[pg] + k) % Width \in 0..(Width - 1)
      BY <3>2, WidthFits, Modulo
    <3>4. QED BY <1>0, <3>1, <3>3 DEF TypeInv
  <2>4. pc' \in [Procs -> Places]
    <3>1. \/ Goto(p, "user") \/ Goto(p, "rgap")
          \/ WakeAndGoto(AsleepWriting(pg), p, "user")
      BY <1>11 DEF PipeRead
    <3>2. "user" \in Places /\ "rgap" \in Places
      BY DEF Places, Reading
    <3>3. QED BY <1>0, <3>1, <3>2, PlacesKeep
  <2>5. /\ want' \in [Procs -> Nat] /\ page' \in [Procs -> Pages \cup {None}]
        /\ lock' \in [Pages -> Procs \cup {None}]
    <3>1. /\ page' = page \/ page' = [page EXCEPT ![p] = None]
          /\ want' = want \/ want' = [want EXCEPT ![p] = 0]
          /\ lock' = lock \/ lock' = [lock EXCEPT ![pg] = p]
      BY <1>11 DEF PipeRead, Return
    <3> HIDE DEF pg
    <3>2. page' \in [Procs -> Pages \cup {None}]
      <4>1. page \in [Procs -> Pages \cup {None}]
        BY <1>0 DEF TypeInv
      <4>2. QED BY <3>1, <4>1
    <3>3. want' \in [Procs -> Nat]
      <4>1. want \in [Procs -> Nat]
        BY <1>0 DEF TypeInv
      <4>2. QED BY <3>1, <4>1
    <3>4. lock' \in [Pages -> Procs \cup {None}]
      <4>1. lock \in [Pages -> Procs \cup {None}] /\ pg \in Pages
        BY <1>0, <2>1 DEF TypeInv
      <4>2. QED BY <3>1, <4>1
    <3>5. QED BY <3>2, <3>3, <3>4
  <2>6. UNCHANGED <<fileVars, ofile, pf, ff, pfd, killed, live, openVars, nwrite>>
    BY <1>11 DEF PipeRead
  <2> HIDE DEF k, pg
  <2>7. QED BY <1>0, <2>3, <2>4, <2>5, <2>6 DEF TypeInv, fileVars, openVars
<1>12. CASE PipeSleep(p)
  BY <1>0, <1>12 DEF PipeSleep, TypeInv, fileVars, openVars, byteVars, Goto, Places, Reading, Writing
<1>13. CASE Kill(p)
  BY <1>0, <1>13 DEF Kill, TypeInv, fileVars, pipeVars, openVars, byteVars, Places, Reading, Writing
<1>14. ASSUME NEW q \in Procs, Fork(p, q) PROVE TypeInv'
  <2>1. ref' \in [Files -> Nat]
    <3>1. \A f \in Files : Cardinality({fd \in Fds : ofile[p][fd] = f}) \in Nat
      <4>1. \A f \in Files : IsFiniteSet({fd \in Fds : ofile[p][fd] = f})
        BY Sizes, FS_Subset
      <4>2. QED BY <4>1, FS_CardinalityType
    <3>2. ref' = [f \in Files |-> ref[f] + Cardinality({fd \in Fds : ofile[p][fd] = f})]
      BY <1>14 DEF Fork, ForkFiles
    <3>3. ASSUME NEW f \in Files
          PROVE  ref[f] + Cardinality({fd \in Fds : ofile[p][fd] = f}) \in Nat
      <4>1. ref[f] \in Nat /\ Cardinality({fd \in Fds : ofile[p][fd] = f}) \in Nat
        BY <1>0, <3>1 DEF TypeInv
      <4>2. QED BY <4>1
    <3>4. QED BY <3>2, <3>3
  <2>2. ofile' \in [Procs -> [Fds -> Files \cup {NoFile}]]
    BY <1>0, <1>14 DEF Fork, ForkFiles, TypeInv
  <2>3. QED BY <1>0, <1>14, <2>1, <2>2
       DEF Fork, TypeInv, pipeVars, openVars, byteVars, Goto, Places
<1>15. CASE SysExit(p) \/ ExitClose(p)
  BY <1>1, <1>3, <1>15, ExitSteps
<1>16. ASSUME NEW fd \in Fds, SysClose(p, fd) PROVE TypeInv'
  <2>1. CASE ofile[p][fd] = NoFile
    BY <1>0, <1>16, <2>1 DEF SysClose, TypeInv, fileVars, pipeVars, openVars, byteVars
  <2>2. CASE ofile[p][fd] # NoFile
    <3>1. pc[p] = "user" /\ ff[p] = None /\ fd \in OpenFds(p)
      BY <1>16, <2>2, UserHasNothing DEF SysClose, Running, OpenFds
    <3>2. CloseFd(p, fd, "closing", FALSE) /\ UNCHANGED <<pf, page, want, pfd, killed, pipeVars>>
      BY <1>16, <2>2 DEF SysClose
    <3>3. FdClosed(p)
      BY <3>1, <3>2 DEF FdClosed
    <3>4. QED BY <1>1, <3>3
  <2>3. QED BY <2>1, <2>2
<1>17. QED BY <1>2, <1>4, <1>5, <1>6, <1>7, <1>8, <1>9, <1>10, <1>11, <1>12, <1>13,
              <1>14, <1>15, <1>16 DEF KernelStep, InKernel

-----------------------------------------------------------------------------
(* Counts: each step changes a file's count as it changes its slots. *)

LEMMA CountsKeep ==
  ASSUME Table, NEW p \in Procs, KernelStep(p), elsewhere' = elsewhere
  PROVE  CountsAre(Others)'
<1>0. TypeInv /\ CountsAre(Others) /\ Phases /\ Fresh
  BY DEF Table
<1>1. ref \in [Files -> Nat] /\ (\A f \in Files : Uses(f) \in Nat) /\ NoFile \notin Files
  BY <1>0, UsesCount, Sizes DEF TypeInv
<1>2. CASE UNCHANGED <<ref, ofile, pf>>
  BY <1>0, <1>2 DEF CountsAre, Others
<1>3. CASE FdClosed(p)
  <2>1. PICK fd \in OpenFds(p), place \in {"closing", "exiting"}, more \in BOOLEAN :
          CloseFd(p, fd, place, more)
    BY <1>3 DEF FdClosed
  <2>2. fd \in Fds /\ ofile[p][fd] # NoFile
    BY DEF OpenFds
  <2>3. PICK g \in Files : g = ofile[p][fd] /\ ref[g] > 0
    BY <1>0, <2>2, DescriptorCounted
  <2>4. /\ ofile' = [ofile EXCEPT ![p][fd] = NoFile] /\ pf' = pf
        /\ ref' = [ref EXCEPT ![g] = @ - 1]
    BY <1>3, <2>1, <2>3 DEF CloseFd, Close, FdClosed
  <2>5. \A f \in Files : Uses(f)' = Uses(f) - Hit(g, f) + Hit(NoFile, f)
    BY <1>0, <2>2, <2>3, <2>4, DescriptorPut, ZenonT(40)
  <2>6. \A f \in Files : ref'[f] - ref[f] = Uses(f)' - Uses(f) /\ ref'[f] \in Int
    BY <1>1, <2>3, <2>4, <2>5 DEF Hit
  <2>7. QED BY <1>0, <2>6, CountsFollow
<1>4. CASE FileClose(p)
  <2>1. PICK i \in 1..2 : i = Lowest(Unclosed(p)) /\ pf[p][i] # NoFile
    <3>1. Unclosed(p) # {}
      BY <1>0, <1>4 DEF FileClose, Phases
    <3>2. QED BY <3>1, UnclosedFound DEF Unclosed
  <2>2. PICK g \in Files : g = pf[p][i] /\ ref[g] = 1
    BY <1>0, <2>1 DEF Fresh, TypeInv
  <2>3. /\ pf' = [pf EXCEPT ![p][i] = NoFile] /\ ofile' = ofile
        /\ ref' = [ref EXCEPT ![g] = @ - 1]
    BY <1>4, <2>1, <2>2 DEF FileClose, Close
  <2>4. \A f \in Files : Uses(f)' = Uses(f) - Hit(g, f) + Hit(NoFile, f)
    BY <1>0, <2>2, <2>3, HeldPut, ZenonT(40)
  <2>5. \A f \in Files : ref'[f] - ref[f] = Uses(f)' - Uses(f) /\ ref'[f] \in Int
    BY <1>1, <2>2, <2>3, <2>4 DEF Hit
  <2>6. QED BY <1>0, <2>5, CountsFollow
<1>5. ASSUME NEW fd \in Fds, SysDup(p, fd), ~UNCHANGED <<ref, ofile>>
      PROVE  CountsAre(Others)'
  <2>1. PICK d \in Fds : d = Lowest(FreeFds(p)) /\ ofile[p][d] = NoFile
    <3>1. FreeFds(p) # {} /\ FreeFds(p) \in SUBSET Nat
      BY <1>5 DEF SysDup, FreeFds, Fds
    <3>2. Lowest(FreeFds(p)) \in FreeFds(p)
      BY <3>1, LowestFound
    <3>3. QED BY <3>2 DEF FreeFds
  <2>2. PICK g \in Files : g = ofile[p][fd]
    BY <1>0, <1>5 DEF SysDup, TypeInv
  <2>3. /\ ofile' = [ofile EXCEPT ![p][d] = g] /\ pf' = pf
        /\ ref' = [ref EXCEPT ![g] = @ + 1]
    BY <1>5, <2>1, <2>2 DEF SysDup
  <2>4. \A f \in Files : Uses(f)' = Uses(f) - Hit(NoFile, f) + Hit(g, f)
    <3>1. \A f \in Files : Uses(f)' = Uses(f) - Hit(ofile[p][d], f) + Hit(g, f)
      BY <1>0, <2>3, DescriptorPut, ZenonT(40)
    <3>2. QED BY <2>1, <3>1
  <2>5. \A f \in Files : ref'[f] - ref[f] = Uses(f)' - Uses(f) /\ ref'[f] \in Int
    BY <1>1, <2>2, <2>3, <2>4 DEF Hit
  <2>6. QED BY <1>0, <2>5, CountsFollow
<1>6. CASE SysPipe(p) \/ PipeAlloc1(p)
  <2>1. PICK i \in 1..2 : /\ pf[p][i] = NoFile
                          /\ \E next : AllocFile(p, i, next)
    <3>1. SysPipe(p) => pf[p][1] = NoFile
      BY <1>0 DEF SysPipe, Running, Phases, Piping, Unclosed
    <3>2. PipeAlloc1(p) => pf[p][2] = NoFile
      BY <1>0 DEF PipeAlloc1, Phases, Unclosed
    <3>3. QED BY <1>6, <3>1, <3>2 DEF SysPipe, PipeAlloc1
  <2>2. ofile' = ofile
    BY <1>6 DEF SysPipe, PipeAlloc1
  <2>3. CASE FreeFiles = {}
    BY <1>2, <2>1, <2>2, <2>3 DEF AllocFile
  <2>4. CASE FreeFiles # {}
    <3>1. PICK g \in Files : g = FirstFree /\ ref[g] = 0
      BY <2>4, FirstFreeFound
    <3>2. ref' = [ref EXCEPT ![g] = 1] /\ pf' = [pf EXCEPT ![p][i] = g]
      BY <2>1, <2>4, <3>1 DEF AllocFile
    <3>3. \A f \in Files : Uses(f)' = Uses(f) - Hit(NoFile, f) + Hit(g, f)
      BY <1>0, <2>1, <2>2, <3>2, HeldPut
    <3>4. \A f \in Files : ref'[f] - ref[f] = Uses(f)' - Uses(f) /\ ref'[f] \in Int
      BY <1>1, <3>1, <3>2, <3>3 DEF Hit
    <3>5. QED BY <1>0, <3>4, CountsFollow
  <2>5. QED BY <2>3, <2>4
<1>7. CASE PipeAllocPage(p) /\ Cardinality(FreeFds(p)) >= 2
  <2>1. PICK d \in FreeFds(p), e \in FreeFds(p) :
          /\ d # e /\ d = Lowest(FreeFds(p)) /\ e = Lowest(FreeFds(p) \ {d})
    BY <1>7, TwoFree
  <2>2. d \in Fds /\ ofile[p][d] = NoFile /\ e \in Fds /\ ofile[p][e] = NoFile
    BY DEF FreeFds
  <2>3. PICK rf \in Files, wf \in Files : rf = pf[p][1] /\ wf = pf[p][2]
    <3>1. 1 \in Unclosed(p) /\ 2 \in Unclosed(p)
      BY <1>0, <1>7 DEF PipeAllocPage, Phases
    <3>2. QED BY <1>0, <3>1 DEF Unclosed, TypeInv
  <2>4. /\ ofile' = [ofile EXCEPT ![p][d] = rf, ![p][e] = wf]
        /\ pf' = [pf EXCEPT ![p] = <<NoFile, NoFile>>]
        /\ ref' = ref
    BY <1>7, <2>1, <2>3 DEF PipeAllocPage
  <2> DEFINE one  == [ofile EXCEPT ![p][d] = rf]
             half == [pf EXCEPT ![p][1] = NoFile]
  <2>5. /\ Puts(ofile, one, Fds, p, d, rf) /\ Puts(one, ofile', Fds, p, e, wf)
        /\ one[p][e] = NoFile
    BY <1>0, <2>1, <2>2, <2>4 DEF Puts, TypeInv
  <2>6. /\ Puts(pf, half, 1..2, p, 1, NoFile) /\ Puts(half, pf', 1..2, p, 2, NoFile)
        /\ half[p][2] = wf
    BY <1>0, <2>3, <2>4 DEF Puts, TypeInv
  <2> HIDE DEF one, half
  <2>7. ASSUME NEW f \in Files PROVE Uses(f)' = Uses(f)
    <3>1. /\ Cardinality(Slots(one, Fds, f))
               = Cardinality(Slots(ofile, Fds, f)) - Hit(NoFile, f) + Hit(rf, f)
          /\ Cardinality(Slots(ofile', Fds, f))
               = Cardinality(Slots(one, Fds, f)) - Hit(NoFile, f) + Hit(wf, f)
      BY <2>2, <2>5, Sizes, SlotPut
    <3>2. /\ Cardinality(Slots(half, 1..2, f))
               = Cardinality(Slots(pf, 1..2, f)) - Hit(rf, f) + Hit(NoFile, f)
          /\ Cardinality(Slots(pf', 1..2, f))
               = Cardinality(Slots(half, 1..2, f)) - Hit(wf, f) + Hit(NoFile, f)
      BY <2>3, <2>6, Sizes, SlotPut
    <3>3. Cardinality(Slots(ofile, Fds, f)) \in Nat /\ Cardinality(Slots(pf, 1..2, f)) \in Nat
      BY Sizes, SlotsFinite
    <3>4. Hit(NoFile, f) \in Nat /\ Hit(rf, f) \in Nat /\ Hit(wf, f) \in Nat
      BY DEF Hit
    <3>5. QED BY <3>1, <3>2, <3>3, <3>4 DEF Uses
  <2>8. \A f \in Files : ref'[f] - ref[f] = Uses(f)' - Uses(f) /\ ref'[f] \in Int
    BY <1>1, <2>4, <2>7
  <2>9. QED BY <1>0, <2>8, CountsFollow
<1>8. ASSUME NEW q \in Procs, Fork(p, q) PROVE CountsAre(Others)'
  <2>1. pc[q] = "unused"
    <3>1. \E r \in Procs : pc[r] = "unused"
      BY <1>8 DEF Fork, NoProcs
    <3>2. {r \in Procs : pc[r] = "unused"} \in SUBSET Nat /\ {r \in Procs : pc[r] = "unused"} # {}
      BY <3>1, PipeAssumption
    <3>3. NewProc \in {r \in Procs : pc[r] = "unused"}
      BY <3>2, LowestFound DEF NewProc
    <3>4. QED BY <1>8, <3>3 DEF Fork
  <2>2. \A fd \in Fds : ofile[q][fd] = NoFile
    BY <1>0, <2>1 DEF Phases, OpenFds
  <2>3. /\ ofile' = [ofile EXCEPT ![q] = ofile[p]] /\ pf' = pf
        /\ ref' = [f \in Files |-> ref[f] + Cardinality({fd \in Fds : ofile[p][fd] = f})]
    BY <1>8 DEF Fork, ForkFiles
  <2>4. Copies(ofile, ofile', Fds, p, q)
    BY <1>0, <2>3 DEF Copies, TypeInv
  <2>5. ASSUME NEW f \in Files
        PROVE  ref'[f] - ref[f] = Uses(f)' - Uses(f) /\ ref'[f] \in Int
    <3>1. Cardinality(Slots(ofile', Fds, f))
            = Cardinality(Slots(ofile, Fds, f)) + Cardinality({fd \in Fds : ofile[p][fd] = f})
      BY <1>1, <2>2, <2>4, Sizes, SlotCopy
    <3>2. Cardinality(Slots(ofile, Fds, f)) \in Nat /\ Cardinality(Slots(pf, 1..2, f)) \in Nat
      BY Sizes, SlotsFinite
    <3>3. Cardinality({fd \in Fds : ofile[p][fd] = f}) \in Nat
      <4>1. IsFiniteSet({fd \in Fds : ofile[p][fd] = f})
        BY Sizes, FS_Subset
      <4>2. QED BY <4>1, FS_CardinalityType
    <3>4. ref'[f] = ref[f] + Cardinality({fd \in Fds : ofile[p][fd] = f})
      BY <2>3
    <3>5. Uses(f)' = Cardinality(Slots(ofile', Fds, f)) + Cardinality(Slots(pf, 1..2, f))
      BY <2>3 DEF Uses
    <3>6. QED BY <1>1, <3>1, <3>2, <3>3, <3>4, <3>5 DEF Uses
  <2>6. QED BY <1>0, <2>5, CountsFollow
<1>9. CASE PipeClose(p) \/ (PipeAllocPage(p) /\ ~(Cardinality(FreeFds(p)) >= 2))
  BY <1>2, <1>9 DEF PipeClose, PipeAllocPage, fileVars
<1>10. CASE Quiet
  BY <1>2, <1>10 DEF Quiet, fileVars
<1>11. CASE \E fd \in Fds : SysClose(p, fd) \/ SysDup(p, fd)
  <2>1. PICK fd \in Fds : SysClose(p, fd) \/ SysDup(p, fd)
    BY <1>11
  <2>2. CASE SysClose(p, fd)
    BY <1>3, <1>10, <2>2, SysCloseSteps
  <2>3. CASE SysDup(p, fd)
    <3>1. pf' = pf
      BY <2>3 DEF SysDup
    <3>2. QED BY <1>2, <1>5, <2>3, <3>1
  <2>4. QED BY <2>1, <2>2, <2>3
<1>12. CASE SysExit(p) \/ ExitClose(p)
  BY <1>3, <1>10, <1>12, ExitSteps
<1>13. CASE \/ PipeNoPage(p) \/ PipeWrite(p) \/ PipeRead(p) \/ PipeSleep(p) \/ Kill(p)
            \/ \E fd \in Fds, k \in Nat : SysRead(p, fd, k) \/ SysWrite(p, fd, k)
  BY <1>10, <1>13, QuietSteps
<1>14. QED BY <1>4, <1>6, <1>7, <1>8, <1>9, <1>11, <1>12, <1>13 DEF KernelStep, InKernel

-----------------------------------------------------------------------------
(* Where a process is, and what it may have open there. *)

\* What fork finds in the process table.
LEMMA ForkTarget ==
  ASSUME NEW p \in Procs, NEW q \in Procs, Fork(p, q)
  PROVE  pc[q] = "unused" /\ pc[p] = "user"
<1>1. \E r \in Procs : pc[r] = "unused"
  BY DEF Fork, NoProcs
<1>2. {r \in Procs : pc[r] = "unused"} \in SUBSET Nat /\ {r \in Procs : pc[r] = "unused"} # {}
  BY <1>1, PipeAssumption
<1>3. NewProc \in {r \in Procs : pc[r] = "unused"}
  BY <1>2, LowestFound DEF NewProc
<1>4. QED BY <1>3 DEF Fork, Running

\* The steps that are not quiet, with the actions that are made of closes.
Changing(p) ==
  \/ FdClosed(p) \/ FileClose(p) \/ PipeClose(p)
  \/ \E fd \in Fds : SysDup(p, fd)
  \/ SysPipe(p) \/ PipeAlloc1(p) \/ PipeAllocPage(p)
  \/ \E q \in Procs : Fork(p, q)

LEMMA QuietOrChanging ==
  ASSUME Table, NEW p \in Procs, KernelStep(p)
  PROVE  Quiet \/ Changing(p)
<1>1. CASE \E fd \in Fds : SysClose(p, fd)
  BY <1>1, SysCloseSteps DEF Changing
<1>2. CASE SysExit(p) \/ ExitClose(p)
  BY <1>2, ExitSteps DEF Changing
<1>3. CASE \/ PipeNoPage(p) \/ PipeWrite(p) \/ PipeRead(p) \/ PipeSleep(p) \/ Kill(p)
           \/ \E fd \in Fds, k \in Nat : SysRead(p, fd, k) \/ SysWrite(p, fd, k)
  BY <1>3, QuietSteps
<1>4. QED BY <1>1, <1>2, <1>3 DEF KernelStep, InKernel, Changing

LEMMA PhasesKeep ==
  ASSUME Table, NEW p \in Procs, KernelStep(p)
  PROVE  Phases'
<1>0. TypeInv /\ CountsAre(Others) /\ Phases /\ Fresh
  BY DEF Table
<1>1. /\ pc \in [Procs -> Places] /\ ff \in [Procs -> (Ends \X Pages) \cup {None}]
      /\ ofile \in [Procs -> [Fds -> Files \cup {NoFile}]]
      /\ pf \in [Procs -> [1..2 -> Files \cup {NoFile}]]
  BY <1>0 DEF TypeInv
\* Phases, of one process.
<1> DEFINE Fine(q) ==
      /\ pc[q] \notin Piping \cup {"closing"} => Unclosed(q) = {}
      /\ pc[q] = "pipe1" => Unclosed(q) = {1}
      /\ pc[q] = "pipe2" => Unclosed(q) = {1, 2}
      /\ pc[q] = "closing" /\ ff[q] = None => Unclosed(q) # {}
      /\ pc[q] = "exiting" /\ ff[q] = None => OpenFds(q) # {}
      /\ ff[q] # None => pc[q] \in {"closing", "exiting"}
      /\ pc[q] = "unused" => OpenFds(q) = {}
<1>2. \A q \in Procs : Fine(q)
  BY <1>0 DEF Phases
<1>3. SUFFICES \A q \in Procs : Fine(q)'
  BY DEF Phases
<1>4. ASSUME NEW q \in Procs, pc'[q] = pc[q], ff'[q] = ff[q], ofile'[q] = ofile[q], pf'[q] = pf[q]
      PROVE  Fine(q)'
  BY <1>2, <1>4 DEF Unclosed, OpenFds
<1>5. CASE Quiet
  <2>1. ASSUME NEW q \in Procs PROVE Fine(q)'
    <3>1. Moves(q) /\ ff'[q] = ff[q] /\ Unclosed(q)' = Unclosed(q) /\ OpenFds(q)' = OpenFds(q)
      BY <1>5 DEF Quiet, Unclosed, OpenFds
    <3>2. QED BY <1>2, <3>1 DEF Moves, Calm, Reading, Writing, Piping
  <2>2. QED BY <2>1
<1>6. CASE FdClosed(p)
  <2>1. PICK fd \in OpenFds(p) : \/ pc[p] = "user" /\ CloseFd(p, fd, "closing", FALSE)
                                 \/ CloseFd(p, fd, "exiting", OpenFds(p) # {fd})
    BY <1>6 DEF FdClosed
  <2>2. /\ pc[p] \in {"user", "exiting"} /\ ff[p] = None /\ pf' = pf
        /\ ofile' = [ofile EXCEPT ![p][fd] = NoFile]
    BY <1>6, <2>1 DEF FdClosed, CloseFd
  <2>3. fd \in Fds /\ OpenFds(p)' = OpenFds(p) \ {fd} /\ Unclosed(p)' = {}
    BY <1>1, <1>2, <2>2 DEF OpenFds, Unclosed, Piping
  <2>4. \/ pc[p] = "user" /\ Close(p, ofile[p][fd], "closing", FALSE)
        \/ Close(p, ofile[p][fd], "exiting", OpenFds(p) # {fd})
    BY <2>1 DEF CloseFd
  <2>5. \A q \in Procs : q # p => pc'[q] = pc[q] /\ ff'[q] = ff[q]
    BY <1>1, <2>4 DEF Close, Goto
  <2>6. \A q \in Procs : q # p => ofile'[q] = ofile[q] /\ pf'[q] = pf[q]
    BY <1>1, <2>2
  <2>7. Fine(p)'
    <3>1. \/ ff'[p] = <<kind[ofile[p][fd]], fpage[ofile[p][fd]]>> /\ pc'[p] \in {"closing", "exiting"}
             /\ kind[ofile[p][fd]] \in Ends
          \/ ff'[p] = ff[p] /\ pc'[p] = Place("closing", FALSE)
          \/ ff'[p] = ff[p] /\ pc'[p] = Place("exiting", OpenFds(p) # {fd})
      BY <1>1, <2>4 DEF Close, Goto, Ends
    <3>2. CASE ff'[p] = ff[p] /\ pc'[p] = Place("closing", FALSE)
      BY <2>2, <2>3, <3>2 DEF Place, Piping
    <3>3. CASE ff'[p] = ff[p] /\ pc'[p] = Place("exiting", OpenFds(p) # {fd})
      <4>1. OpenFds(p) # {fd} => OpenFds(p)' # {}
        BY <2>3
      <4>2. QED BY <2>2, <2>3, <3>3, <4>1 DEF Place, Piping
    <3>4. CASE ff'[p] = <<kind[ofile[p][fd]], fpage[ofile[p][fd]]>> /\ pc'[p] \in {"closing", "exiting"}
               /\ kind[ofile[p][fd]] \in Ends
      <4>1. ofile[p][fd] \in Files
        BY <1>1, <2>3 DEF OpenFds
      <4>2. ff'[p] \in Ends \X Pages
        BY <1>0, <3>4, <4>1 DEF Fresh
      <4>3. ff'[p] # None
        BY <4>2, PipeAssumption DEF Ends
      <4>4. QED BY <2>3, <3>4, <4>3 DEF Piping
    <3>5. QED BY <3>1, <3>2, <3>3, <3>4
  <2>8. QED BY <1>4, <2>5, <2>6, <2>7
<1>7. CASE FileClose(p)
  <2>1. PICK i \in Unclosed(p) : /\ Close(p, pf[p][i], "closing", Unclosed(p) # {i})
                                 /\ pf' = [pf EXCEPT ![p][i] = NoFile]
    <3>1. Unclosed(p) # {}
      BY <1>2, <1>7 DEF FileClose
    <3>2. QED BY <1>7, <3>1, UnclosedFound DEF FileClose
  <2>2. i \in 1..2 /\ pf[p][i] \in Files /\ Unclosed(p)' = Unclosed(p) \ {i}
    BY <1>1, <2>1 DEF Unclosed
  <2>3. pc[p] = "closing" /\ ff[p] = None /\ ofile' = ofile
    BY <1>7 DEF FileClose
  <2>4. \A q \in Procs : q # p => /\ pc'[q] = pc[q] /\ ff'[q] = ff[q]
                                  /\ ofile'[q] = ofile[q] /\ pf'[q] = pf[q]
    BY <1>1, <2>1, <2>3 DEF Close, Goto
  <2>5. \/ ff'[p] = <<kind[pf[p][i]], fpage[pf[p][i]]>> /\ pc'[p] = "closing"
           /\ kind[pf[p][i]] \in Ends
        \/ ff'[p] = None /\ pc'[p] = Place("closing", Unclosed(p) # {i})
    BY <1>1, <2>1, <2>3 DEF Close, Goto, Ends
  <2>6. CASE ff'[p] = None /\ pc'[p] = Place("closing", Unclosed(p) # {i})
    <3>1. Unclosed(p) # {i} <=> Unclosed(p)' # {}
      BY <2>1, <2>2
    <3>2. Fine(p)'
      BY <2>6, <3>1 DEF Place, Piping
    <3>3. QED BY <1>4, <2>4, <3>2
  <2>7. CASE ff'[p] = <<kind[pf[p][i]], fpage[pf[p][i]]>> /\ pc'[p] = "closing"
             /\ kind[pf[p][i]] \in Ends
    <3>1. ff'[p] \in Ends \X Pages
      BY <1>0, <2>2, <2>7 DEF Fresh
    <3>2. ff'[p] # None
      BY <3>1, PipeAssumption DEF Ends
    <3>3. Fine(p)'
      BY <2>7, <3>2 DEF Piping
    <3>4. QED BY <1>4, <2>4, <3>3
  <2>8. QED BY <2>5, <2>6, <2>7
<1>8. CASE PipeClose(p)
  <2>1. /\ pc[p] \in {"closing", "exiting"} /\ ff' = [ff EXCEPT ![p] = None]
        /\ UNCHANGED <<ofile, pf>>
    BY <1>2, <1>8 DEF PipeClose
  <2>2. PICK S \in {AsleepReading(ff[p][2]), AsleepWriting(ff[p][2])}, more \in BOOLEAN :
          /\ WakeAndGoto(S, p, Place(pc[p], more))
          /\ more = IF pc[p] = "exiting" THEN OpenFds(p) # {} ELSE Unclosed(p) # {}
    BY <1>8 DEF PipeClose
  <2>3. \A q \in S : pc[q] \in {"rsleep", "wsleep"}
    BY <2>2 DEF AsleepReading, AsleepWriting, Sleepers
  <2>4. /\ pc'[p] = Place(pc[p], more) /\ ff'[p] = None
        /\ \A q \in Procs : q # p => /\ ff'[q] = ff[q]
                                     /\ \/ pc'[q] = pc[q]
                                        \/ pc[q] \in Calm /\ pc'[q] \in Calm
    BY <1>1, <2>1, <2>2, <2>3 DEF WakeAndGoto, Calm, Reading, Writing
  <2>5. \A q \in Procs : Unclosed(q)' = Unclosed(q) /\ OpenFds(q)' = OpenFds(q)
    BY <2>1 DEF Unclosed, OpenFds
  <2>6. Fine(p)'
    BY <1>2, <2>1, <2>2, <2>4, <2>5 DEF Place, Piping
  <2>7. ASSUME NEW q \in Procs, q # p PROVE Fine(q)'
    BY <1>2, <2>4, <2>5, <2>7 DEF Calm, Reading, Writing, Piping
  <2>8. QED BY <2>6, <2>7
<1>9. ASSUME NEW fd \in Fds, SysDup(p, fd) PROVE \A q \in Procs : Fine(q)'
  <2>1. pc' = pc /\ ff' = ff /\ pf' = pf /\ pc[p] = "user"
    BY <1>9 DEF SysDup, Running
  <2>2. \A q \in Procs : q # p => ofile'[q] = ofile[q]
    BY <1>1, <1>9 DEF SysDup
  <2>3. Fine(p)'
    BY <1>2, <2>1 DEF Unclosed, Piping
  <2>4. QED BY <1>4, <2>1, <2>2, <2>3
<1>10. CASE SysPipe(p) \/ PipeAlloc1(p)
  <2>1. PICK i \in 1..2, next \in Piping :
          /\ AllocFile(p, i, next) /\ Unclosed(p) = 1..(i - 1) /\ ff[p] = None
          /\ next = IF i = 1 THEN "pipe1" ELSE "pipe2"
    <3>1. SysPipe(p) => AllocFile(p, 1, "pipe1") /\ Unclosed(p) = 1..(1 - 1) /\ ff[p] = None
      BY <1>2 DEF SysPipe, Running, Piping
    <3>2. PipeAlloc1(p) => AllocFile(p, 2, "pipe2") /\ Unclosed(p) = 1..(2 - 1) /\ ff[p] = None
      BY <1>2 DEF PipeAlloc1
    <3>3. QED BY <1>10, <3>1, <3>2 DEF Piping
  <2>2. ff' = ff /\ ofile' = ofile
    BY <1>10 DEF SysPipe, PipeAlloc1
  <2>3. CASE FreeFiles = {}
    <3>1. pf' = pf /\ Goto(p, Place("closing", Unclosed(p) # {}))
      BY <2>1, <2>3 DEF AllocFile
    <3>2. Fine(p)'
      BY <1>1, <2>1, <2>2, <3>1 DEF Goto, Place, Unclosed, Piping
    <3>3. QED BY <1>1, <1>4, <2>2, <3>1, <3>2 DEF Goto
  <2>4. CASE FreeFiles # {}
    <3>1. pf' = [pf EXCEPT ![p][i] = FirstFree] /\ Goto(p, next) /\ FirstFree \in Files
      BY <2>1, <2>4, FirstFreeFound DEF AllocFile
    <3>2. Unclosed(p)' = 1..i
      BY <1>1, <2>1, <3>1, Sizes DEF Unclosed
    <3>3. Fine(p)'
      BY <1>1, <2>1, <2>2, <3>1, <3>2 DEF Goto, Piping
    <3>4. QED BY <1>1, <1>4, <2>2, <3>1, <3>3 DEF Goto
  <2>5. QED BY <2>3, <2>4
<1>11. CASE PipeAllocPage(p)
  <2>1. pc[p] = "pipe2" /\ ff' = ff /\ ff[p] = None
    BY <1>2, <1>11 DEF PipeAllocPage
  <2> DEFINE fd0 == Lowest(FreeFds(p))
             fd1 == Lowest(FreeFds(p) \ {fd0})
  <2>2. \/ /\ pf' = [pf EXCEPT ![p] = <<NoFile, NoFile>>] /\ Goto(p, "user")
           /\ ofile' = [ofile EXCEPT ![p][fd0] = pf[p][1], ![p][fd1] = pf[p][2]]
        \/ UNCHANGED <<ofile, pf>> /\ Goto(p, "closing")
    BY <1>11 DEF PipeAllocPage
  <2> HIDE DEF fd0, fd1
  <2>3. Fine(p)'
    BY <1>1, <1>2, <2>1, <2>2 DEF Goto, Unclosed, Piping
  <2>4. QED BY <1>1, <1>4, <2>1, <2>2, <2>3 DEF Goto
<1>12. ASSUME NEW q \in Procs, Fork(p, q) PROVE \A r \in Procs : Fine(r)'
  <2>1. pc[q] = "unused"
    BY <1>12, ForkTarget
  <2>2. ff' = ff /\ pf' = pf /\ Goto(q, "user") /\ ofile' = [ofile EXCEPT ![q] = ofile[p]]
    BY <1>12 DEF Fork, ForkFiles
  <2>3. Fine(q)'
    BY <1>1, <1>2, <2>1, <2>2 DEF Goto, Unclosed, Piping
  <2>4. QED BY <1>1, <1>4, <2>2, <2>3 DEF Goto
<1>13. QED BY <1>5, <1>6, <1>7, <1>8, <1>9, <1>10, <1>11, <1>12, QuietOrChanging DEF Changing

-----------------------------------------------------------------------------
(* Files and the ends of pipes. *)

\* What fileclose does to the table, whoever calls it.
Closed(p, g) ==
  /\ ref[g] > 0 /\ ref' = [ref EXCEPT ![g] = @ - 1]
  /\ kind' = [kind EXCEPT ![g] = IF ref[g] = 1 THEN "none" ELSE @]
  /\ fpage' = fpage
  /\ ff[p] = None
  /\ ff' = [ff EXCEPT ![p] = IF ref[g] = 1 /\ kind[g] \in Ends
                             THEN <<kind[g], fpage[g]>> ELSE @]
  /\ \A q \in Procs, i \in 1..2 :
       pf'[q][i] # NoFile => pf'[q][i] = pf[q][i] /\ pf[q][i] # g
  /\ \A q \in Procs : q # p => ofile'[q] = ofile[q] /\ pc'[q] = pc[q]
  /\ pc'[p] \in {"user", "closing", "exiting", "zombie"}
  /\ UNCHANGED <<page, want, killed, pipeVars>>

LEMMA ClosedEntry ==
  ASSUME TypeInv, NEW p \in Procs, NEW g \in Files, ref[g] > 0, ff[p] = None,
         NEW place \in {"closing", "exiting"}, NEW more, Close(p, g, place, more)
  PROVE  /\ ref' = [ref EXCEPT ![g] = @ - 1]
         /\ kind' = [kind EXCEPT ![g] = IF ref[g] = 1 THEN "none" ELSE @]
         /\ fpage' = fpage
         /\ ff' = [ff EXCEPT ![p] = IF ref[g] = 1 /\ kind[g] \in Ends
                                    THEN <<kind[g], fpage[g]>> ELSE @]
         /\ \A q \in Procs : q # p => pc'[q] = pc[q]
         /\ pc'[p] \in {"user", "closing", "exiting", "zombie"}
<1>1. ref' = [ref EXCEPT ![g] = @ - 1] /\ fpage' = fpage
  BY DEF Close
<1>2. ref'[g] = ref[g] - 1 /\ ref[g] \in Nat
  BY <1>1 DEF TypeInv
<1>3. kind' = [kind EXCEPT ![g] = IF ref[g] = 1 THEN "none" ELSE @]
  <2>1. kind = [kind EXCEPT ![g] = kind[g]]
    BY DEF TypeInv
  <2>2. kind' = IF ref'[g] = 0 THEN [kind EXCEPT ![g] = "none"] ELSE kind
    BY DEF Close
  <2>3. ref'[g] = 0 <=> ref[g] = 1
    BY <1>2
  <2>4. QED BY <2>1, <2>2, <2>3
<1>4. ff' = [ff EXCEPT ![p] = IF ref[g] = 1 /\ kind[g] \in Ends
                              THEN <<kind[g], fpage[g]>> ELSE @]
  BY DEF Close, LastClose, Ends, TypeInv
<1>5. Goto(p, place) \/ Goto(p, Place(place, more))
  BY DEF Close
<1>6. /\ \A q \in Procs : q # p => pc'[q] = pc[q]
      /\ pc'[p] \in {"user", "closing", "exiting", "zombie"}
  BY <1>5 DEF Goto, Place, TypeInv
<1>7. QED BY <1>1, <1>3, <1>4, <1>6

LEMMA ClosedSteps ==
  ASSUME Table, NEW p \in Procs, FdClosed(p) \/ FileClose(p)
  PROVE  \E g \in Files : Closed(p, g)
<1>0. TypeInv /\ CountsAre(Others) /\ Phases /\ Fresh
  BY DEF Table
<1>1. CASE FdClosed(p)
  <2>1. PICK fd \in OpenFds(p), place \in {"closing", "exiting"}, more \in BOOLEAN :
          CloseFd(p, fd, place, more)
    BY <1>1 DEF FdClosed
  <2>2. fd \in Fds /\ ofile[p][fd] # NoFile
    BY DEF OpenFds
  <2>3. PICK g \in Files : g = ofile[p][fd] /\ ref[g] > 0
    BY <1>0, <2>2, DescriptorCounted
  <2>4. Close(p, g, place, more) /\ ofile' = [ofile EXCEPT ![p][fd] = NoFile] /\ pf' = pf
    BY <1>1, <2>1, <2>3 DEF CloseFd, FdClosed
  <2>5. ASSUME NEW q \in Procs, NEW i \in 1..2, pf[q][i] # NoFile PROVE pf[q][i] # g
    <3>1. ref[pf[q][i]] = 1
      BY <1>0, <2>5 DEF Fresh
    <3>2. QED BY <1>0, <2>2, <2>3, <2>5, <3>1, HeldAlone
  <2>6. ff[p] = None /\ UNCHANGED <<page, want, killed, pipeVars>>
    BY <1>1 DEF FdClosed
  <2>7. \A q \in Procs : q # p => ofile'[q] = ofile[q]
    BY <1>0, <2>4 DEF TypeInv
  <2>8. Closed(p, g)
    BY <1>0, <2>3, <2>4, <2>5, <2>6, <2>7, ClosedEntry DEF Closed
  <2>9. QED BY <2>8
<1>2. CASE FileClose(p)
  <2>1. PICK i \in 1..2 : /\ Close(p, pf[p][i], "closing", Unclosed(p) # {i})
                          /\ pf' = [pf EXCEPT ![p][i] = NoFile]
                          /\ pf[p][i] # NoFile
    <3>1. Unclosed(p) # {}
      BY <1>0, <1>2 DEF FileClose, Phases
    <3>2. QED BY <1>2, <3>1, UnclosedFound DEF FileClose, Unclosed
  <2>2. PICK g \in Files : g = pf[p][i] /\ ref[g] = 1
    BY <1>0, <2>1 DEF Fresh, TypeInv
  <2>3. ASSUME NEW q \in Procs, NEW j \in 1..2, pf'[q][j] # NoFile
        PROVE  pf'[q][j] = pf[q][j] /\ pf[q][j] # g
    <3>1. pf'[q][j] = pf[q][j] /\ ~(q = p /\ j = i)
      BY <1>0, <2>1, <2>3 DEF TypeInv
    <3>2. QED BY <1>0, <2>1, <2>2, <3>1, HeldAlone
  <2>4. ff[p] = None /\ UNCHANGED <<ofile, page, want, killed, pipeVars>>
    BY <1>2 DEF FileClose
  <2>5. Closed(p, g)
    <3>1. Close(p, g, "closing", Unclosed(p) # {i}) /\ ref[g] > 0
      BY <2>1, <2>2
    <3>2. QED BY <1>0, <2>2, <2>3, <2>4, <3>1, ClosedEntry DEF Closed
  <2>6. QED BY <2>5
<1>3. QED BY <1>1, <1>2

\* What the end of pipe() does: two files that only it knows become the ends
\* of a page that was free.
Opened(p, rf, wf, pg) ==
  /\ rf # wf /\ kind[rf] = "none" /\ kind[wf] = "none" /\ ref[rf] = 1 /\ ref[wf] = 1
  /\ pg \notin live /\ live' = live \cup {pg}
  /\ readopen' = [readopen EXCEPT ![pg] = TRUE]
  /\ writeopen' = [writeopen EXCEPT ![pg] = TRUE]
  /\ nread' = [nread EXCEPT ![pg] = 0] /\ nwrite' = [nwrite EXCEPT ![pg] = 0]
  /\ kind' = [kind EXCEPT ![rf] = "reader", ![wf] = "writer"]
  /\ fpage' = [fpage EXCEPT ![rf] = pg, ![wf] = pg]
  /\ \A q \in Procs, i \in 1..2 :
       pf'[q][i] # NoFile => /\ pf'[q][i] = pf[q][i]
                             /\ q # p => pf[q][i] \notin {rf, wf}
  /\ \A q \in Procs, fd \in Fds : ofile[q][fd] \notin {rf, wf}
  /\ \A q \in Procs : q # p => ofile'[q] = ofile[q] /\ pc'[q] = pc[q]
  /\ pc[p] = "pipe2" /\ pc'[p] \in {"user", "closing"}
  /\ UNCHANGED <<ref, ff, page, want, killed, lock>>

LEMMA OpenedSteps ==
  ASSUME Table, NEW p \in Procs, PipeAllocPage(p)
  PROVE  \E rf, wf \in Files, pg \in Pages : Opened(p, rf, wf, pg)
<1>0. TypeInv /\ CountsAre(Others) /\ Phases /\ Fresh
  BY DEF Table
<1>1. pc[p] = "pipe2" /\ pf[p][1] # NoFile /\ pf[p][2] # NoFile
  <2>1. pc[p] = "pipe2"
    BY DEF PipeAllocPage
  <2>2. 1 \in Unclosed(p) /\ 2 \in Unclosed(p)
    BY <1>0, <2>1 DEF Phases
  <2>3. QED BY <2>1, <2>2 DEF Unclosed
<1>2. PICK rf \in Files, wf \in Files :
        /\ rf = pf[p][1] /\ wf = pf[p][2]
        /\ kind[rf] = "none" /\ kind[wf] = "none" /\ ref[rf] = 1 /\ ref[wf] = 1
  BY <1>0, <1>1 DEF Fresh, TypeInv, Piping
<1>3. /\ rf # wf
      /\ \A q \in Procs, fd \in Fds : ofile[q][fd] \notin {rf, wf}
      /\ \A q \in Procs, i \in 1..2 : q # p => pf[q][i] \notin {rf, wf}
  <2>1. 1 \in 1..2 /\ 2 \in 1..2
    OBVIOUS
  <2>2. /\ \A q \in Procs, fd \in Fds : ofile[q][fd] # rf
        /\ \A q \in Procs, j \in 1..2 : pf[q][j] = rf => q = p /\ j = 1
    BY <1>0, <1>1, <1>2, <2>1, HeldAlone
  <2>3. /\ \A q \in Procs, fd \in Fds : ofile[q][fd] # wf
        /\ \A q \in Procs, j \in 1..2 : pf[q][j] = wf => q = p /\ j = 2
    BY <1>0, <1>1, <1>2, <2>1, HeldAlone
  <2>4. QED BY <1>2, <2>1, <2>2, <2>3
<1>4. PICK pg \in Pages \ live :
        /\ live' = live \cup {pg}
        /\ readopen' = [readopen EXCEPT ![pg] = TRUE]
        /\ writeopen' = [writeopen EXCEPT ![pg] = TRUE]
        /\ nread' = [nread EXCEPT ![pg] = 0] /\ nwrite' = [nwrite EXCEPT ![pg] = 0]
        /\ kind' = [kind EXCEPT ![rf] = "reader", ![wf] = "writer"]
        /\ fpage' = [fpage EXCEPT ![rf] = pg, ![wf] = pg]
  BY <1>2 DEF PipeAllocPage
<1> DEFINE fd0 == Lowest(FreeFds(p))
           fd1 == Lowest(FreeFds(p) \ {fd0})
<1>5. \/ /\ pf' = [pf EXCEPT ![p] = <<NoFile, NoFile>>] /\ Goto(p, "user")
         /\ ofile' = [ofile EXCEPT ![p][fd0] = pf[p][1], ![p][fd1] = pf[p][2]]
      \/ UNCHANGED <<ofile, pf>> /\ Goto(p, "closing")
  BY DEF PipeAllocPage
<1> HIDE DEF fd0, fd1
<1>6. /\ \A q \in Procs : q # p => ofile'[q] = ofile[q] /\ pc'[q] = pc[q]
      /\ pc'[p] \in {"user", "closing"}
  BY <1>0, <1>5 DEF TypeInv, Goto
<1>7. \A q \in Procs, i \in 1..2 : pf'[q][i] # NoFile => pf'[q][i] = pf[q][i]
  <2>1. CASE pf' = [pf EXCEPT ![p] = <<NoFile, NoFile>>]
    <3>1. \A i \in 1..2 : <<NoFile, NoFile>>[i] = NoFile
      OBVIOUS
    <3>2. \A q \in Procs : pf'[q] = IF q = p THEN <<NoFile, NoFile>> ELSE pf[q]
      BY <1>0, <2>1 DEF TypeInv
    <3>3. QED BY <3>1, <3>2
  <2>2. QED BY <1>5, <2>1
<1>8. UNCHANGED <<ref, ff, page, want, killed, lock>>
  BY DEF PipeAllocPage
<1>9. Opened(p, rf, wf, pg)
  BY <1>1, <1>2, <1>3, <1>4, <1>6, <1>7, <1>8 DEF Opened
<1>10. QED BY <1>9

LEMMA FreshKeeps ==
  ASSUME Table, NEW p \in Procs, KernelStep(p)
  PROVE  Fresh'
<1>0. TypeInv /\ CountsAre(Others) /\ Phases /\ Fresh
  BY DEF Table
<1>1. /\ \A f \in Files : ref[f] \in Nat /\ (ref[f] = 0 => kind[f] = "none")
                          /\ (kind[f] \in Ends => fpage[f] \in Pages)
      /\ \A q \in Procs, i \in 1..2 :
           pf[q][i] # NoFile => /\ ref[pf[q][i]] = 1 /\ pf[q][i] \in Files
                                /\ pc[q] \in Piping => kind[pf[q][i]] = "none"
      /\ kind \in [Files -> Kinds] /\ ref \in [Files -> Nat] /\ fpage \in [Files -> Pages \cup {None}]
      /\ pc \in [Procs -> Places]
  BY <1>0 DEF Fresh, TypeInv
<1>2. CASE Quiet
  <2>1. \A q \in Procs : pc'[q] \in Piping => pc[q] \in Piping
    BY <1>2 DEF Quiet, Moves, Calm, Reading, Writing, Piping
  <2>2. QED BY <1>1, <1>2, <2>1 DEF Quiet, fileVars, Fresh
<1>3. CASE FdClosed(p) \/ FileClose(p)
  <2>1. PICK g \in Files : Closed(p, g)
    BY <1>3, ClosedSteps
  <2>2. /\ \A f \in Files : ref'[f] = IF f = g THEN ref[f] - 1 ELSE ref[f]
        /\ \A f \in Files : kind'[f] = IF f = g /\ ref[g] = 1 THEN "none" ELSE kind[f]
        /\ fpage' = fpage
    BY <1>1, <2>1 DEF Closed
  <2>3. \A q \in Procs : pc'[q] \in Piping => pc[q] = pc'[q]
    BY <2>1 DEF Closed, Piping
  <2>4. ASSUME NEW f \in Files
        PROVE  (ref'[f] = 0 => kind'[f] = "none") /\ (kind'[f] \in Ends => fpage'[f] \in Pages)
    BY <1>1, <2>2 DEF Ends
  <2>5. ASSUME NEW q \in Procs, NEW i \in 1..2, pf'[q][i] # NoFile
        PROVE  ref'[pf'[q][i]] = 1 /\ (pc'[q] \in Piping => kind'[pf'[q][i]] = "none")
    <3>1. pf'[q][i] = pf[q][i] /\ pf[q][i] # g
      BY <2>1, <2>5 DEF Closed
    <3>2. QED BY <1>1, <2>2, <2>3, <2>5, <3>1
  <2>6. QED BY <2>4, <2>5 DEF Fresh
<1>4. CASE PipeClose(p)
  <2>1. UNCHANGED <<fileVars, pf>>
    BY <1>4 DEF PipeClose
  <2>2. PICK S \in {AsleepReading(ff[p][2]), AsleepWriting(ff[p][2])}, more \in BOOLEAN :
          WakeAndGoto(S, p, Place(pc[p], more))
    BY <1>4 DEF PipeClose
  <2>3. pc[p] \in {"closing", "exiting"}
    BY <1>0, <1>4 DEF PipeClose, Phases
  <2>4. \A q \in Procs : pc'[q] \in Piping => pc[q] \in Piping
    BY <1>1, <2>2, <2>3 DEF WakeAndGoto, Place, Piping
  <2>5. QED BY <1>1, <2>1, <2>4 DEF fileVars, Fresh
<1>5. ASSUME NEW fd \in Fds, SysDup(p, fd) PROVE Fresh'
  <2>1. UNCHANGED <<kind, fpage, pf, pc>>
    BY <1>5 DEF SysDup
  <2>2. CASE ref' = ref
    BY <1>1, <2>1, <2>2 DEF Fresh
  <2>3. CASE ref' = [ref EXCEPT ![ofile[p][fd]] = @ + 1] /\ ofile[p][fd] # NoFile
    <3>1. PICK g \in Files : g = ofile[p][fd] /\ ref[g] > 0
      BY <1>0, <2>3, DescriptorCounted
    <3>2. \A f \in Files : ref'[f] = IF f = g THEN ref[f] + 1 ELSE ref[f]
      BY <1>1, <2>3, <3>1
    <3>3. ASSUME NEW q \in Procs, NEW i \in 1..2, pf[q][i] # NoFile PROVE pf[q][i] # g
      BY <1>0, <1>1, <3>1, <3>3, HeldAlone
    <3>4. QED BY <1>1, <2>1, <3>1, <3>2, <3>3 DEF Fresh
  <2>4. QED BY <1>5, <2>2, <2>3 DEF SysDup
<1>6. CASE SysPipe(p) \/ PipeAlloc1(p)
  <2>1. PICK i \in 1..2, next \in Piping : AllocFile(p, i, next) /\ (pc[p] \in Piping \/ i = 1)
    BY <1>6 DEF SysPipe, PipeAlloc1, Piping
  <2>2. UNCHANGED <<kind, fpage>>
    BY <1>6 DEF SysPipe, PipeAlloc1
  <2>3. CASE FreeFiles = {}
    <3>1. UNCHANGED <<ref, pf>> /\ Goto(p, Place("closing", Unclosed(p) # {}))
      BY <2>1, <2>3 DEF AllocFile
    <3>2. \A q \in Procs : pc'[q] \in Piping => pc[q] \in Piping
      BY <1>1, <3>1 DEF Goto, Place, Piping
    <3>3. QED BY <1>1, <2>2, <3>1, <3>2 DEF Fresh
  <2>4. CASE FreeFiles # {}
    <3>1. PICK g \in Files : g = FirstFree /\ ref[g] = 0
      BY <2>4, FirstFreeFound
    <3>2. ref' = [ref EXCEPT ![g] = 1] /\ pf' = [pf EXCEPT ![p][i] = g] /\ Goto(p, next)
      BY <2>1, <2>4, <3>1 DEF AllocFile
    <3>3. /\ \A f \in Files : ref'[f] = IF f = g THEN 1 ELSE ref[f]
          /\ \A q \in Procs, j \in 1..2 : pf'[q][j] = IF q = p /\ j = i THEN g ELSE pf[q][j]
          /\ \A q \in Procs : q # p => pc'[q] = pc[q]
      BY <1>0, <1>1, <3>2 DEF TypeInv, Goto
    <3>4. pc[p] \notin Piping => \A j \in 1..2 : pf[p][j] = NoFile \/ pc[p] = "closing"
      BY <1>0 DEF Phases, Unclosed
    <3>5. pc[p] # "closing"
      BY <1>6 DEF SysPipe, PipeAlloc1, Running
    <3>6. ASSUME NEW q \in Procs, NEW j \in 1..2, pf'[q][j] # NoFile
          PROVE  ref'[pf'[q][j]] = 1 /\ (pc'[q] \in Piping => kind[pf'[q][j]] = "none")
      <4>1. CASE q = p /\ j = i
        BY <1>1, <3>1, <3>3, <4>1
      <4>2. CASE ~(q = p /\ j = i)
        <5>1. pf'[q][j] = pf[q][j] /\ pf[q][j] # g /\ ref[pf[q][j]] = 1 /\ pf[q][j] \in Files
          BY <1>1, <3>1, <3>3, <3>6, <4>2
        <5>2. pc'[q] \in Piping => pc[q] \in Piping
          BY <3>3, <3>4, <3>5, <3>6, <5>1
        <5>3. QED BY <1>1, <3>3, <3>6, <5>1, <5>2
      <4>3. QED BY <4>1, <4>2
    <3>7. QED BY <1>1, <2>2, <3>3, <3>6 DEF Fresh
  <2>5. QED BY <2>3, <2>4
<1>7. CASE PipeAllocPage(p)
  <2>1. PICK rf \in Files, wf \in Files, pg \in Pages : Opened(p, rf, wf, pg)
    BY <1>7, OpenedSteps
  <2>2. /\ ref' = ref
        /\ \A f \in Files : kind'[f] = IF f = wf THEN "writer" ELSE IF f = rf THEN "reader" ELSE kind[f]
        /\ \A f \in Files : fpage'[f] = IF f \in {rf, wf} THEN pg ELSE fpage[f]
    BY <1>1, <2>1 DEF Opened
  <2>3. ASSUME NEW f \in Files
        PROVE  (ref'[f] = 0 => kind'[f] = "none") /\ (kind'[f] \in Ends => fpage'[f] \in Pages)
    BY <1>1, <2>1, <2>2 DEF Opened
  <2>4. ASSUME NEW q \in Procs, NEW i \in 1..2, pf'[q][i] # NoFile
        PROVE  ref'[pf'[q][i]] = 1 /\ (pc'[q] \in Piping => kind'[pf'[q][i]] = "none")
    <3>1. pf'[q][i] = pf[q][i] /\ (q # p => pf[q][i] \notin {rf, wf} /\ pc'[q] = pc[q])
      BY <2>1, <2>4 DEF Opened
    <3>2. pc'[p] \notin Piping
      BY <2>1 DEF Opened, Piping
    <3>3. QED BY <1>1, <2>2, <2>4, <3>1, <3>2
  <2>5. QED BY <2>3, <2>4 DEF Fresh
<1>8. ASSUME NEW q \in Procs, Fork(p, q) PROVE Fresh'
  <2>1. UNCHANGED <<kind, fpage, pf>> /\ Goto(q, "user")
        /\ ref' = [f \in Files |-> ref[f] + Cardinality({fd \in Fds : ofile[p][fd] = f})]
    BY <1>8 DEF Fork, ForkFiles
  <2>2. ASSUME NEW f \in Files
        PROVE  Cardinality({fd \in Fds : ofile[p][fd] = f}) \in Nat
    <3>1. IsFiniteSet({fd \in Fds : ofile[p][fd] = f})
      BY Sizes, FS_Subset
    <3>2. QED BY <3>1, FS_CardinalityType
  <2>3. ASSUME NEW f \in Files, ref'[f] = 0 PROVE ref[f] = 0
    <3>1. ref'[f] = ref[f] + Cardinality({fd \in Fds : ofile[p][fd] = f}) /\ ref[f] \in Nat
      BY <1>1, <2>1
    <3>2. QED BY <2>2, <2>3, <3>1
  <2>4. ASSUME NEW r \in Procs, NEW i \in 1..2, pf[r][i] # NoFile PROVE ref'[pf[r][i]] = 1
    <3>1. ref[pf[r][i]] = 1 /\ pf[r][i] \in Files
      BY <1>1, <2>4
    <3>2. {fd \in Fds : ofile[p][fd] = pf[r][i]} = {}
      BY <1>0, <2>4, <3>1, HeldAlone
    <3>3. Cardinality({fd \in Fds : ofile[p][fd] = pf[r][i]}) = 0
      BY <3>2, FS_EmptySet
    <3>4. ref'[pf[r][i]] = ref[pf[r][i]] + Cardinality({fd \in Fds : ofile[p][fd] = pf[r][i]})
      BY <2>1, <3>1
    <3>5. QED BY <3>1, <3>3, <3>4
  <2>5. \A r \in Procs : pc'[r] \in Piping => pc[r] \in Piping
    BY <1>1, <2>1 DEF Goto, Piping
  <2>6. \A f \in Files : /\ ref'[f] = 0 => kind'[f] = "none"
                         /\ kind'[f] \in Ends => fpage'[f] \in Pages
    BY <1>1, <2>1, <2>3
  <2>7. \A r \in Procs, i \in 1..2 :
          pf'[r][i] # NoFile => /\ ref'[pf'[r][i]] = 1
                                /\ pc'[r] \in Piping => kind'[pf'[r][i]] = "none"
    <3>1. pf' = pf /\ kind' = kind
      BY <2>1
    <3>2. QED BY <1>1, <2>4, <2>5, <3>1
  <2>8. QED BY <2>6, <2>7 DEF Fresh
<1>9. QED BY <1>2, <1>3, <1>4, <1>5, <1>6, <1>7, <1>8, QuietOrChanging DEF Changing

-----------------------------------------------------------------------------
(* An end has one holder and is open as long as it has one. *)

\* Nothing happens to ends when files keep their types and no close is begun
\* or finished.
LEMMA HoldersStay ==
  ASSUME OneHolder, EndsOpen, UNCHANGED <<kind, fpage, ff, live, openVars>>
  PROVE  OneHolder' /\ EndsOpen'
<1>1. /\ \A f, end, pg : IsEnd(f, end, pg)' <=> IsEnd(f, end, pg)
      /\ ff' = ff /\ live' = live /\ readopen' = readopen /\ writeopen' = writeopen
  BY DEF IsEnd, openVars
<1>2. \A end, pg : Held(end, pg)' <=> Held(end, pg)
  BY <1>1 DEF Held
<1>3. OneHolder'
  BY <1>1 DEF OneHolder
<1>4. EndsOpen'
  BY <1>1, <1>2 DEF EndsOpen
<1>5. QED BY <1>3, <1>4

LEMMA HoldersKeep ==
  ASSUME Table, OneHolder, EndsOpen, NEW p \in Procs, KernelStep(p)
  PROVE  OneHolder' /\ EndsOpen'
<1>0. TypeInv /\ CountsAre(Others) /\ Phases /\ Fresh
  BY DEF Table
<1>1. /\ kind \in [Files -> Kinds] /\ fpage \in [Files -> Pages \cup {None}]
      /\ ff \in [Procs -> (Ends \X Pages) \cup {None}]
      /\ readopen \in [Pages -> BOOLEAN] /\ writeopen \in [Pages -> BOOLEAN]
      /\ live \subseteq Pages /\ pc \in [Procs -> Places]
  BY <1>0 DEF TypeInv
<1>2. \A end \in Ends, pg \in Pages : <<end, pg>> # None
  BY PipeAssumption DEF Ends
<1>3. CASE Quiet
  BY <1>3, HoldersStay DEF Quiet, fileVars
<1>4. CASE FdClosed(p) \/ FileClose(p)
  <2>1. PICK g \in Files : Closed(p, g)
    BY <1>4, ClosedSteps
  <2>2. UNCHANGED <<live, openVars>> /\ fpage' = fpage /\ ff[p] = None
    BY <2>1 DEF Closed, pipeVars
  <2>3. \A f \in Files : kind'[f] = IF f = g /\ ref[g] = 1 THEN "none" ELSE kind[f]
    BY <1>1, <2>1 DEF Closed
  <2>4. \A q \in Procs : ff'[q] = IF q = p /\ ref[g] = 1 /\ kind[g] \in Ends
                                  THEN <<kind[g], fpage[g]>> ELSE ff[q]
    BY <1>1, <2>1 DEF Closed
  <2>5. CASE ~(ref[g] = 1 /\ kind[g] \in Ends)
    <3>1. \A f \in Files, end \in Ends, pg \in Pages : IsEnd(f, end, pg)' <=> IsEnd(f, end, pg)
      BY <2>2, <2>3, <2>5 DEF IsEnd, Ends
    <3>2. \A q \in Procs : ff'[q] = ff[q]
      BY <2>4, <2>5
    <3>3. \A end \in Ends, pg \in Pages : Held(end, pg)' <=> Held(end, pg)
      BY <3>1, <3>2 DEF Held
    <3>4. OneHolder'
      BY <3>1, <3>2 DEF OneHolder
    <3>5. EndsOpen'
      BY <1>1, <2>2, <3>3 DEF EndsOpen, Ends, openVars
    <3>6. QED BY <3>4, <3>5
  <2>6. CASE ref[g] = 1 /\ kind[g] \in Ends
    <3>1. PICK e \in Ends, pg \in Pages : kind[g] = e /\ fpage[g] = pg
      BY <1>0, <2>6 DEF Fresh
    <3>2. \A f \in Files, end \in Ends, w \in Pages :
            IsEnd(f, end, w)' <=> IsEnd(f, end, w) /\ f # g
      BY <2>2, <2>3, <2>6 DEF IsEnd, Ends
    <3>3. \A q \in Procs : ff'[q] = IF q = p THEN <<e, pg>> ELSE ff[q]
      BY <2>4, <2>6, <3>1
    <3>4. IsEnd(g, e, pg) /\ ~\E q \in Procs : ff[q] = <<e, pg>>
      BY <3>1 DEF IsEnd, OneHolder
    <3>5. \A end \in Ends, w \in Pages : Held(end, w)' <=> Held(end, w)
      <4>1. ASSUME NEW end \in Ends, NEW w \in Pages PROVE Held(end, w)' <=> Held(end, w)
        <5>1. CASE end = e /\ w = pg
          BY <3>3, <3>4, <5>1 DEF Held
        <5>2. CASE ~(end = e /\ w = pg)
          <6>1. \A q \in Procs : ff'[q] = <<end, w>> <=> ff[q] = <<end, w>>
            BY <1>2, <2>2, <3>3, <5>2
          <6>2. \A f \in Files : IsEnd(f, end, w)' <=> IsEnd(f, end, w)
            BY <3>1, <3>2, <5>2 DEF IsEnd
          <6>3. QED BY <6>1, <6>2 DEF Held
        <5>3. QED BY <5>1, <5>2
      <4>2. QED BY <4>1
    <3>6. OneHolder'
      <4>1. ASSUME NEW end \in Ends, NEW w \in Pages
            PROVE  /\ \A f, h \in Files : IsEnd(f, end, w)' /\ IsEnd(h, end, w)' => f = h
                   /\ \A f \in Files, q \in Procs : ~(IsEnd(f, end, w)' /\ ff'[q] = <<end, w>>)
                   /\ \A q, r \in Procs : ff'[q] = <<end, w>> /\ ff'[r] = <<end, w>> => q = r
        <5>1. \A f, h \in Files : IsEnd(f, end, w)' /\ IsEnd(h, end, w)' => f = h
          BY <3>2 DEF OneHolder
        <5>2. ASSUME NEW f \in Files, NEW q \in Procs, IsEnd(f, end, w)', ff'[q] = <<end, w>>
              PROVE  FALSE
          <6>1. IsEnd(f, end, w) /\ f # g
            BY <3>2, <5>2
          <6>2. q = p
            BY <3>3, <5>2, <6>1 DEF OneHolder
          <6>3. end = e /\ w = pg
            BY <3>3, <5>2, <6>2
          <6>4. QED BY <3>4, <6>1, <6>3 DEF OneHolder
        <5>3. ASSUME NEW q \in Procs, NEW r \in Procs, ff'[q] = <<end, w>>, ff'[r] = <<end, w>>
              PROVE  q = r
          <6>1. CASE q = p \/ r = p
            <7>1. end = e /\ w = pg
              BY <3>3, <5>3, <6>1
            <7>2. QED BY <3>3, <3>4, <5>3, <7>1
          <6>2. CASE q # p /\ r # p
            BY <3>3, <5>3, <6>2 DEF OneHolder
          <6>3. QED BY <6>1, <6>2
        <5>4. QED BY <5>1, <5>2, <5>3
      <4>2. QED BY <4>1 DEF OneHolder
    <3>7. EndsOpen'
      BY <1>1, <2>2, <3>5 DEF EndsOpen, Ends, openVars
    <3>8. QED BY <3>6, <3>7
  <2>7. QED BY <2>5, <2>6
<1>5. CASE PipeClose(p)
  <2>1. PICK e \in Ends, pg \in Pages : ff[p] = <<e, pg>>
    BY <1>1, <1>5 DEF PipeClose
  <2>2. UNCHANGED <<kind, fpage>> /\ \A q \in Procs : ff'[q] = IF q = p THEN None ELSE ff[q]
    BY <1>1, <1>5 DEF PipeClose, fileVars
  <2>3. /\ readopen' = IF e = "reader" THEN [readopen EXCEPT ![pg] = FALSE] ELSE readopen
        /\ writeopen' = IF e = "writer" THEN [writeopen EXCEPT ![pg] = FALSE] ELSE writeopen
        /\ live' = IF readopen'[pg] \/ writeopen'[pg] THEN live ELSE live \ {pg}
    BY <1>5, <2>1 DEF PipeClose, Ends
  <2>4. Held(e, pg) /\ pg \in live
    BY <2>1 DEF Held, EndsOpen
  <2>5. \A f \in Files, end \in Ends, w \in Pages : IsEnd(f, end, w)' <=> IsEnd(f, end, w)
    BY <2>2 DEF IsEnd
  <2>6. \A q \in Procs, end \in Ends, w \in Pages :
          ff'[q] = <<end, w>> <=> ff[q] = <<end, w>> /\ q # p
    BY <1>2, <2>2
  <2>7. \A end \in Ends, w \in Pages :
          Held(end, w)' <=> Held(end, w) /\ ~(end = e /\ w = pg)
    <3>1. ASSUME NEW end \in Ends, NEW w \in Pages
          PROVE  Held(end, w)' <=> Held(end, w) /\ ~(end = e /\ w = pg)
      <4>1. CASE end = e /\ w = pg
        <5>1. \A f \in Files : ~IsEnd(f, e, pg)
          BY <2>1 DEF OneHolder
        <5>2. \A q \in Procs : ff[q] = <<e, pg>> => q = p
          BY <2>1 DEF OneHolder
        <5>3. QED BY <2>5, <2>6, <4>1, <5>1, <5>2 DEF Held
      <4>2. CASE ~(end = e /\ w = pg)
        BY <2>1, <2>5, <2>6, <4>2 DEF Held
      <4>3. QED BY <4>1, <4>2
    <3>2. QED BY <3>1
  <2>8. OneHolder'
    BY <2>5, <2>6 DEF OneHolder
  <2>9. EndsOpen'
    <3>1. \A w \in Pages : /\ readopen'[w] <=> readopen[w] /\ ~(w = pg /\ e = "reader")
                           /\ writeopen'[w] <=> writeopen[w] /\ ~(w = pg /\ e = "writer")
      BY <1>1, <2>3 DEF Ends
    <3>2. /\ "reader" \in Ends /\ "writer" \in Ends /\ live' \subseteq live
          /\ live' = IF readopen'[pg] \/ writeopen'[pg] THEN live ELSE live \ {pg}
      BY <2>3 DEF Ends
    <3>3. ASSUME NEW w \in live'
          PROVE  /\ readopen'[w] <=> Held("reader", w)'
                 /\ writeopen'[w] <=> Held("writer", w)'
                 /\ readopen'[w] \/ writeopen'[w]
      <4>1. w \in live /\ w \in Pages
        BY <1>1, <3>2
      <4>2. (readopen[w] <=> Held("reader", w)) /\ (writeopen[w] <=> Held("writer", w))
            /\ (readopen[w] \/ writeopen[w])
        BY <4>1 DEF EndsOpen
      <4>3. /\ Held("reader", w)' <=> Held("reader", w) /\ ~(e = "reader" /\ w = pg)
            /\ Held("writer", w)' <=> Held("writer", w) /\ ~(e = "writer" /\ w = pg)
        BY <2>7, <3>2, <4>1
      <4>4. readopen'[w] \/ writeopen'[w]
        <5>1. CASE w = pg
          BY <3>2, <5>1
        <5>2. CASE w # pg
          BY <3>1, <4>1, <4>2, <5>2
        <5>3. QED BY <5>1, <5>2
      <4>5. QED BY <3>1, <4>1, <4>2, <4>3, <4>4
    <3>4. ASSUME NEW w \in Pages \ live', NEW end \in Ends PROVE ~Held(end, w)'
      <4>1. CASE w \notin live
        BY <2>7, <4>1 DEF EndsOpen
      <4>2. CASE w \in live
        <5>1. w = pg /\ ~readopen'[pg] /\ ~writeopen'[pg]
          BY <3>2, <4>2
        <5>2. end = e \/ ~Held(end, pg)
          BY <2>4, <3>1, <5>1 DEF EndsOpen, Ends
        <5>3. QED BY <2>7, <5>1, <5>2
      <4>3. QED BY <4>1, <4>2
    <3>5. QED BY <3>3, <3>4 DEF EndsOpen
  <2>10. QED BY <2>8, <2>9
<1>6. CASE (\E fd \in Fds : SysDup(p, fd)) \/ SysPipe(p) \/ PipeAlloc1(p) \/ \E q \in Procs : Fork(p, q)
  <2>1. UNCHANGED <<kind, fpage, ff, live, openVars>>
    BY <1>6 DEF SysDup, SysPipe, PipeAlloc1, Fork, pipeVars
  <2>2. QED BY <2>1, HoldersStay
<1>7. CASE PipeAllocPage(p)
  <2>1. PICK rf \in Files, wf \in Files, pg \in Pages : Opened(p, rf, wf, pg)
    BY <1>7, OpenedSteps
  <2>2. /\ rf # wf /\ kind[rf] = "none" /\ kind[wf] = "none"
        /\ pg \notin live /\ live' = live \cup {pg} /\ ff' = ff
        /\ \A f \in Files : kind'[f] = IF f = wf THEN "writer" ELSE IF f = rf THEN "reader" ELSE kind[f]
        /\ \A f \in Files : fpage'[f] = IF f \in {rf, wf} THEN pg ELSE fpage[f]
        /\ \A w \in Pages : readopen'[w] = (w = pg \/ readopen[w])
        /\ \A w \in Pages : writeopen'[w] = (w = pg \/ writeopen[w])
    BY <1>1, <2>1 DEF Opened
  <2>3. \A end \in Ends : ~Held(end, pg)
    BY <2>2 DEF EndsOpen
  <2>4. \A f \in Files, end \in Ends, w \in Pages :
          IsEnd(f, end, w)' <=> \/ w = pg /\ end = "reader" /\ f = rf
                                \/ w = pg /\ end = "writer" /\ f = wf
                                \/ w # pg /\ IsEnd(f, end, w)
    <3>1. ASSUME NEW f \in Files, NEW end \in Ends, NEW w \in Pages
          PROVE  IsEnd(f, end, w)' <=> \/ w = pg /\ end = "reader" /\ f = rf
                                       \/ w = pg /\ end = "writer" /\ f = wf
                                       \/ w # pg /\ IsEnd(f, end, w)
      <4>1. IsEnd(f, end, w)' <=> kind'[f] = end /\ fpage'[f] = w
        BY DEF IsEnd
      <4>2. CASE f \in {rf, wf}
        <5>1. ~IsEnd(f, end, w)
          BY <2>2, <4>2 DEF IsEnd, Ends
        <5>2. QED BY <2>2, <4>1, <4>2, <5>1 DEF Ends
      <4>3. CASE f \notin {rf, wf}
        <5>1. IsEnd(f, end, w)' <=> IsEnd(f, end, w)
          BY <2>2, <4>1, <4>3 DEF IsEnd
        <5>2. w = pg => ~IsEnd(f, end, w)
          BY <2>3 DEF Held
        <5>3. QED BY <4>3, <5>1, <5>2
      <4>4. QED BY <4>2, <4>3
    <3>2. QED BY <3>1
  <2>5. \A q \in Procs, end \in Ends : ff[q] # <<end, pg>>
    BY <2>3 DEF Held
  <2>6. \A end \in Ends, w \in Pages : Held(end, w)' <=> w = pg \/ Held(end, w)
    <3>1. ASSUME NEW end \in Ends, NEW w \in Pages
          PROVE  Held(end, w)' <=> w = pg \/ Held(end, w)
      <4>1. CASE w = pg
        <5>1. IsEnd(IF end = "reader" THEN rf ELSE wf, end, pg)'
          BY <2>4 DEF Ends
        <5>2. QED BY <4>1, <5>1 DEF Held
      <4>2. CASE w # pg
        BY <2>2, <2>4, <4>2 DEF Held
      <4>3. QED BY <4>1, <4>2
    <3>2. QED BY <3>1
  <2>7. OneHolder'
    <3>1. ASSUME NEW end \in Ends, NEW w \in Pages
          PROVE  /\ \A f, h \in Files : IsEnd(f, end, w)' /\ IsEnd(h, end, w)' => f = h
                 /\ \A f \in Files, q \in Procs : ~(IsEnd(f, end, w)' /\ ff'[q] = <<end, w>>)
                 /\ \A q, r \in Procs : ff'[q] = <<end, w>> /\ ff'[r] = <<end, w>> => q = r
      <4>1. CASE w = pg
        BY <2>2, <2>4, <2>5, <4>1
      <4>2. CASE w # pg
        BY <2>2, <2>4, <4>2 DEF OneHolder
      <4>3. QED BY <4>1, <4>2
    <3>2. QED BY <3>1 DEF OneHolder
  <2>8. EndsOpen'
    <3>1. ASSUME NEW w \in live'
          PROVE  /\ readopen'[w] <=> Held("reader", w)'
                 /\ writeopen'[w] <=> Held("writer", w)'
                 /\ readopen'[w] \/ writeopen'[w]
      <4>1. w \in Pages /\ (w = pg \/ w \in live) /\ "reader" \in Ends /\ "writer" \in Ends
        BY <1>1, <2>2 DEF Ends
      <4>2. CASE w = pg
        BY <2>2, <2>6, <4>1, <4>2
      <4>3. CASE w # pg
        <5>1. /\ readopen'[w] <=> readopen[w]
              /\ writeopen'[w] <=> writeopen[w]
          BY <2>2, <4>1, <4>3
        <5>2. /\ Held("reader", w)' <=> Held("reader", w)
              /\ Held("writer", w)' <=> Held("writer", w)
          BY <2>6, <4>1, <4>3
        <5>3. QED BY <4>1, <4>3, <5>1, <5>2 DEF EndsOpen
      <4>4. QED BY <4>2, <4>3
    <3>2. ASSUME NEW w \in Pages \ live', NEW end \in Ends PROVE ~Held(end, w)'
      BY <2>2, <2>6 DEF EndsOpen
    <3>3. QED BY <3>1, <3>2 DEF EndsOpen
  <2>9. QED BY <2>7, <2>8
<1>8. QED BY <1>3, <1>4, <1>5, <1>6, <1>7, QuietOrChanging DEF Changing

-----------------------------------------------------------------------------
(* Who reads or writes keeps a descriptor of its end. *)

LEMMA BusyKeeps ==
  ASSUME Table, Busy, NEW p \in Procs, KernelStep(p), TypeInv', CountsAre(Others)'
  PROVE  Busy'
<1>0. TypeInv /\ CountsAre(Others) /\ Phases /\ Fresh
  BY DEF Table
<1>1. /\ pc \in [Procs -> Places] /\ ofile \in [Procs -> [Fds -> Files \cup {NoFile}]]
      /\ kind \in [Files -> Kinds] /\ fpage \in [Files -> Pages \cup {None}]
      /\ page \in [Procs -> Pages \cup {None}]
  BY <1>0 DEF TypeInv
<1> DEFINE Fine(q) ==
      /\ pc[q] \in Reading => page[q] \in Pages /\ HasEnd(q, "reader")
      /\ pc[q] \in Writing => page[q] \in Pages /\ HasEnd(q, "writer")
<1>2. \A q \in Procs : Fine(q)
  BY DEF Busy
<1>3. SUFFICES \A q \in Procs : Fine(q)'
  BY DEF Busy
\* A process whose descriptors keep their types goes on undisturbed.
<1>4. ASSUME NEW q \in Procs, ofile'[q] = ofile[q], page'[q] = page[q],
             \A fd \in OpenFds(q) : /\ kind'[ofile[q][fd]] = kind[ofile[q][fd]]
                                    /\ fpage'[ofile[q][fd]] = fpage[ofile[q][fd]],
             /\ pc'[q] \in Reading => pc[q] \in Reading
             /\ pc'[q] \in Writing => pc[q] \in Writing
      PROVE  Fine(q)'
  <2>1. OpenFds(q)' = OpenFds(q)
    BY <1>4 DEF OpenFds
  <2>2. \A end \in Ends : HasEnd(q, end) => HasEnd(q, end)'
    BY <1>4, <2>1 DEF HasEnd, IsEnd
  <2>3. QED BY <1>2, <1>4, <2>2 DEF Ends
<1>5. ASSUME NEW q \in Procs, UNCHANGED <<kind, fpage>>, ofile'[q] = ofile[q], page'[q] = page[q],
             /\ pc'[q] \in Reading => pc[q] \in Reading
             /\ pc'[q] \in Writing => pc[q] \in Writing
      PROVE  Fine(q)'
  BY <1>4, <1>5
<1>6. CASE FdClosed(p) \/ FileClose(p)
  <2>1. PICK g \in Files : Closed(p, g)
    BY <1>6, ClosedSteps
  <2>2. pc'[p] \notin Reading \cup Writing
    BY <2>1 DEF Closed, Reading, Writing
  <2>3. ASSUME NEW q \in Procs, q # p PROVE Fine(q)'
    <3>1. ofile'[q] = ofile[q] /\ page'[q] = page[q] /\ pc'[q] = pc[q]
      BY <2>1, <2>3 DEF Closed
    <3>2. ASSUME NEW fd \in OpenFds(q)
          PROVE  /\ kind'[ofile[q][fd]] = kind[ofile[q][fd]]
                 /\ fpage'[ofile[q][fd]] = fpage[ofile[q][fd]]
      <4>1. fd \in Fds /\ ofile'[q][fd] # NoFile /\ ofile'[q][fd] = ofile[q][fd]
        BY <3>1 DEF OpenFds
      <4>2. ofile[q][fd] \in Files /\ ref'[ofile[q][fd]] > 0
        <5>1. PICK f \in Files : f = ofile'[q][fd] /\ f = ofile[q][fd]
          BY <1>1, <4>1
        <5>2. <<q, fd>> \in Slots(ofile', Fds, f)
          BY <4>1, <5>1 DEF Slots
        <5>3. Cardinality(Slots(ofile', Fds, f)) > 0
          BY <5>2, Sizes, SlotsCount
        <5>4. /\ Cardinality(Slots(ofile', Fds, f)) \in Nat
              /\ Cardinality(Slots(pf', 1..2, f)) \in Nat
          BY Sizes, SlotsFinite
        <5>5. /\ ref'[f] = Others'[f] + Cardinality(Slots(ofile', Fds, f))
                                     + Cardinality(Slots(pf', 1..2, f))
              /\ Others'[f] \in 0..1
          BY DEF CountsAre, Others
        <5>6. ref'[f] > 0
          BY <5>3, <5>4, <5>5
        <5>7. QED BY <5>1, <5>6
      <4>3. ~(ofile[q][fd] = g /\ ref[g] = 1)
        BY <1>0, <2>1, <4>2 DEF Closed, TypeInv
      <4>4. QED BY <1>1, <2>1, <4>2, <4>3 DEF Closed
    <3>3. QED BY <1>4, <3>1, <3>2
  <2>4. QED BY <2>2, <2>3
<1>7. CASE PipeClose(p)
  <2>1. UNCHANGED <<kind, fpage, ofile, page>> /\ pc[p] \in {"closing", "exiting"}
    BY <1>0, <1>7 DEF PipeClose, fileVars, Phases
  <2>2. PICK S \in {AsleepReading(ff[p][2]), AsleepWriting(ff[p][2])}, more \in BOOLEAN :
          WakeAndGoto(S, p, Place(pc[p], more))
    BY <1>7 DEF PipeClose
  <2>3. \A q \in Procs : /\ pc'[q] \in Reading => pc[q] \in Reading
                         /\ pc'[q] \in Writing => pc[q] \in Writing
    BY <1>1, <2>1, <2>2
       DEF WakeAndGoto, AsleepReading, AsleepWriting, Sleepers, Place, Reading, Writing
  <2>4. QED BY <1>5, <2>1, <2>3
<1>8. ASSUME NEW fd \in Fds, SysDup(p, fd) PROVE \A q \in Procs : Fine(q)'
  <2>1. UNCHANGED <<kind, fpage, page, pc>> /\ pc[p] = "user"
    BY <1>8 DEF SysDup, Running
  <2>2. \A q \in Procs : q # p => ofile'[q] = ofile[q]
    BY <1>1, <1>8 DEF SysDup
  <2>3. pc'[p] \notin Reading \cup Writing
    BY <2>1 DEF Reading, Writing
  <2>4. QED BY <1>5, <2>1, <2>2, <2>3
<1>9. CASE SysPipe(p) \/ PipeAlloc1(p)
  <2>1. UNCHANGED <<kind, fpage, page, ofile>>
    BY <1>9 DEF SysPipe, PipeAlloc1
  <2>2. \E place \in {"pipe1", "pipe2", "closing", "user"} : Goto(p, place)
    BY <1>9 DEF SysPipe, PipeAlloc1, AllocFile, Place
  <2>3. \A q \in Procs : /\ pc'[q] \in Reading => pc[q] \in Reading
                         /\ pc'[q] \in Writing => pc[q] \in Writing
    BY <1>1, <2>2 DEF Goto, Reading, Writing
  <2>4. QED BY <1>5, <2>1, <2>3
<1>10. CASE PipeAllocPage(p)
  <2>1. PICK rf \in Files, wf \in Files, pg \in Pages : Opened(p, rf, wf, pg)
    BY <1>10, OpenedSteps
  <2>2. pc'[p] \notin Reading \cup Writing
    BY <2>1 DEF Opened, Reading, Writing
  <2>3. ASSUME NEW q \in Procs, q # p PROVE Fine(q)'
    <3>1. ofile'[q] = ofile[q] /\ page'[q] = page[q] /\ pc'[q] = pc[q]
      BY <2>1, <2>3 DEF Opened
    <3>2. \A fd \in OpenFds(q) : /\ kind'[ofile[q][fd]] = kind[ofile[q][fd]]
                                 /\ fpage'[ofile[q][fd]] = fpage[ofile[q][fd]]
      BY <1>1, <2>1 DEF Opened, OpenFds
    <3>3. QED BY <1>4, <3>1, <3>2
  <2>4. QED BY <2>2, <2>3
<1>11. ASSUME NEW q \in Procs, Fork(p, q) PROVE \A r \in Procs : Fine(r)'
  <2>1. UNCHANGED <<kind, fpage, page>> /\ Goto(q, "user") /\ ofile' = [ofile EXCEPT ![q] = ofile[p]]
    BY <1>11 DEF Fork, ForkFiles
  <2>2. pc'[q] \notin Reading \cup Writing
    BY <1>1, <2>1 DEF Goto, Reading, Writing
  <2>3. \A r \in Procs : r # q => ofile'[r] = ofile[r] /\ pc'[r] = pc[r]
    BY <1>1, <2>1 DEF Goto
  <2>4. QED BY <1>5, <2>1, <2>2, <2>3
<1>12. ASSUME NEW fd \in Fds, NEW k \in Nat, SysRead(p, fd, k) \/ SysWrite(p, fd, k)
       PROVE  \A q \in Procs : Fine(q)'
  <2>1. PICK end \in Ends, start \in {"read", "write"} :
          SysMove(p, fd, k, end, start) /\ (end = "reader" <=> start = "read")
    BY <1>12 DEF SysRead, SysWrite, Ends
  <2>2. UNCHANGED <<kind, fpage, ofile>> /\ pc[p] = "user"
    BY <2>1 DEF SysMove, Running, fileVars
  <2>3. CASE UNCHANGED <<pc, page>>
    BY <1>5, <2>2, <2>3
  <2>4. CASE /\ ofile[p][fd] # NoFile /\ kind[ofile[p][fd]] = end
             /\ page' = [page EXCEPT ![p] = fpage[ofile[p][fd]]] /\ Goto(p, start)
    <3>1. \A q \in Procs : q # p => page'[q] = page[q] /\ pc'[q] = pc[q]
      BY <1>1, <2>4 DEF Goto
    <3>2. ofile[p][fd] \in Files /\ fd \in OpenFds(p)
      BY <1>1, <2>4 DEF OpenFds
    <3>3. page'[p] = fpage[ofile[p][fd]] /\ page'[p] \in Pages /\ pc'[p] = start
      BY <1>0, <1>1, <2>4, <3>2 DEF Goto, Fresh
    <3>4. HasEnd(p, end)'
      BY <2>2, <2>4, <3>2, <3>3 DEF HasEnd, IsEnd, OpenFds
    <3>5. Fine(p)'
      BY <2>1, <3>3, <3>4 DEF Reading, Writing, Ends
    <3>6. QED BY <1>5, <2>2, <3>1, <3>5
  <2>5. QED BY <2>1, <2>3, <2>4 DEF SysMove
<1>13. CASE \/ PipeNoPage(p) \/ PipeWrite(p) \/ PipeRead(p) \/ PipeSleep(p) \/ Kill(p)
            \/ SysExit(p) /\ Quiet
  <2>1. UNCHANGED <<kind, fpage, ofile>>
    BY <1>13 DEF PipeNoPage, PipeWrite, PipeRead, PipeSleep, Kill, Quiet, fileVars
  <2>2. \A q \in Procs : q # p => page'[q] = page[q]
    BY <1>1, <1>13 DEF PipeNoPage, PipeWrite, PipeRead, PipeSleep, Kill, SysExit, Return
  <2>3. page'[p] = page[p] \/ pc'[p] = "user"
    BY <1>1, <1>13 DEF PipeNoPage, PipeWrite, PipeRead, PipeSleep, Kill, SysExit, Return,
                       WakeAndGoto, Goto
  <2>4. \A q \in Procs : /\ pc'[q] \in Reading => pc[q] \in Reading
                         /\ pc'[q] \in Writing => pc[q] \in Writing
    <3>1. CASE PipeNoPage(p)
      BY <1>1, <3>1 DEF PipeNoPage, Goto, Reading, Writing
    <3>2. CASE PipeWrite(p)
      <4>1. /\ pc[p] = "write"
            /\ \/ \E pg : \/ WakeAndGoto(AsleepReading(pg), p, "user")
                          \/ WakeAndGoto(AsleepReading(pg), p, "wgap")
               \/ Goto(p, "user")
        BY <3>2 DEF PipeWrite
      <4>2. QED BY <1>1, <4>1 DEF WakeAndGoto, AsleepReading, Sleepers, Goto, Reading, Writing
    <3>3. CASE PipeRead(p)
      <4>1. /\ pc[p] = "read"
            /\ \/ \E pg : WakeAndGoto(AsleepWriting(pg), p, "user")
               \/ \E place \in {"user", "rgap"} : Goto(p, place)
        BY <3>3 DEF PipeRead
      <4>2. QED BY <1>1, <4>1 DEF WakeAndGoto, AsleepWriting, Sleepers, Goto, Reading, Writing
    <3>4. CASE PipeSleep(p)
      BY <1>1, <3>4 DEF PipeSleep, Goto, Reading, Writing
    <3>5. CASE Kill(p)
      BY <1>1, <3>5 DEF Kill, Reading, Writing
    <3>6. CASE SysExit(p) /\ Quiet
      <4>1. OpenFds(p) # {} \/ Goto(p, "zombie")
        BY <3>6 DEF SysExit
      <4>2. OpenFds(p) = {}
        <5>1. ASSUME OpenFds(p) # {} PROVE FALSE
          <6>1. PICK d \in OpenFds(p) : ofile' = [ofile EXCEPT ![p][d] = NoFile]
            BY <3>6, <5>1, OpenFdsFound DEF SysExit, CloseNext, CloseFd
          <6>2. ofile'[p][d] = NoFile /\ ofile[p][d] # NoFile
            BY <1>1, <6>1 DEF OpenFds
          <6>3. QED BY <2>1, <6>2
        <5>2. QED BY <5>1
      <4>3. QED BY <1>1, <3>6, <4>1, <4>2 DEF Goto, SysExit, Running, Reading, Writing
    <3>7. QED BY <1>13, <3>1, <3>2, <3>3, <3>4, <3>5, <3>6
  <2>5. ASSUME NEW q \in Procs PROVE Fine(q)'
    <3>1. CASE page'[q] = page[q]
      BY <1>5, <2>1, <2>4, <3>1
    <3>2. CASE q = p /\ pc'[p] = "user"
      BY <3>2 DEF Reading, Writing
    <3>3. QED BY <2>2, <2>3, <3>1, <3>2
  <2>6. QED BY <2>5
<1>14. CASE SysExit(p) \/ ExitClose(p)
  BY <1>6, <1>13, <1>14, ExitSteps
<1>15. ASSUME NEW fd \in Fds, SysClose(p, fd) PROVE \A q \in Procs : Fine(q)'
  <2>1. CASE ofile[p][fd] = NoFile
    <3>1. UNCHANGED <<kind, fpage, ofile, page, pc>>
      BY <1>15, <2>1 DEF SysClose, fileVars
    <3>2. QED BY <1>5, <3>1
  <2>2. CASE ofile[p][fd] # NoFile
    <3>1. ~Quiet
      <4>1. ofile' = [ofile EXCEPT ![p][fd] = NoFile]
        BY <1>15, <2>2 DEF SysClose, CloseFd
      <4>2. ofile'[p][fd] = NoFile
        BY <1>1, <4>1
      <4>3. QED BY <2>2, <4>2 DEF Quiet
    <3>2. QED BY <1>6, <1>15, <3>1, SysCloseSteps
  <2>3. QED BY <2>1, <2>2
<1>16. QED BY <1>6, <1>7, <1>8, <1>9, <1>10, <1>11, <1>12, <1>13, <1>14, <1>15
       DEF KernelStep, InKernel

-----------------------------------------------------------------------------
(* Who waits has cause to. *)

\* A process inside a call finds its end of the pipe open.
LEMMA EndIsOpen ==
  ASSUME Table, EndsOpen, Busy, NEW p \in Procs
  PROVE  /\ pc[p] \in Reading => page[p] \in live /\ page[p] \in Pages /\ readopen[page[p]]
         /\ pc[p] \in Writing => page[p] \in live /\ page[p] \in Pages /\ writeopen[page[p]]
<1>1. ASSUME NEW end \in Ends, page[p] \in Pages, HasEnd(p, end)
      PROVE  Held(end, page[p]) /\ page[p] \in live
  <2>1. PICK fd \in OpenFds(p) : IsEnd(ofile[p][fd], end, page[p])
    BY <1>1 DEF HasEnd
  <2>2. ofile[p][fd] \in Files
    BY DEF OpenFds, Table, TypeInv
  <2>3. Held(end, page[p])
    BY <2>1, <2>2 DEF Held
  <2>4. QED BY <1>1, <2>3 DEF EndsOpen
<1>2. "reader" \in Ends /\ "writer" \in Ends
  BY DEF Ends
<1>3. QED BY <1>1, <1>2 DEF Busy, EndsOpen

\* k bytes that fit go in, and k bytes that are there come out, across the wrap
\* of nwrite and of nread.
LEMMA PutFits ==
  ASSUME NEW a \in 0..(Width - 1), NEW b \in 0..(Width - 1), NEW k \in Nat,
         ((a - b) % Width) + k <= PipeSize
  PROVE  (((a + k) % Width) - b) % Width = ((a - b) % Width) + k
<1>1. /\ Width \in Nat /\ Width > 0 /\ PipeSize \in Nat /\ PipeSize < Width
      /\ \A c \in 0..(Width - 1) : c % Width = c
      /\ \A c \in Width..(2 * Width - 1) : c % Width = c - Width
      /\ \A c \in (0 - Width)..(0 - 1) : c % Width = c + Width
  BY WidthFits, Modulo
<1>2. CASE a >= b
  <2>1. a - b \in 0..(Width - 1) /\ (a - b) % Width = a - b
    BY <1>1, <1>2
  <2>2. CASE a + k < Width
    <3>1. (a + k) % Width = a + k /\ a + k - b \in 0..(Width - 1)
      BY <1>1, <1>2, <2>1, <2>2
    <3>2. QED BY <1>1, <2>1, <3>1
  <2>3. CASE a + k >= Width
    <3>1. a + k \in Width..(2 * Width - 1)
      BY <1>1, <1>2, <2>1, <2>3
    <3>2. (a + k) % Width = a + k - Width /\ a + k - Width - b \in (0 - Width)..(0 - 1)
      BY <1>1, <1>2, <2>1, <3>1
    <3>3. QED BY <1>1, <2>1, <3>2
  <2>4. QED BY <1>1, <2>2, <2>3
<1>3. CASE a < b
  <2>1. a - b \in (0 - Width)..(0 - 1) /\ (a - b) % Width = a - b + Width
    BY <1>1, <1>3
  <2>2. a + k < Width
    BY <1>1, <1>3, <2>1
  <2>3. (a + k) % Width = a + k /\ a + k - b \in (0 - Width)..(0 - 1)
    BY <1>1, <1>3, <2>1, <2>2
  <2>4. QED BY <1>1, <2>1, <2>3
<1>4. QED BY <1>2, <1>3

LEMMA TakeFits ==
  ASSUME NEW a \in 0..(Width - 1), NEW b \in 0..(Width - 1), NEW k \in Nat,
         k <= (a - b) % Width, (a - b) % Width <= PipeSize
  PROVE  (a - ((b + k) % Width)) % Width = ((a - b) % Width) - k
<1>1. /\ Width \in Nat /\ Width > 0 /\ PipeSize \in Nat /\ PipeSize < Width
      /\ \A c \in 0..(Width - 1) : c % Width = c
      /\ \A c \in Width..(2 * Width - 1) : c % Width = c - Width
      /\ \A c \in (0 - Width)..(0 - 1) : c % Width = c + Width
  BY WidthFits, Modulo
<1>2. CASE a >= b
  <2>1. a - b \in 0..(Width - 1) /\ (a - b) % Width = a - b
    BY <1>1, <1>2
  <2>2. (b + k) % Width = b + k /\ a - (b + k) \in 0..(Width - 1)
    <3>1. b + k \in 0..(Width - 1) /\ a - (b + k) \in 0..(Width - 1)
      BY <1>1, <1>2, <2>1
    <3>2. QED BY <1>1, <3>1
  <2>3. QED BY <1>1, <2>1, <2>2
<1>3. CASE a < b
  <2>1. a - b \in (0 - Width)..(0 - 1) /\ (a - b) % Width = a - b + Width
    BY <1>1, <1>3
  <2>2. CASE b + k < Width
    <3>1. (b + k) % Width = b + k /\ a - (b + k) \in (0 - Width)..(0 - 1)
      BY <1>1, <1>3, <2>1, <2>2
    <3>2. QED BY <1>1, <2>1, <3>1
  <2>3. CASE b + k >= Width
    <3>1. b + k \in Width..(2 * Width - 1)
      BY <1>1, <1>3, <2>1, <2>3
    <3>2. (b + k) % Width = b + k - Width /\ a - (b + k - Width) \in 0..(Width - 1)
      BY <1>1, <1>3, <2>1, <3>1
    <3>3. QED BY <1>1, <2>1, <3>2
  <2>4. QED BY <1>1, <2>2, <2>3
<1>4. QED BY <1>2, <1>3

\* The pipe at pg is as it was.
Same(pg) == /\ nread'[pg] = nread[pg] /\ nwrite'[pg] = nwrite[pg]
            /\ readopen'[pg] = readopen[pg] /\ writeopen'[pg] = writeopen[pg]

\* Who waits at a pipe that has not changed still has cause to.
LEMMA WaitsStay ==
  ASSUME NEW q \in Procs, Waits(q),
         pc'[q] \in Waiting => /\ pc'[q] = pc[q] /\ page'[q] = page[q] /\ Same(page[q])
                               /\ pc[q] \in {"rgap", "wgap"} => lock'[page[q]] = lock[page[q]],
         \A r \in Procs : killed[r] => killed'[r]
  PROVE  Waits(q)'
<1>1. CASE pc'[q] \notin Waiting
  BY <1>1 DEF Waits, Waiting
<1>2. CASE pc'[q] \in Waiting
  <2>1. /\ pc'[q] = pc[q] /\ page'[q] = page[q] /\ Same(page[q])
        /\ pc[q] \in {"rgap", "wgap"} => lock'[page[q]] = lock[page[q]]
    BY <1>2
  <2>2. Used(page[q])' = Used(page[q]) /\ Room(page[q])' = Room(page[q])
    BY <2>1 DEF Same, Used, Room
  <2>3. QED BY <2>1, <2>2 DEF Waits, Same
<1>3. QED BY <1>1, <1>2

LEMMA WaitsKeep ==
  ASSUME Inv, NEW p \in Procs, KernelStep(p), TypeInv'
  PROVE  NeverOverfull' /\ \A q \in Procs : Waits(q)'
<1>0. TypeInv /\ CountsAre(Others) /\ Phases /\ Fresh /\ OneHolder /\ EndsOpen /\ Busy
  BY DEF Inv, FileInv, Table
<1>1. /\ pc \in [Procs -> Places] /\ page \in [Procs -> Pages \cup {None}]
      /\ killed \in [Procs -> BOOLEAN] /\ want \in [Procs -> Nat]
      /\ lock \in [Pages -> Procs \cup {None}] /\ None \notin Procs
      /\ nread \in [Pages -> 0..(Width - 1)] /\ nwrite \in [Pages -> 0..(Width - 1)]
      /\ readopen \in [Pages -> BOOLEAN] /\ writeopen \in [Pages -> BOOLEAN]
  BY <1>0, PipeAssumption DEF TypeInv
<1>2. /\ \A q \in Procs : Waits(q)
      /\ \A pg \in Pages : Used(pg) \in 0..PipeSize /\ Room(pg) \in 0..PipeSize
  BY WidthFits DEF Inv, NeverOverfull, Room
<1>3. \A q \in Procs : pc[q] \in Waiting => page[q] \in live /\ page[q] \in Pages
  BY <1>0, EndIsOpen DEF Table, Waiting, Reading, Writing
\* Steps after which every pipe is as it was and nobody has begun to wait.
<1>4. ASSUME UNCHANGED <<lock, nread, nwrite, openVars>>,
             \A q \in Procs : /\ pc'[q] \in Waiting => pc'[q] = pc[q] /\ page'[q] = page[q]
                              /\ killed[q] => killed'[q]
      PROVE  NeverOverfull' /\ \A q \in Procs : Waits(q)'
  <2>1. \A pg : Same(pg) /\ Used(pg)' = Used(pg)
    BY <1>4 DEF Same, Used, openVars
  <2>2. NeverOverfull'
    BY <1>2, <2>1 DEF NeverOverfull
  <2>3. QED BY <1>2, <1>4, <2>1, <2>2, WaitsStay
<1>5. CASE FdClosed(p) \/ FileClose(p)
  <2>1. PICK g \in Files : Closed(p, g)
    BY <1>0, <1>5, ClosedSteps DEF Table
  <2>2. UNCHANGED <<page, killed, lock, nread, nwrite, openVars>>
    BY <2>1 DEF Closed, pipeVars, byteVars
  <2>3. \A q \in Procs : pc'[q] \in Waiting => pc'[q] = pc[q]
    BY <2>1 DEF Closed, Waiting
  <2>4. QED BY <1>4, <2>2, <2>3
<1>6. CASE PipeClose(p)
  <2>1. PICK e \in Ends, pg \in Pages : ff[p] = <<e, pg>>
    BY <1>0, <1>6 DEF PipeClose, TypeInv
  <2>2. /\ lock[pg] = None /\ UNCHANGED <<page, killed, lock, nread, nwrite>>
        /\ pc[p] \in {"closing", "exiting"}
    BY <1>0, <1>6, <2>1 DEF PipeClose, byteVars, Phases
  <2>3. \/ /\ e = "writer" /\ writeopen' = [writeopen EXCEPT ![pg] = FALSE]
           /\ readopen' = readopen
           /\ \E more : WakeAndGoto(AsleepReading(pg), p, Place(pc[p], more))
        \/ /\ e = "reader" /\ readopen' = [readopen EXCEPT ![pg] = FALSE]
           /\ writeopen' = writeopen
           /\ \E more : WakeAndGoto(AsleepWriting(pg), p, Place(pc[p], more))
    BY <1>6, <2>1 DEF PipeClose, Ends
  <2>4. ASSUME NEW q \in Procs PROVE Waits(q)'
    <3>1. pc'[q] \in Waiting => /\ pc'[q] = pc[q] /\ page'[q] = page[q]
                                /\ lock' = lock
      BY <1>1, <2>2, <2>3
         DEF WakeAndGoto, AsleepReading, AsleepWriting, Sleepers, Place, Waiting
    <3>2. CASE page[q] # pg
      <4>1. pc'[q] \in Waiting => Same(page[q])
        BY <1>1, <1>3, <2>2, <2>3, <3>1, <3>2 DEF Same
      <4>2. QED BY <1>2, <2>2, <3>1, <4>1, WaitsStay
    <3>3. CASE page[q] = pg /\ pc'[q] \in Waiting
      <4>1. pc[q] \notin {"rgap", "wgap"}
        BY <1>1, <1>2, <2>2, <3>3 DEF Waits
      <4>2. Used(pg)' = Used(pg) /\ Room(pg)' = Room(pg) /\ pc'[q] = pc[q] /\ page'[q] = page[q]
        BY <2>2, <3>1, <3>3 DEF Used, Room
      <4>3. CASE e = "writer"
        <5>1. pc'[q] = "wsleep"
          BY <1>1, <2>2, <2>3, <3>1, <3>3, <4>1, <4>3
             DEF WakeAndGoto, AsleepReading, Sleepers, Place, Waiting
        <5>2. QED BY <1>2, <2>3, <3>3, <4>2, <4>3, <5>1 DEF Waits
      <4>4. CASE e = "reader"
        <5>1. pc'[q] = "rsleep"
          BY <1>1, <2>2, <2>3, <3>1, <3>3, <4>1, <4>4
             DEF WakeAndGoto, AsleepWriting, Sleepers, Place, Waiting
        <5>2. QED BY <1>2, <2>2, <2>3, <3>3, <4>2, <4>4, <5>1 DEF Waits
      <4>5. QED BY <4>3, <4>4 DEF Ends
    <3>4. CASE pc'[q] \notin Waiting
      BY <3>4 DEF Waits, Waiting
    <3>5. QED BY <3>2, <3>3, <3>4
  <2>5. NeverOverfull'
    BY <1>2, <2>2 DEF NeverOverfull, Used
  <2>6. QED BY <2>4, <2>5
<1>7. CASE (\E fd \in Fds : SysDup(p, fd)) \/ SysPipe(p) \/ PipeAlloc1(p) \/ PipeNoPage(p)
  <2>1. UNCHANGED <<page, killed, lock, nread, nwrite, openVars>>
    BY <1>7 DEF SysDup, SysPipe, PipeAlloc1, PipeNoPage, pipeVars, byteVars
  <2>2. pc' = pc \/ \E place \in {"pipe1", "pipe2", "closing", "user"} : Goto(p, place)
    BY <1>7 DEF SysDup, SysPipe, PipeAlloc1, PipeNoPage, AllocFile, Place
  <2>3. \A q \in Procs : pc'[q] \in Waiting => pc'[q] = pc[q]
    BY <1>1, <2>2 DEF Goto, Waiting
  <2>4. QED BY <1>4, <2>1, <2>3
<1>8. CASE PipeAllocPage(p)
  <2>1. PICK rf \in Files, wf \in Files, pg \in Pages : Opened(p, rf, wf, pg)
    BY <1>0, <1>8, OpenedSteps DEF Table
  <2>2. /\ pg \notin live /\ UNCHANGED <<page, killed, lock>>
        /\ \A w \in Pages : w # pg => Same(w)
        /\ nread'[pg] = 0 /\ nwrite'[pg] = 0
    BY <1>1, <2>1 DEF Opened, Same
  <2>3. \A q \in Procs : pc'[q] \in Waiting => pc'[q] = pc[q]
    BY <2>1 DEF Opened, Waiting
  <2>4. \A q \in Procs : Waits(q)'
    BY <1>2, <1>3, <2>2, <2>3, WaitsStay
  <2>5. ASSUME NEW w \in Pages PROVE Used(w)' \in 0..PipeSize
    <3>1. CASE w = pg
      <4>1. (0 - 0) % Width = 0
        BY WidthFits, Modulo
      <4>2. QED BY <2>2, <3>1, <4>1, WidthFits DEF Used
    <3>2. CASE w # pg
      BY <1>2, <2>2, <3>2 DEF Used, Same
    <3>3. QED BY <3>1, <3>2
  <2>6. QED BY <2>4, <2>5 DEF NeverOverfull
<1>9. ASSUME NEW q \in Procs, Fork(p, q) PROVE NeverOverfull' /\ \A r \in Procs : Waits(r)'
  <2>1. UNCHANGED <<page, killed, lock, nread, nwrite, openVars>> /\ Goto(q, "user")
    BY <1>9 DEF Fork, pipeVars, byteVars
  <2>2. \A r \in Procs : pc'[r] \in Waiting => pc'[r] = pc[r]
    BY <1>1, <2>1 DEF Goto, Waiting
  <2>3. QED BY <1>4, <2>1, <2>2
<1>10. ASSUME NEW fd \in Fds, NEW k \in Nat, SysRead(p, fd, k) \/ SysWrite(p, fd, k)
       PROVE  NeverOverfull' /\ \A r \in Procs : Waits(r)'
  <2>1. /\ UNCHANGED <<killed, lock, nread, nwrite, openVars>> /\ pc[p] = "user"
        /\ \A q \in Procs : q # p => page'[q] = page[q]
        /\ pc' = pc \/ Goto(p, "read") \/ Goto(p, "write")
    BY <1>1, <1>10 DEF SysRead, SysWrite, SysMove, Running, pipeVars, byteVars
  <2>2. \A r \in Procs : pc'[r] \in Waiting => pc'[r] = pc[r] /\ page'[r] = page[r]
    BY <1>1, <2>1 DEF Goto, Waiting
  <2>3. QED BY <1>4, <2>1, <2>2
<1>11. CASE PipeWrite(p)
  <2>1. PICK pg \in Pages :
          pg = page[p] /\ pc[p] = "write" /\ lock[pg] = None /\ writeopen[pg]
    BY <1>0, <1>11, EndIsOpen DEF PipeWrite, Table, Writing
  <2>2. PICK k \in Nat : /\ k = Least(want[p], Room(pg))
                         /\ k <= Room(pg) /\ k <= want[p] /\ (want[p] > k => k = Room(pg))
    BY <1>1, <1>2, <2>1 DEF Least
  <2>3. /\ nwrite' = [nwrite EXCEPT ![pg] = (@ + k) % Width]
        /\ UNCHANGED <<nread, openVars, killed>>
    BY <1>11, <2>1, <2>2 DEF PipeWrite, PutBytes
  <2>4. Used(pg)' = Used(pg) + k
    <3>1. /\ nwrite[pg] \in 0..(Width - 1) /\ nread[pg] \in 0..(Width - 1)
          /\ Used(pg) = (nwrite[pg] - nread[pg]) % Width
          /\ Used(pg)' = (((nwrite[pg] + k) % Width) - nread[pg]) % Width
      BY <1>1, <2>1, <2>3 DEF Used
    <3>2. Used(pg) + k <= PipeSize
      BY <1>2, <2>1, <2>2, WidthFits DEF Room
    <3>3. QED BY <2>2, <3>1, <3>2, PutFits
  <2>5. \/ want[p] = k /\ WakeAndGoto(AsleepReading(pg), p, "user") /\ lock' = lock
        \/ (~readopen[pg] \/ killed[p]) /\ Goto(p, "user") /\ lock' = lock
        \/ /\ want[p] > k /\ readopen[pg] /\ WakeAndGoto(AsleepReading(pg), p, "wgap")
           /\ lock' = [lock EXCEPT ![pg] = p] /\ page' = page
    BY <1>11, <2>1, <2>2 DEF PipeWrite
  <2>6. \A q \in Procs : q # p => page'[q] = page[q]
    BY <1>1, <1>11 DEF PipeWrite, Return
  <2>7. \A w \in Pages : w # pg => Same(w) /\ Used(w)' = Used(w) /\ lock'[w] = lock[w]
    BY <1>1, <2>1, <2>3, <2>5 DEF Same, Used, openVars
  <2>8. Used(pg)' \in 0..PipeSize /\ Room(pg)' = Room(pg) - k
    BY <1>2, <2>1, <2>2, <2>4, WidthFits DEF Room
  <2>9. NeverOverfull'
    BY <1>2, <2>7, <2>8 DEF NeverOverfull
  <2>10. ASSUME NEW q \in Procs, q # p PROVE Waits(q)'
    <3>1. pc'[q] \in Waiting => pc'[q] = pc[q]
      BY <1>1, <2>5, <2>10 DEF WakeAndGoto, AsleepReading, Sleepers, Goto, Waiting
    <3>2. CASE page[q] # pg
      BY <1>2, <1>3, <2>3, <2>6, <2>7, <2>10, <3>1, <3>2, WaitsStay
    <3>3. CASE page[q] = pg /\ pc'[q] \in Waiting
      <4>1. pc[q] \in {"rsleep", "wsleep"} /\ pc'[q] = pc[q] /\ page'[q] = pg
        BY <1>1, <1>2, <2>1, <2>6, <2>10, <3>1, <3>3 DEF Waits, Waiting
      <4>2. CASE pc[q] = "wsleep"
        <5>1. Room(pg) = 0 /\ readopen[pg]
          BY <1>2, <3>3, <4>2 DEF Waits
        <5>2. Room(pg)' = 0
          BY <2>2, <2>8, <5>1
        <5>3. QED BY <2>3, <4>1, <4>2, <5>1, <5>2 DEF Waits, openVars
      <4>3. CASE pc[q] = "rsleep"
        <5>1. writeopen[pg] /\ readopen[pg]
          BY <1>0, <1>2, <3>3, <4>3, EndIsOpen DEF Waits, Table, Reading
        <5>2. killed[p]
          BY <1>1, <2>5, <2>10, <3>3, <4>1, <4>3, <5>1
             DEF WakeAndGoto, AsleepReading, Sleepers
        <5>3. QED BY <2>3, <4>1, <4>3, <5>1, <5>2 DEF Waits, openVars
      <4>4. QED BY <4>1, <4>2, <4>3
    <3>4. CASE pc'[q] \notin Waiting
      BY <3>4 DEF Waits, Waiting
    <3>5. QED BY <3>2, <3>3, <3>4
  <2>11. Waits(p)'
    <3>1. CASE want[p] > k /\ readopen[pg] /\ WakeAndGoto(AsleepReading(pg), p, "wgap")
               /\ lock' = [lock EXCEPT ![pg] = p] /\ page' = page
      <4>1. pc'[p] = "wgap" /\ page'[p] = pg /\ lock'[pg] = p /\ readopen'[pg]
        BY <1>1, <2>1, <2>3, <3>1 DEF WakeAndGoto, openVars
      <4>2. Room(pg)' = 0
        BY <1>2, <2>1, <2>2, <2>8, <3>1
      <4>3. QED BY <4>1, <4>2 DEF Waits
    <3>2. CASE pc'[p] = "user"
      BY <3>2 DEF Waits
    <3>3. QED BY <1>1, <2>5, <3>1, <3>2 DEF WakeAndGoto, Goto
  <2>12. QED BY <2>9, <2>10, <2>11
<1>12. CASE PipeRead(p)
  <2>1. PICK pg \in Pages : pg = page[p] /\ pc[p] = "read" /\ lock[pg] = None
    BY <1>0, <1>12, EndIsOpen DEF PipeRead, Table, Reading
  <2>2. /\ UNCHANGED <<nwrite, openVars, killed>>
        /\ \A q \in Procs : q # p => page'[q] = page[q]
    BY <1>1, <1>12 DEF PipeRead, Return
  <2>3. PICK k \in Nat : k = Least(want[p], Used(pg)) /\ k <= Used(pg)
    BY <1>1, <1>2, <2>1, WidthFits DEF Least
  <2>4. CASE killed[p] /\ Goto(p, "user") /\ UNCHANGED <<lock, nread>>
    <3>1. \A q \in Procs : pc'[q] \in Waiting => pc'[q] = pc[q] /\ page'[q] = page[q]
      BY <1>1, <2>2, <2>4 DEF Goto, Waiting
    <3>2. QED BY <1>4, <2>2, <2>4, <3>1
  <2>5. CASE /\ MustWait(pg) /\ Goto(p, "rgap") /\ lock' = [lock EXCEPT ![pg] = p]
             /\ UNCHANGED <<nread, page>>
    <3>1. \A w : Same(w) /\ Used(w)' = Used(w)
      BY <2>2, <2>5 DEF Same, Used, openVars
    <3>2. NeverOverfull'
      BY <1>2, <3>1 DEF NeverOverfull
    <3>3. ASSUME NEW q \in Procs, q # p PROVE Waits(q)'
      <4>1. pc'[q] = pc[q] /\ page'[q] = page[q]
        BY <1>1, <2>5, <3>3 DEF Goto
      <4>2. pc[q] \in {"rgap", "wgap"} => lock'[page[q]] = lock[page[q]]
        <5>1. ASSUME pc[q] \in {"rgap", "wgap"} PROVE page[q] # pg
          BY <1>1, <1>2, <2>1, <5>1 DEF Waits
        <5>2. QED BY <2>5, <5>1, <1>1
      <4>3. QED BY <1>2, <2>2, <3>1, <4>1, <4>2, WaitsStay
    <3>4. Waits(p)'
      <4>1. pc'[p] = "rgap" /\ page'[p] = pg /\ lock'[pg] = p
        BY <1>1, <2>1, <2>5 DEF Goto
      <4>2. Used(pg)' = 0 /\ writeopen'[pg]
        BY <2>2, <2>5, <3>1 DEF MustWait, openVars
      <4>3. QED BY <4>1, <4>2 DEF Waits
    <3>5. QED BY <3>2, <3>3, <3>4
  <2>6. CASE /\ ~MustWait(pg) /\ TakeBytes(pg, k)
             /\ WakeAndGoto(AsleepWriting(pg), p, "user") /\ lock' = lock
    <3>1. k <= Used(pg)
      BY <2>3
    <3>2. nread' = [nread EXCEPT ![pg] = (@ + k) % Width]
      BY <2>6 DEF TakeBytes
    <3>3. Used(pg)' = Used(pg) - k
      <4>1. /\ nwrite[pg] \in 0..(Width - 1) /\ nread[pg] \in 0..(Width - 1)
            /\ Used(pg) = (nwrite[pg] - nread[pg]) % Width
            /\ Used(pg)' = (nwrite[pg] - ((nread[pg] + k) % Width)) % Width
        <5>1. nwrite' = nwrite /\ nread'[pg] = (nread[pg] + k) % Width
          BY <1>1, <2>1, <2>2, <3>2
        <5>2. nwrite[pg] \in 0..(Width - 1) /\ nread[pg] \in 0..(Width - 1)
          BY <1>1, <2>1
        <5>3. Used(pg)' = (nwrite'[pg] - nread'[pg]) % Width
          BY DEF Used
        <5>4. Used(pg)' = (nwrite[pg] - ((nread[pg] + k) % Width)) % Width
          BY <5>1, <5>3, Zenon
        <5>5. Used(pg) = (nwrite[pg] - nread[pg]) % Width
          BY DEF Used
        <5>6. QED BY <5>2, <5>4, <5>5, Zenon
      <4>2. Used(pg) <= PipeSize
        BY <1>2, <2>1, WidthFits
      <4>3. QED BY <3>1, <4>1, <4>2, TakeFits
    <3>4. \A w \in Pages : w # pg => Same(w) /\ Used(w)' = Used(w)
      BY <1>1, <2>1, <2>2, <3>2 DEF Same, Used, openVars
    <3>5. NeverOverfull'
      <4>1. Used(pg)' \in 0..PipeSize
        BY <1>2, <2>1, <3>1, <3>3, WidthFits
      <4>2. QED BY <1>2, <3>4, <4>1 DEF NeverOverfull
    <3>6. ASSUME NEW q \in Procs PROVE Waits(q)'
      <4>1. pc'[q] \in Waiting => pc'[q] = pc[q] /\ q # p
        BY <1>1, <2>6 DEF WakeAndGoto, AsleepWriting, Sleepers, Waiting
      <4>2. CASE page[q] # pg
        BY <1>2, <1>3, <2>2, <2>6, <3>4, <4>1, <4>2, WaitsStay
      <4>3. CASE page[q] = pg /\ pc'[q] \in Waiting
        <5>1. pc[q] \in {"rsleep", "wsleep"} /\ pc'[q] = pc[q] /\ page'[q] = pg /\ q # p
          BY <1>1, <1>2, <2>1, <2>2, <4>1, <4>3 DEF Waits, Waiting
        <5>2. pc[q] = "rsleep"
          BY <1>1, <2>6, <4>3, <5>1 DEF WakeAndGoto, AsleepWriting, Sleepers
        <5>3. writeopen[pg] /\ \E r \in Procs : killed[r]
          BY <1>2, <2>6, <4>3, <5>2 DEF Waits, MustWait
        <5>4. QED BY <2>2, <5>1, <5>2, <5>3 DEF Waits, openVars
      <4>4. CASE pc'[q] \notin Waiting
        BY <4>4 DEF Waits, Waiting
      <4>5. QED BY <4>2, <4>3, <4>4
    <3>7. QED BY <3>5, <3>6
  <2>7. QED BY <1>12, <2>1, <2>3, <2>4, <2>5, <2>6 DEF PipeRead
<1>13. CASE PipeSleep(p)
  <2>1. /\ pc[p] \in {"rgap", "wgap"} /\ Goto(p, IF pc[p] = "rgap" THEN "rsleep" ELSE "wsleep")
        /\ lock' = [lock EXCEPT ![page[p]] = None]
        /\ UNCHANGED <<page, killed, nread, nwrite, openVars>>
    BY <1>13 DEF PipeSleep, byteVars
  <2>2. \A w : Same(w) /\ Used(w)' = Used(w) /\ Room(w)' = Room(w)
    BY <2>1 DEF Same, Used, Room, openVars
  <2>3. NeverOverfull'
    BY <1>2, <2>2 DEF NeverOverfull
  <2>4. lock[page[p]] = p
    BY <1>2, <2>1 DEF Waits
  <2>5. ASSUME NEW q \in Procs, q # p PROVE Waits(q)'
    <3>1. pc'[q] = pc[q] /\ page'[q] = page[q]
      BY <1>1, <2>1, <2>5 DEF Goto
    <3>2. pc[q] \in {"rgap", "wgap"} => lock'[page[q]] = lock[page[q]]
      <4>1. ASSUME pc[q] \in {"rgap", "wgap"} PROVE page[q] # page[p]
        BY <1>2, <2>4, <2>5, <4>1 DEF Waits
      <4>2. QED BY <1>1, <2>1, <4>1
    <3>3. QED BY <1>2, <2>1, <2>2, <3>1, <3>2, WaitsStay
  <2>6. Waits(p)'
    <3>1. /\ pc'[p] = IF pc[p] = "rgap" THEN "rsleep" ELSE "wsleep"
          /\ page'[p] = page[p]
      BY <1>1, <2>1 DEF Goto
    <3>2. QED BY <1>2, <2>1, <2>2, <3>1 DEF Waits, openVars
  <2>7. QED BY <2>3, <2>5, <2>6
<1>14. CASE Kill(p) \/ (SysExit(p) /\ Quiet)
  <2>1. UNCHANGED <<page, lock, nread, nwrite, openVars>> /\ \A q \in Procs : killed[q] => killed'[q]
    BY <1>1, <1>14 DEF Kill, SysExit, pipeVars, byteVars
  <2>2. \A q \in Procs : pc'[q] \in Waiting => pc'[q] = pc[q]
    <3>1. CASE Kill(p)
      BY <1>1, <3>1 DEF Kill, Waiting
    <3>2. CASE SysExit(p)
      <4>1. pc[p] = "user" /\ \A q \in Procs : q # p => pc'[q] = pc[q]
        BY <1>1, <3>2 DEF SysExit, Running, CloseNext, CloseFd, Close, Goto
      <4>2. pc'[p] \in {"user", "exiting", "zombie"}
        BY <1>1, <3>2 DEF SysExit, CloseNext, CloseFd, Close, Goto, Place
      <4>3. QED BY <4>1, <4>2 DEF Waiting
    <3>3. QED BY <1>14, <3>1, <3>2
  <2>3. QED BY <1>4, <2>1, <2>2
<1>15. CASE SysExit(p) \/ ExitClose(p)
  BY <1>0, <1>5, <1>14, <1>15, ExitSteps DEF Table
<1>16. ASSUME NEW fd \in Fds, SysClose(p, fd) PROVE NeverOverfull' /\ \A q \in Procs : Waits(q)'
  <2>1. CASE ofile[p][fd] = NoFile
    <3>1. UNCHANGED <<page, killed, lock, nread, nwrite, openVars, pc>>
      BY <1>16, <2>1 DEF SysClose, pipeVars, byteVars
    <3>2. QED BY <1>4, <3>1
  <2>2. CASE ofile[p][fd] # NoFile
    <3>1. ~Quiet
      <4>1. ofile' = [ofile EXCEPT ![p][fd] = NoFile]
        BY <1>16, <2>2 DEF SysClose, CloseFd
      <4>2. ofile'[p][fd] = NoFile
        BY <1>0, <4>1 DEF TypeInv
      <4>3. QED BY <2>2, <4>2 DEF Quiet
    <3>2. QED BY <1>0, <1>5, <1>16, <3>1, SysCloseSteps DEF Table
  <2>3. QED BY <2>1, <2>2
<1>17. QED BY <1>5, <1>6, <1>7, <1>8, <1>9, <1>10, <1>11, <1>12, <1>13, <1>14, <1>15, <1>16
       DEF KernelStep, InKernel

-----------------------------------------------------------------------------
LEMMA InvKeeps ==
  ASSUME Inv, [Next]_vars
  PROVE  Inv'
<1>1. Table /\ OneHolder /\ EndsOpen /\ Busy /\ TypeInv
  BY DEF Inv, FileInv, Table
<1>2. elsewhere' = elsewhere /\ ((\E p \in Procs : KernelStep(p)) \/ UNCHANGED kernelVars)
  BY <1>1, KernelSteps
<1>3. ASSUME NEW p \in Procs, KernelStep(p) PROVE Inv'
  <2>1. TypeInv'
    BY <1>1, <1>2, <1>3, TypeKeeps
  <2>2. CountsAre(Others)'
    BY <1>1, <1>2, <1>3, CountsKeep
  <2>3. Phases' /\ Fresh'
    BY <1>1, <1>3, PhasesKeep, FreshKeeps
  <2>4. OneHolder' /\ EndsOpen'
    BY <1>1, <1>3, HoldersKeep
  <2>5. Busy'
    BY <1>1, <1>3, <2>1, <2>2, BusyKeeps
  <2>6. NeverOverfull' /\ \A q \in Procs : Waits(q)'
    BY <1>3, <2>1, WaitsKeep
  <2>7. QED BY <2>1, <2>2, <2>3, <2>4, <2>5, <2>6 DEF Inv, FileInv, Table
<1>4. CASE UNCHANGED kernelVars
  <2>1. UNCHANGED <<ref, kind, fpage, ofile, pf, ff, pc, page, want, ret, pfd, killed,
                    live, lock, readopen, writeopen, nread, nwrite, elsewhere>>
    BY <1>2, <1>4 DEF kernelVars, fileVars, procVars, pipeVars, openVars, byteVars
  <2>2. Table'
    <3>1. TypeInv'
      BY <1>1, <2>1 DEF TypeInv
    <3>2. CountsAre(Others)'
      BY <1>1, <2>1 DEF Table, CountsAre, Slots, Others
    <3>3. Phases' /\ Fresh'
      BY <1>1, <2>1 DEF Table, Phases, Fresh, OpenFds, Unclosed
    <3>4. QED BY <3>1, <3>2, <3>3 DEF Table
  <2>3. OneHolder' /\ EndsOpen'
    BY <1>1, <2>1, HoldersStay DEF openVars
  <2>4. Busy'
    BY <1>1, <2>1 DEF Busy, HasEnd, OpenFds, IsEnd
  <2>5. NeverOverfull' /\ \A q \in Procs : Waits(q)'
    <3>1. \A pg : Used(pg)' = Used(pg) /\ Room(pg)' = Room(pg)
      BY <2>1 DEF Used, Room
    <3>2. QED BY <2>1, <3>1 DEF Inv, NeverOverfull, Waits
  <2>6. QED BY <2>2, <2>3, <2>4, <2>5 DEF Inv, FileInv
<1>5. QED BY <1>2, <1>3, <1>4

\* The descriptors of the shell's console, and nothing else, are counted.
LEMMA InvStarts == Init => Inv
<1> SUFFICES ASSUME Init PROVE Inv
  OBVIOUS
<1>1. PICK open \in 2..NOFILE, busy \in 1..NFILE :
        /\ elsewhere = 2..busy
        /\ ofile = [p \in Procs |-> [fd \in Fds |->
                      IF p = sh /\ fd < open THEN console ELSE NoFile]]
        /\ ref = [f \in Files |-> IF f = console THEN open
                                  ELSE IF f \in elsewhere THEN 1 ELSE 0]
        /\ kind = [f \in Files |-> IF f = console \/ f \in elsewhere
                                   THEN "inode" ELSE "none"]
        /\ fpage = [f \in Files |-> None]
        /\ pf = [p \in Procs |-> <<NoFile, NoFile>>] /\ ff = [p \in Procs |-> None]
        /\ pc = [p \in Procs |-> IF p = sh THEN "user" ELSE "unused"]
        /\ page = [p \in Procs |-> None] /\ want = [p \in Procs |-> 0]
        /\ pfd = [p \in Procs |-> <<0, 0>>]
        /\ killed = [p \in Procs |-> FALSE]
        /\ live = {} /\ lock = [pg \in Pages |-> None]
        /\ nread = [pg \in Pages |-> 0] /\ nwrite = [pg \in Pages |-> 0]
        /\ readopen = [pg \in Pages |-> TRUE] /\ writeopen = [pg \in Pages |-> TRUE]
  BY DEF Init
<1>2. /\ sh \in Procs /\ NOFILE \in Nat /\ NFILE \in Nat /\ NFILE > 0
      /\ open \in Nat /\ open <= NOFILE /\ open >= 1 /\ 0 \in Fds /\ console \in Files
      /\ NoFile # console /\ Width \in Nat /\ Width > 0 /\ PipeSize \in Nat
  BY Sizes, PipeAssumption, ShellAssumption DEF console, Files, NoFile
<1>3. TypeInv
  <2>1. elsewhere \subseteq Files
    BY <1>1, <1>2 DEF Files
  <2>2. ref \in [Files -> Nat] /\ kind \in [Files -> Kinds] /\ fpage \in [Files -> Pages \cup {None}]
    BY <1>1, <1>2 DEF Kinds
  <2>3. ofile \in [Procs -> [Fds -> Files \cup {NoFile}]]
        /\ pf \in [Procs -> [1..2 -> Files \cup {NoFile}]]
    BY <1>1, <1>2
  <2>4. pc \in [Procs -> Places] /\ pfd \in [Procs -> Fds \X Fds]
    BY <1>1, <1>2 DEF Places
  <2>5. 0 \in 0..(Width - 1)
    BY <1>2
  <2>6. QED BY <1>1, <2>1, <2>2, <2>3, <2>4, <2>5 DEF TypeInv
<1>4. CountsAre(Others)
  <2>1. \A f \in Files : Slots(pf, 1..2, f) = {}
    BY <1>1, Sizes DEF Slots
  <2>2. \A f \in Files : f # console => Slots(ofile, Fds, f) = {}
    BY <1>1, Sizes DEF Slots
  <2>3. Cardinality(Slots(ofile, Fds, console)) = open
    <3>1. Slots(ofile, Fds, console) = {sh} \X (0..(open - 1))
      <4>1. \A x \in Procs \X Fds :
              ofile[x[1]][x[2]] = console <=> x[1] = sh /\ x[2] < open
        BY <1>1, <1>2
      <4>2. \A n : n \in 0..(open - 1) <=> n \in Fds /\ n < open
        BY <1>2 DEF Fds
      <4>3. \A x \in Procs \X Fds : x \in {sh} \X (0..(open - 1)) <=> x[1] = sh /\ x[2] < open
        BY <4>2
      <4>4. {sh} \X (0..(open - 1)) \subseteq Procs \X Fds
        BY <1>2, <4>2
      <4>5. QED BY <4>1, <4>3, <4>4 DEF Slots
    <3>2. IsFiniteSet(0..(open - 1)) /\ Cardinality(0..(open - 1)) = open
      <4>1. 0 \in Int /\ open - 1 \in Int /\ 0 <= open - 1 /\ (open - 1) - 0 + 1 = open
        BY <1>2
      <4>2. /\ IsFiniteSet(0..(open - 1))
            /\ Cardinality(0..(open - 1)) = IF 0 > open - 1 THEN 0 ELSE (open - 1) - 0 + 1
        BY <4>1, FS_Interval
      <4>3. QED BY <4>1, <4>2
    <3>3. IsFiniteSet({sh}) /\ Cardinality({sh}) = 1
      BY FS_Singleton
    <3>4. Cardinality({sh} \X (0..(open - 1))) = 1 * open
      BY <3>2, <3>3, FS_Product
    <3>5. QED BY <1>2, <3>1, <3>4
  <2>4. Cardinality({}) = 0
    BY FS_EmptySet
  <2>5. \A f \in Files : f # console => ref[f] = Others[f]
    BY <1>1 DEF Others
  <2>6. ref[console] = open /\ Others[console] = 0
    BY <1>1, <1>2 DEF Others, console
  <2>7. \A f \in Files : Others[f] \in Nat
    BY DEF Others
  <2>8. ASSUME NEW f \in Files
        PROVE  ref[f] = Others[f] + Cardinality(Slots(ofile, Fds, f))
                                  + Cardinality(Slots(pf, 1..2, f))
    <3>1. CASE f = console
      BY <1>2, <2>1, <2>3, <2>4, <2>6, <3>1
    <3>2. CASE f # console
      BY <2>1, <2>2, <2>4, <2>5, <2>7, <3>2
    <3>3. QED BY <3>1, <3>2
  <2>9. QED BY <2>8 DEF CountsAre
<1>5. Phases
  <2>1. \A p \in Procs : Unclosed(p) = {} /\ ff[p] = None
    BY <1>1 DEF Unclosed
  <2>2. \A p \in Procs : pc[p] \in {"user", "unused"}
    BY <1>1
  <2>3. \A p \in Procs : pc[p] = "unused" => OpenFds(p) = {}
    BY <1>1 DEF OpenFds
  <2>4. QED BY <2>1, <2>2, <2>3 DEF Phases, Piping
<1>6. \A f \in Files : kind[f] \notin Ends
  BY <1>1 DEF Ends
<1>7. Fresh
  <2>1. \A f \in Files : ref[f] = 0 => kind[f] = "none"
    BY <1>1, <1>2
  <2>2. \A p \in Procs, i \in 1..2 : pf[p][i] = NoFile
    BY <1>1
  <2>3. QED BY <1>6, <2>1, <2>2 DEF Fresh
<1>8. OneHolder /\ EndsOpen
  <2>1. \A f \in Files, end \in Ends : \A pg : ~IsEnd(f, end, pg)
    BY <1>6 DEF IsEnd
  <2>2. \A p \in Procs, end \in Ends, pg \in Pages : ff[p] # <<end, pg>>
    BY <1>1, PipeAssumption DEF Ends
  <2>3. \A end \in Ends, pg \in Pages : ~Held(end, pg)
    BY <2>1, <2>2 DEF Held
  <2>4. QED BY <1>1, <2>1, <2>2, <2>3 DEF OneHolder, EndsOpen
<1>9. Busy /\ \A p \in Procs : Waits(p)
  BY <1>1 DEF Busy, Waits, Reading, Writing
<1>10. NeverOverfull
  <2>1. \A pg \in Pages : Used(pg) = 0
    <3>1. (0 - 0) % Width = 0
      BY <1>2
    <3>2. QED BY <1>1, <3>1 DEF Used
  <2>2. QED BY <1>2, <2>1 DEF NeverOverfull
<1>11. QED BY <1>3, <1>4, <1>5, <1>7, <1>8, <1>9, <1>10 DEF Inv, FileInv, Table

\* In every state of the pipeline the counts, the ends of the pipes and the
\* causes of those who wait are as the invariant says: what pipe, fork, dup,
\* close, exit, read, write, sleep and kill keep between them.
THEOREM Invariance == Spec => []Inv
<1>1. Inv /\ [Next]_vars => Inv'
  BY InvKeeps
<1>2. QED BY InvStarts, <1>1, PTL DEF Spec

-----------------------------------------------------------------------------
\* Every reference that filealloc, filedup and fileclose count is a slot that
\* names the file, an end of a pipe is open and its page kept exactly as long
\* as a file or a close under way holds it, and no read or write goes on after
\* pipeclose has given its pipe back.
THEOREM DescriptorsAreCounted == Spec => []CountsAreDescriptors
<1>1. Inv => CountsAreDescriptors
  <2> SUFFICES ASSUME Inv PROVE CountsAreDescriptors
    OBVIOUS
  <2>1. Table /\ EndsOpen /\ Busy /\ Fresh /\ TypeInv
    BY DEF Inv, FileInv, Table
  <2>2. CountsAre([f \in Files |-> IF f \in elsewhere THEN 1 ELSE 0])
    BY <2>1 DEF Table, Others
  <2>3. ASSUME NEW end \in Ends, NEW pg
        PROVE  Holds(end, pg) <=> Held(end, pg)
    <3>1. \A f \in Files : IsEnd(f, end, pg) <=> ref[f] > 0 /\ kind[f] = end /\ fpage[f] = pg
      BY <2>1 DEF IsEnd, Fresh, TypeInv, Ends
    <3>2. QED BY <3>1 DEF Holds, Held
  <2>4. "reader" \in Ends /\ "writer" \in Ends
    BY DEF Ends
  <2>5. PipeLives
    <3>1. \A pg \in live : /\ readopen[pg] <=> Holds("reader", pg)
                           /\ writeopen[pg] <=> Holds("writer", pg)
                           /\ readopen[pg] \/ writeopen[pg]
      BY <2>1, <2>3, <2>4 DEF EndsOpen
    <3>2. \A pg \in Pages \ live : ~Holds("reader", pg) /\ ~Holds("writer", pg)
      BY <2>1, <2>3, <2>4 DEF EndsOpen
    <3>3. \A p \in Procs :
            /\ pc[p] \in {"read", "rgap", "rsleep"} => page[p] \in live /\ readopen[page[p]]
            /\ pc[p] \in {"write", "wgap", "wsleep"} => page[p] \in live /\ writeopen[page[p]]
      BY <2>1, EndIsOpen DEF Reading, Writing
    <3>4. QED BY <3>1, <3>2, <3>3 DEF PipeLives
  <2>6. QED BY <2>2, <2>5 DEF CountsAreDescriptors
<1>2. QED BY <1>1, Invariance, PTL

\* No wake-up of a pipe is lost: who sleeps in piperead or pipewrite has the
\* cause it saw before it slept, but for readers that a killed writer, which
\* returns without waking them, has left with bytes to read.
THEOREM SleepersAreWoken == Spec => []SleepersHaveCause
<1>1. Inv => SleepersHaveCause
  BY DEF Inv, Waits, SleepersHaveCause, AsleepReading, AsleepWriting, Sleepers
<1>2. QED BY <1>1, Invariance, PTL

-----------------------------------------------------------------------------
(* Remainders, of which the two counters and the cells of the ring are made. *)

LEMMA Division ==
  ASSUME NEW w \in Nat, w > 0, NEW a \in Int
  PROVE  /\ a \div w \in Int /\ a % w \in 0..(w - 1)
         /\ a = w * (a \div w) + (a % w)
OBVIOUS

\* A number has one remainder.
LEMMA OneRemainder ==
  ASSUME NEW w \in Nat, w > 0, NEW q1 \in Int, NEW q2 \in Int,
         NEW r1 \in 0..(w - 1), NEW r2 \in 0..(w - 1), w * q1 + r1 = w * q2 + r2
  PROVE  r1 = r2
<1>1. ASSUME NEW x \in Int, NEW y \in Int, x > y PROVE w * x >= w * y + w
  <2>1. PICK z \in Nat : x = y + 1 + z
    <3>1. x - y - 1 \in Nat /\ x = y + 1 + (x - y - 1)
      BY <1>1
    <3>2. QED BY <3>1
  <2>2. w * x = w * y + w + w * z /\ w * z >= 0
    BY <2>1
  <2>3. QED BY <2>2
<1>2. CASE q1 > q2
  BY <1>1, <1>2
<1>3. CASE q2 > q1
  BY <1>1, <1>3
<1>4. QED BY <1>2, <1>3

\* A counter that is kept modulo w, and x added to it.
LEMMA RemainderAdds ==
  ASSUME NEW w \in Nat, w > 0, NEW a \in Nat, NEW x \in Nat
  PROVE  ((a % w) + x) % w = (a + x) % w
<1> DEFINE r == a % w
           s == r + x
<1>1. a = w * (a \div w) + r /\ a \div w \in Int /\ r \in 0..(w - 1)
  BY Division
<1> HIDE DEF r
<1>2. s \in Int
  BY <1>1
<1> HIDE DEF s
<1>3. s = w * (s \div w) + (s % w) /\ s \div w \in Int /\ s % w \in 0..(w - 1)
  BY <1>2, Division
<1>4. a + x \in Int /\ a + x = w * ((a + x) \div w) + ((a + x) % w)
      /\ (a + x) \div w \in Int /\ (a + x) % w \in 0..(w - 1)
  BY Division
<1>5. a + x = w * (a \div w) + s
  BY <1>1 DEF s
<1>6. w * (a \div w + s \div w) = w * (a \div w) + w * (s \div w) /\ a \div w + s \div w \in Int
  <2>1. \A c, d \in Int : w * (c + d) = w * c + w * d /\ c + d \in Int
    OBVIOUS
  <2>2. QED BY <1>1, <1>3, <2>1
<1>7. a + x = w * (a \div w + s \div w) + (s % w)
  BY <1>1, <1>2, <1>3, <1>5, <1>6
<1>8. s % w = (a + x) % w
  BY <1>3, <1>4, <1>6, <1>7, OneRemainder
<1>9. QED BY <1>8 DEF s, r

\* The distance of two such counters.
LEMMA RemaindersApart ==
  ASSUME NEW w \in Nat, w > 0, NEW a \in Nat, NEW b \in Nat, b <= a, a - b < w
  PROVE  ((a % w) - (b % w)) % w = a - b
<1> DEFINE r == a % w
           s == b % w
           t == r - s
<1>1. a = w * (a \div w) + r /\ a \div w \in Int /\ r \in 0..(w - 1)
  BY Division
<1>2. b = w * (b \div w) + s /\ b \div w \in Int /\ s \in 0..(w - 1)
  BY Division
<1> HIDE DEF r, s
<1>3. t \in Int
  BY <1>1, <1>2
<1> HIDE DEF t
<1>4. t = w * (t \div w) + (t % w) /\ t \div w \in Int /\ t % w \in 0..(w - 1)
  BY <1>3, Division
<1>5. PICK c \in Int, d \in Int, e \in Int : c = a \div w /\ d = b \div w /\ e = t \div w
  BY <1>1, <1>2, <1>4
<1>6. a - b = w * (c - d + e) + (t % w)
  <2>1. w * (c - d + e) = w * c - w * d + w * e
    OBVIOUS
  <2>2. a - b = w * c - w * d + t /\ t = w * e + (t % w)
    BY <1>1, <1>2, <1>4, <1>5 DEF t
  <2>3. w * c \in Int /\ w * d \in Int /\ w * e \in Int /\ t % w \in Int
    BY <1>4
  <2>4. QED BY <2>1, <2>2, <2>3
<1>7. a - b \in 0..(w - 1) /\ a - b = w * 0 + (a - b) /\ c - d + e \in Int
  OBVIOUS
<1>8. t % w = a - b
  <2>1. PICK x \in 0..(w - 1), y \in 0..(w - 1), q \in Int :
          x = t % w /\ y = a - b /\ q = c - d + e
    BY <1>4, <1>7
  <2>2. w * q + x = w * 0 + y
    BY <1>6, <1>7, <2>1
  <2>3. QED BY <2>1, <2>2, OneRemainder
<1>9. QED BY <1>8 DEF t, r, s

\* The remainder of a remainder.
LEMMA RemainderTwice ==
  ASSUME NEW w \in Nat, w > 0, NEW v \in Nat, v > 0, w % v = 0, NEW a \in Nat
  PROVE  (a % w) % v = a % v
<1> DEFINE r == a % w
<1>1. a = w * (a \div w) + r /\ a \div w \in Int /\ r \in 0..(w - 1)
  BY Division
<1> HIDE DEF r
<1>2. w = v * (w \div v) /\ w \div v \in Int
  BY Division
<1>3. r = v * (r \div v) + (r % v) /\ r \div v \in Int /\ r % v \in 0..(v - 1)
  BY <1>1, Division
<1>4. a = v * (a \div v) + (a % v) /\ a \div v \in Int /\ a % v \in 0..(v - 1)
  BY Division
<1>5. PICK c \in Int, d \in Int, e \in Int : c = w \div v /\ d = a \div w /\ e = r \div v
  BY <1>1, <1>2, <1>3
<1>6. a = v * (c * d + e) + (r % v) /\ c * d + e \in Int
  <2>1. w = v * c /\ a = w * d + r /\ r = v * e + (r % v)
    BY <1>1, <1>2, <1>3, <1>5
  <2>2. (v * c) * d = v * (c * d)
    OBVIOUS
  <2>3. v * (c * d + e) = v * (c * d) + v * e /\ c * d \in Int /\ r % v \in Int
    BY <1>3
  <2>4. QED BY <1>3, <2>1, <2>2, <2>3
<1>7. QED BY <1>3, <1>4, <1>6, OneRemainder DEF r

\* Numbers that are close differ in their remainders.
LEMMA NearRemaindersDiffer ==
  ASSUME NEW v \in Nat, v > 0, NEW a \in Nat, NEW b \in Nat, a < b, b < a + v
  PROVE  a % v # b % v
<1>1. a = v * (a \div v) + (a % v) /\ a \div v \in Int /\ a % v \in 0..(v - 1)
  BY Division
<1>2. b = v * (b \div v) + (b % v) /\ b \div v \in Int /\ b % v \in 0..(v - 1)
  BY Division
<1>3. SUFFICES ASSUME a % v = b % v PROVE FALSE
  OBVIOUS
<1>4. PICK x \in Int, y \in Int : x = b \div v /\ y = a \div v
  BY <1>1, <1>2
<1>5. b - a = v * (x - y) /\ x - y \in Int
  BY <1>1, <1>2, <1>3, <1>4
<1>6. CASE x - y >= 1
  <2>1. PICK z \in Nat : x - y = 1 + z
    <3>1. x - y - 1 \in Nat /\ x - y = 1 + (x - y - 1)
      BY <1>6
    <3>2. QED BY <3>1
  <2>2. v * (1 + z) = v + v * z /\ v * z >= 0 /\ v * z \in Int
    OBVIOUS
  <2>3. QED BY <1>5, <2>1, <2>2
<1>7. CASE x - y <= 0
  <2>1. PICK z \in Nat : x - y = 0 - z
    <3>1. y - x \in Nat /\ x - y = 0 - (y - x)
      BY <1>7
    <3>2. QED BY <3>1
  <2>2. v * (0 - z) = 0 - v * z /\ v * z >= 0 /\ v * z \in Int
    OBVIOUS
  <2>3. QED BY <1>5, <2>1, <2>2
<1>8. QED BY <1>5, <1>6, <1>7

-----------------------------------------------------------------------------
(* The bytes of a pipe. *)

\* The first n bytes that a pipe was given.
Bytes(n) == [i \in 1..n |-> i]

LEMMA BytesAre ==
  ASSUME NEW n \in Nat
  PROVE  /\ Bytes(n) \in Seq(Nat \ {0}) /\ Bytes(n) \in Seq(Nat) /\ Len(Bytes(n)) = n
         /\ \A i \in 1..n : Bytes(n)[i] = i
BY DEF Bytes

LEMMA BytesFollow ==
  ASSUME NEW n \in Nat, NEW k \in Nat, NEW f, f = [i \in 1..k |-> n + i]
  PROVE  Bytes(n) \o f = Bytes(n + k)
<1>1. Bytes(n) \in Seq(Nat) /\ Len(Bytes(n)) = n /\ f \in Seq(Nat) /\ Len(f) = k
  BY BytesAre
<1>2. /\ Bytes(n) \o f \in Seq(Nat) /\ Len(Bytes(n) \o f) = n + k
      /\ \A i \in 1..(n + k) :
           (Bytes(n) \o f)[i] = IF i <= n THEN Bytes(n)[i] ELSE f[i - n]
  <2>1. PICK b \in Seq(Nat) : b = Bytes(n)
    BY <1>1
  <2>2. /\ b \o f \in Seq(Nat) /\ Len(b \o f) = Len(b) + Len(f)
        /\ \A i \in 1..(Len(b) + Len(f)) :
             (b \o f)[i] = IF i <= Len(b) THEN b[i] ELSE f[i - Len(b)]
    BY <1>1, ConcatProperties, Zenon
  <2>3. QED BY <1>1, <2>1, <2>2
<1>3. \A i \in 1..(n + k) : i > n => f[i - n] = i
  <2>1. \A i \in 1..(n + k) : i > n => i - n \in 1..k /\ n + (i - n) = i
    OBVIOUS
  <2>2. QED BY <2>1
<1>4. /\ Bytes(n + k) \in Seq(Nat) /\ Len(Bytes(n + k)) = n + k
      /\ \A i \in 1..(n + k) : Bytes(n + k)[i] = i
      /\ \A i \in 1..n : Bytes(n)[i] = i
  BY BytesAre
<1>5. PICK c \in Seq(Nat), d \in Seq(Nat), b \in Seq(Nat) :
        c = Bytes(n) \o f /\ d = Bytes(n + k) /\ b = Bytes(n)
  BY <1>1, <1>2, <1>4
<1>6. /\ Len(c) = Len(d) /\ Len(c) = n + k
      /\ \A i \in 1..(n + k) : c[i] = IF i <= n THEN b[i] ELSE f[i - n]
  BY <1>2, <1>4, <1>5
<1>7. ASSUME NEW i \in 1..(n + k) PROVE c[i] = d[i]
  <2>1. d[i] = i /\ (i <= n => b[i] = i)
    BY <1>4, <1>5
  <2>2. QED BY <1>3, <1>6, <2>1
<1>8. c = d
  BY <1>6, <1>7, SeqEqual
<1>9. QED BY <1>5, <1>8

LEMMA BytesStart ==
  ASSUME NEW n \in Nat, NEW k \in 0..n
  PROVE  SubSeq(Bytes(n), 1, k) = Bytes(k)
<1>1. /\ SubSeq(Bytes(n), 1, k) \in Seq(Nat) /\ Len(SubSeq(Bytes(n), 1, k)) = k
      /\ \A i \in 1..k : SubSeq(Bytes(n), 1, k)[i] = i
  BY DEF Bytes
<1>2. Bytes(k) \in Seq(Nat) /\ Len(Bytes(k)) = k /\ \A i \in 1..k : Bytes(k)[i] = i
  BY BytesAre
<1>3. QED BY <1>1, <1>2, SeqEqual

\* The cell of the ring that byte j + 1 goes through.
Cell(j) == (j % Width) % PipeSize

LEMMA Cells ==
  /\ \A j \in Nat : Cell(j) \in 0..(PipeSize - 1)
  /\ \A j, x \in Nat : (((j % Width) + x) % Width) % PipeSize = Cell(j + x)
  /\ \A a, b \in Nat : a # b /\ a < b + PipeSize /\ b < a + PipeSize => Cell(a) # Cell(b)
<1>1. /\ Width \in Nat /\ Width > 0 /\ PipeSize \in Nat /\ PipeSize > 0
      /\ Width % PipeSize = 0
  BY PipeAssumption
<1>2. ASSUME NEW j \in Nat
      PROVE  Cell(j) = j % PipeSize /\ j % PipeSize \in 0..(PipeSize - 1)
  <2>1. (j % Width) % PipeSize = j % PipeSize
    BY <1>1, RemainderTwice, Zenon
  <2>2. j % PipeSize \in 0..(PipeSize - 1)
    BY <1>1, Division
  <2>3. QED BY <2>1, <2>2 DEF Cell
<1>3. \A j, x \in Nat : ((j % Width) + x) % Width = (j + x) % Width
  BY <1>1, RemainderAdds
<1>4. ASSUME NEW a \in Nat, NEW b \in Nat, a # b, a < b + PipeSize, b < a + PipeSize
      PROVE  Cell(a) # Cell(b)
  <2>1. CASE a < b
    BY <1>1, <1>2, <1>4, <2>1, NearRemaindersDiffer
  <2>2. CASE b < a
    BY <1>1, <1>2, <1>4, <2>2, NearRemaindersDiffer
  <2>3. QED BY <1>4, <2>1, <2>2
<1>5. QED BY <1>2, <1>3, <1>4 DEF Cell

-----------------------------------------------------------------------------
(* The ring. *)

StreamTypes ==
  /\ sent \in [Pages -> Seq(Nat)] /\ got \in [Pages -> Seq(Nat)]
  /\ data \in [Pages -> [0..(PipeSize - 1) -> Nat]] /\ ended \in [Pages -> BOOLEAN]

\* Of n bytes that went in m have come out, in order; the counters follow, and
\* the ring holds the others.
RingOf(pg, n, m) ==
  /\ m <= n /\ n <= m + PipeSize
  /\ sent[pg] = Bytes(n) /\ got[pg] = Bytes(m)
  /\ nwrite[pg] = n % Width /\ nread[pg] = m % Width
  /\ \A j \in m..(n - 1) : data[pg][Cell(j)] = j + 1

Ring(pg) == \E n, m \in Nat : RingOf(pg, n, m)

\* The ring is in use as far as the counters are apart.
LEMMA UsedIsApart ==
  ASSUME NEW pg, NEW n \in Nat, NEW m \in Nat, RingOf(pg, n, m)
  PROVE  Used(pg) = n - m /\ Room(pg) = PipeSize - (n - m)
<1>1. Width \in Nat /\ Width > 0 /\ PipeSize \in Nat /\ PipeSize < Width
  BY WidthFits
<1>2. n - m < Width /\ m <= n
  BY <1>1 DEF RingOf
<1>3. ((n % Width) - (m % Width)) % Width = n - m
  BY <1>1, <1>2, RemaindersApart
<1>4. QED BY <1>3 DEF Used, Room, RingOf

\* What a step may do to a pipe as a stream.
Bounds(pg) == readopen'[pg] = readopen[pg] /\ writeopen'[pg] = writeopen[pg]

Resting(pg) ==
  /\ sent'[pg] = sent[pg] /\ got'[pg] = got[pg] /\ data'[pg] = data[pg]
  /\ nread'[pg] = nread[pg] /\ nwrite'[pg] = nwrite[pg] /\ ended'[pg] = ended[pg]
  /\ \/ Bounds(pg)
     \/ readopen'[pg] = FALSE /\ writeopen'[pg] = writeopen[pg]
     \/ readopen'[pg] = readopen[pg] /\ writeopen'[pg] = FALSE

Putting(pg) ==
  /\ Bounds(pg) /\ writeopen[pg]
  /\ \E k \in Nat : k <= Room(pg) /\ PutBytes(pg, k)
  /\ got'[pg] = got[pg] /\ nread'[pg] = nread[pg] /\ ended'[pg] = ended[pg]

Taking(pg) ==
  /\ Bounds(pg) /\ readopen[pg]
  /\ \E k \in Nat : /\ k <= Used(pg) /\ TakeBytes(pg, k)
                    /\ \/ k > 0 /\ ended'[pg] = ended[pg]
                       \/ Used(pg) = 0 /\ ~writeopen[pg] /\ ended'[pg] = TRUE
  /\ sent'[pg] = sent[pg] /\ data'[pg] = data[pg] /\ nwrite'[pg] = nwrite[pg]

Starting(pg) ==
  /\ Bounds(pg) /\ sent[pg] = <<>> /\ got[pg] = <<>>
  /\ sent'[pg] = sent[pg] /\ got'[pg] = got[pg] /\ data'[pg] = data[pg]
  /\ nread'[pg] = 0 /\ nwrite'[pg] = 0 /\ ended'[pg] = ended[pg]

\* pipewrite puts each byte where nothing lies that is still to be read.
LEMMA RingPut ==
  ASSUME StreamTypes, TypeInv, NEW pg \in Pages, NEW n \in Nat, NEW m \in Nat,
         RingOf(pg, n, m), NEW k \in Nat, k <= Room(pg), PutBytes(pg, k),
         got'[pg] = got[pg], nread'[pg] = nread[pg]
  PROVE  RingOf(pg, n + k, m)'
<1> DEFINE Index(i) == ((nwrite[pg] + i - 1) % Width) % PipeSize
           new == [i \in 1..k |-> n + i]
<1>1. /\ Width \in Nat /\ Width > 0 /\ PipeSize \in Nat /\ PipeSize > 0
      /\ m <= n /\ n + k <= m + PipeSize
      /\ sent[pg] = Bytes(n) /\ nwrite[pg] = n % Width /\ Len(sent[pg]) = n
  <2>1. Room(pg) = PipeSize - (n - m) /\ PipeSize \in Nat
    BY UsedIsApart, WidthFits
  <2>2. k <= PipeSize - (n - m)
    BY <2>1
  <2>3. n + k <= m + PipeSize
    BY <2>1, <2>2
  <2>4. Len(Bytes(n)) = n
    BY BytesAre
  <2>5. QED BY <2>3, <2>4, WidthFits DEF RingOf
<1>2. /\ sent'[pg] = Bytes(n) \o new
      /\ nwrite'[pg] = ((n % Width) + k) % Width
      /\ \A c \in 0..(PipeSize - 1) :
           data'[pg][c] = IF \E i \in 1..k : Index(i) = c
                          THEN new[CHOOSE i \in 1..k : Index(i) = c] ELSE data[pg][c]
  BY <1>1 DEF PutBytes, StreamTypes, TypeInv
<1>3. \A i \in 1..k : Index(i) = Cell(n + (i - 1)) /\ n + (i - 1) \in Nat
  <2>1. ASSUME NEW i \in 1..k PROVE Index(i) = Cell(n + (i - 1)) /\ n + (i - 1) \in Nat
    <3>1. i - 1 \in Nat /\ n % Width \in Nat
      BY <1>1, Division
    <3>2. (((n % Width) + (i - 1)) % Width) % PipeSize = Cell(n + (i - 1))
      BY <3>1, Cells
    <3>3. nwrite[pg] + i - 1 = (n % Width) + (i - 1)
      BY <1>1, <3>1
    <3>4. QED BY <3>1, <3>2, <3>3
  <2>2. QED BY <2>1
<1> HIDE DEF Index, new
<1>4. ASSUME NEW j \in m..(n + k - 1) PROVE data'[pg][Cell(j)] = j + 1
  <2>1. j \in Nat /\ Cell(j) \in 0..(PipeSize - 1)
    BY Cells
  <2>2. ASSUME NEW i \in 1..k, Index(i) = Cell(j) PROVE n + (i - 1) = j
    <3>1. n + (i - 1) < j + PipeSize /\ j < n + (i - 1) + PipeSize
      BY <1>1
    <3>2. QED BY <1>3, <2>1, <2>2, <3>1, Cells
  <2>3. CASE j >= n
    <3>1. j - n + 1 \in 1..k /\ n + ((j - n + 1) - 1) = j
      BY <2>3
    <3>2. \E i \in 1..k : Index(i) = Cell(j)
      BY <1>3, <3>1
    <3>3. PICK x \in 1..k : x = (CHOOSE i \in 1..k : Index(i) = Cell(j)) /\ Index(x) = Cell(j)
      BY <3>2
    <3>4. n + (x - 1) = j /\ new[x] = n + x
      BY <2>2, <3>3 DEF new
    <3>5. data'[pg][Cell(j)] = new[x]
      BY <1>2, <2>1, <3>2, <3>3
    <3>6. QED BY <3>4, <3>5
  <2>4. CASE j < n
    <3>1. ~\E i \in 1..k : Index(i) = Cell(j)
      BY <2>2, <2>4
    <3>2. data'[pg][Cell(j)] = data[pg][Cell(j)]
      BY <1>2, <2>1, <3>1
    <3>3. j \in m..(n - 1)
      BY <2>4
    <3>4. QED BY <3>2, <3>3 DEF RingOf
  <2>5. QED BY <2>3, <2>4
<1>5. sent'[pg] = Bytes(n + k)
  BY <1>2, BytesFollow DEF new
<1>6. nwrite'[pg] = (n + k) % Width
  BY <1>1, <1>2, RemainderAdds
<1>7. got'[pg] = Bytes(m) /\ nread'[pg] = m % Width
  BY DEF RingOf
<1>8. QED BY <1>1, <1>4, <1>5, <1>6, <1>7 DEF RingOf

\* piperead takes the oldest bytes, in order.
LEMMA RingTake ==
  ASSUME StreamTypes, TypeInv, NEW pg \in Pages, NEW n \in Nat, NEW m \in Nat,
         RingOf(pg, n, m), NEW k \in Nat, k <= Used(pg), TakeBytes(pg, k),
         sent'[pg] = sent[pg], data'[pg] = data[pg], nwrite'[pg] = nwrite[pg]
  PROVE  RingOf(pg, n, m + k)' /\ m + k <= n
<1> DEFINE Index(i) == ((nread[pg] + i - 1) % Width) % PipeSize
<1>1. /\ Width \in Nat /\ Width > 0 /\ PipeSize \in Nat /\ PipeSize > 0
      /\ m <= n /\ m + k <= n /\ n <= m + PipeSize
      /\ got[pg] = Bytes(m) /\ nread[pg] = m % Width
  BY WidthFits, UsedIsApart DEF RingOf
<1>2. ASSUME NEW i \in 1..k PROVE data[pg][Index(i)] = m + i
  <2>1. i - 1 \in Nat /\ m % Width \in Nat /\ m + (i - 1) \in m..(n - 1)
    BY <1>1, Division
  <2>2. (((m % Width) + (i - 1)) % Width) % PipeSize = Cell(m + (i - 1))
    BY <2>1, Cells
  <2>3. nread[pg] + i - 1 = (m % Width) + (i - 1)
    BY <1>1, <2>1
  <2>4. data[pg][Cell(m + (i - 1))] = m + (i - 1) + 1
    BY <2>1 DEF RingOf
  <2>5. QED BY <2>2, <2>3, <2>4
<1>3. /\ got'[pg] = Bytes(m) \o [i \in 1..k |-> data[pg][Index(i)]]
      /\ nread'[pg] = ((m % Width) + k) % Width
  BY <1>1 DEF TakeBytes, StreamTypes, TypeInv
<1>4. [i \in 1..k |-> data[pg][Index(i)]] = [i \in 1..k |-> m + i]
  BY <1>2
<1> HIDE DEF Index
<1>5. got'[pg] = Bytes(m + k)
  BY <1>3, <1>4, BytesFollow
<1>6. nread'[pg] = (m + k) % Width
  BY <1>1, <1>3, RemainderAdds
<1>7. \A j \in (m + k)..(n - 1) : data'[pg][Cell(j)] = j + 1
  BY <1>1 DEF RingOf
<1>8. sent'[pg] = Bytes(n) /\ nwrite'[pg] = n % Width
  BY DEF RingOf
<1>9. QED BY <1>1, <1>5, <1>6, <1>7, <1>8 DEF RingOf

-----------------------------------------------------------------------------
(* Which step does what to a pipe as a stream. *)

Lines == {"pipe", "left", "right", "L1", "L2", "R1", "R2", "C0", "C1", "wait",
          "cmd", "more", "gone", "none"}

\* The shell makes one pipe, and until it has it no pipe has been used.
Young ==
  /\ prog \in [Procs -> Lines]
  /\ \A p \in Procs : pc[p] \in Piping => p = sh /\ prog[sh] # "pipe"
  /\ prog[sh] = "pipe" \/ pc[sh] \in Piping =>
       /\ live = {}
       /\ \A pg \in Pages : /\ sent[pg] = <<>> /\ got[pg] = <<>>
                            /\ readopen[pg] /\ writeopen[pg]

\* Who reads or writes has bytes left to move.
Asking == \A p \in Procs : pc[p] \in Reading \cup Writing => want[p] > 0

StreamInv == StreamTypes /\ Young /\ Asking /\ \A pg \in Pages : Ring(pg)

\* The kernel's steps without the first one of pipe().
CallStep(p) ==
  \/ InKernel(p) \/ SysExit(p) \/ Kill(p)
  \/ \E q \in Procs : Fork(p, q)
  \/ \E fd \in Fds : \/ SysClose(p, fd) \/ SysDup(p, fd)
                     \/ \E k \in Nat : SysRead(p, fd, k) \/ SysWrite(p, fd, k)

\* No line of sh.c leads back to the one that makes the pipe.
LEMMA ProgramSteps ==
  ASSUME TypeInv, prog \in [Procs -> Lines], [Next]_vars
  PROVE  /\ prog' \in [Procs -> Lines]
         /\ prog'[sh] = "pipe" => prog[sh] = "pipe"
         /\ \/ SysPipe(sh) /\ prog[sh] = "pipe" /\ prog'[sh] = "left"
            \/ \E p \in Procs : CallStep(p)
            \/ UNCHANGED kernelVars
<1>0. sh \in Procs /\ Chunks \subseteq Nat /\ 0 \in Fds /\ 1 \in Fds
  BY ShellAssumption, PipeAssumption DEF Fds
<1>1. CASE UNCHANGED vars
  BY <1>1 DEF vars, progVars
<1>2. CASE Killing
  BY <1>2 DEF Killing, progVars, CallStep
<1> DEFINE Goes == prog' \in [Procs -> Lines] /\ (prog'[sh] = "pipe" => prog[sh] = "pipe")
<1>3. ASSUME NEW q \in Procs, NEW line \in Lines \ {"pipe"}, Line(q, line) PROVE Goes
  BY <1>0, <1>3 DEF Line
<1>4. Lines \ {"pipe"} = {"left", "right", "L1", "L2", "R1", "R2", "C0", "C1", "wait",
                          "cmd", "more", "gone", "none"}
  BY DEF Lines
<1>5. ASSUME NEW p \in Procs, Step(p)
      PROVE  /\ Goes
             /\ \/ SysPipe(sh) /\ prog[sh] = "pipe" /\ prog'[sh] = "left"
                \/ CallStep(p) \/ UNCHANGED kernelVars
  <2>1. CASE InKernel(p) /\ UNCHANGED progVars
    BY <2>1 DEF progVars, CallStep
  <2>2. CASE p = sh /\ MakePipe
    <3>1. SysPipe(sh) /\ prog[sh] = "pipe" /\ Line(sh, "left")
      BY <2>2 DEF MakePipe, At
    <3>2. Goes /\ prog'[sh] = "left"
      BY <1>0, <1>3, <1>4, <3>1 DEF Line
    <3>3. QED BY <3>1, <3>2
  <2>3. CASE p = sh /\ (PipeFailed \/ ForkFailed)
    <3>1. SysExit(sh) /\ Line(sh, "gone")
      BY <2>3 DEF PipeFailed, ForkFailed
    <3>2. QED BY <1>0, <1>3, <1>4, <2>3, <3>1 DEF CallStep
  <2>4. CASE p = sh /\ Wait
    BY <1>0, <1>3, <1>4, <2>4 DEF Wait, CallStep
  <2>5. CASE p = sh /\ (Start("left", "right", "L1") \/ Start("right", "C0", "R1"))
    <3>1. PICK q \in Procs, next \in {"right", "C0"}, child \in {"L1", "R1"} :
            Fork(sh, q) /\ prog' = [prog EXCEPT ![sh] = next, ![q] = child]
      BY <2>5 DEF Start
    <3>2. Goes
      BY <1>0, <1>4, <3>1
    <3>3. QED BY <2>5, <3>1, <3>2 DEF CallStep
  <2>6. CASE Redirect(p)
    <3>1. pfd[p][1] \in Fds /\ pfd[p][2] \in Fds
      BY DEF TypeInv
    <3>2. CallStep(p)
      BY <1>0, <2>6, <3>1 DEF Redirect, CallStep
    <3>3. \E line \in {"L2", "C0", "R2", "C1", "wait", "cmd"} : Line(p, line)
      BY <2>6 DEF Redirect, AfterC0
    <3>4. QED BY <1>3, <1>4, <3>2, <3>3
  <2>7. CASE Writes(p) \/ Reads(p)
    <3>1. NotConsole(p) \subseteq Fds
      BY <1>0 DEF NotConsole
    <3>2. CallStep(p)
      BY <1>0, <2>7, <3>1 DEF Writes, Reads, CallStep
    <3>3. Line(p, "more") \/ prog' = prog
      BY <2>7 DEF Writes, Reads
    <3>4. QED BY <1>3, <1>4, <3>2, <3>3
  <2>8. CASE Helps(p) \/ Leaves(p)
    <3>1. CallStep(p) /\ \E q \in Procs : Line(q, "cmd") \/ Line(q, "gone")
      BY <2>8 DEF Helps, Leaves, CallStep
    <3>2. QED BY <1>3, <1>4, <3>1
  <2>9. QED BY <1>5, <2>1, <2>2, <2>3, <2>4, <2>5, <2>6, <2>7, <2>8 DEF Step, Program
<1>6. QED BY <1>1, <1>2, <1>5 DEF Next

LEMMA CallIsKernel ==
  ASSUME NEW p \in Procs, CallStep(p)
  PROVE  KernelStep(p)
BY DEF CallStep, KernelStep

\* The steps that leave all pipes as they are.
LEMMA RestSteps ==
  ASSUME NEW p \in Procs,
         \/ FileClose(p) \/ ExitClose(p) \/ PipeAlloc1(p) \/ PipeNoPage(p) \/ PipeSleep(p)
         \/ SysPipe(p) \/ SysExit(p) \/ Kill(p)
         \/ \E q \in Procs : Fork(p, q)
         \/ \E fd \in Fds : \/ SysClose(p, fd) \/ SysDup(p, fd)
                            \/ \E k \in Nat : SysRead(p, fd, k) \/ SysWrite(p, fd, k)
  PROVE  UNCHANGED <<live, openVars, byteVars>>
BY DEF FileClose, ExitClose, PipeAlloc1, PipeNoPage, PipeSleep, SysPipe, SysExit, Kill, Fork,
       SysClose, SysDup, SysRead, SysWrite, SysMove, pipeVars

LEMMA CallSplits ==
  ASSUME NEW p \in Procs, CallStep(p)
  PROVE  \/ UNCHANGED <<live, openVars, byteVars>>
         \/ PipeClose(p) \/ PipeAllocPage(p) \/ PipeWrite(p) \/ PipeRead(p)
BY RestSteps DEF CallStep, InKernel

LEMMA Rests ==
  ASSUME UNCHANGED <<openVars, byteVars>>
  PROVE  StreamTypes => StreamTypes' /\ \A pg \in Pages : Resting(pg)
BY DEF StreamTypes, Resting, Bounds, openVars, byteVars

\* The steps that change a pipe, and what they do.
LEMMA PipeEffects ==
  ASSUME Inv, StreamInv, NEW p \in Procs, CallStep(p), NEW pg \in Pages
  PROVE  Resting(pg) \/ Putting(pg) \/ Taking(pg) \/ Starting(pg)
<1>1. /\ TypeInv /\ Table /\ EndsOpen /\ Busy /\ StreamTypes /\ Young /\ Asking
      /\ Room(pg) \in Nat /\ Used(pg) \in Nat
  BY WidthFits DEF Inv, FileInv, Table, StreamInv, NeverOverfull, Room
<1>2. CASE UNCHANGED <<live, openVars, byteVars>>
  BY <1>1, <1>2, Rests
<1>3. CASE PipeClose(p)
  BY <1>1, <1>3 DEF PipeClose, Resting, Bounds, byteVars, TypeInv
<1>4. CASE PipeAllocPage(p)
  <2>1. pc[p] = "pipe2"
    BY <1>4 DEF PipeAllocPage
  <2>2. sent[pg] = <<>> /\ got[pg] = <<>> /\ readopen[pg] /\ writeopen[pg]
    BY <1>1, <2>1 DEF Young, Piping
  <2>3. PICK w \in Pages :
          /\ readopen' = [readopen EXCEPT ![w] = TRUE]
          /\ writeopen' = [writeopen EXCEPT ![w] = TRUE]
          /\ nread' = [nread EXCEPT ![w] = 0] /\ nwrite' = [nwrite EXCEPT ![w] = 0]
          /\ UNCHANGED <<data, sent, got, ended>>
    BY <1>4 DEF PipeAllocPage
  <2>4. QED BY <1>1, <2>2, <2>3 DEF Starting, Resting, Bounds, TypeInv
<1>5. CASE PipeWrite(p)
  <2>1. PICK w \in Pages : w = page[p] /\ writeopen[w]
    BY <1>1, <1>5, EndIsOpen DEF PipeWrite, Writing
  <2>2. PICK k : /\ k = Least(want[p], Room(w)) /\ PutBytes(w, k)
                 /\ UNCHANGED <<openVars, nread, got, ended>>
    BY <1>5, <2>1 DEF PipeWrite
  <2>3. CASE w = pg
    <3>1. k \in Nat /\ k <= Room(pg)
      BY <1>1, <2>2, <2>3 DEF Least, TypeInv
    <3>2. QED BY <2>1, <2>2, <2>3, <3>1 DEF Putting, Bounds, openVars
  <2>4. CASE w # pg
    BY <1>1, <2>2, <2>4 DEF PutBytes, Resting, Bounds, StreamTypes, TypeInv, openVars
  <2>5. QED BY <2>3, <2>4
<1>6. CASE PipeRead(p)
  <2>1. PICK w \in Pages : w = page[p] /\ readopen[w] /\ want[p] > 0 /\ want[p] \in Nat
    BY <1>1, <1>6, EndIsOpen DEF PipeRead, Reading, Asking, TypeInv
  <2>2. UNCHANGED <<openVars, nwrite, data, sent>>
    BY <1>6 DEF PipeRead
  <2>3. CASE UNCHANGED <<nread, got, ended>>
    BY <2>2, <2>3 DEF Resting, Bounds, openVars
  <2>4. CASE ~UNCHANGED <<nread, got, ended>>
    <3>1. PICK k : /\ k = Least(want[p], Used(w)) /\ ~MustWait(w) /\ TakeBytes(w, k)
                   /\ ended' = [ended EXCEPT ![w] = @ \/ k = 0]
      BY <1>6, <2>1, <2>4 DEF PipeRead
    <3>2. CASE w = pg
      <4>1. k \in Nat /\ k <= Used(pg) /\ (k = 0 => Used(pg) = 0)
        BY <1>1, <2>1, <3>1, <3>2 DEF Least
      <4>2. k = 0 => ~writeopen[pg]
        BY <1>1, <3>1, <3>2, <4>1 DEF MustWait, TypeInv
      <4>3. ended'[pg] = (ended[pg] \/ k = 0)
        BY <1>1, <3>1, <3>2 DEF StreamTypes
      <4>4. (k > 0 /\ ended'[pg] = ended[pg]) \/ (k = 0 /\ ended'[pg] = TRUE)
        <5>1. ended[pg] \in BOOLEAN
          BY <1>1 DEF StreamTypes
        <5>2. CASE k = 0
          BY <4>3, <5>2, Zenon
        <5>3. CASE k # 0
          <6>1. k > 0
            BY <4>1, <5>3
          <6>2. ended'[pg] = ended[pg]
            <7>1. CASE ended[pg] = TRUE
              BY <4>3, <7>1, Zenon
            <7>2. CASE ended[pg] = FALSE
              BY <4>3, <5>3, <7>2, Zenon
            <7>3. QED BY <5>1, <7>1, <7>2, Zenon
          <6>3. QED BY <6>1, <6>2, Zenon
        <5>4. QED BY <5>2, <5>3, Zenon
      <4>5. QED BY <2>1, <2>2, <3>1, <3>2, <4>1, <4>2, <4>4 DEF Taking, Bounds, openVars
    <3>3. CASE w # pg
      BY <1>1, <2>2, <3>1, <3>3 DEF TakeBytes, Resting, Bounds, StreamTypes, TypeInv, openVars
    <3>4. QED BY <3>2, <3>3
  <2>5. QED BY <2>3, <2>4
<1>7. QED BY <1>2, <1>3, <1>4, <1>5, <1>6, CallSplits

\* The bytes stay in their types.
LEMMA StreamTypesKeep ==
  ASSUME Inv, StreamInv, NEW p \in Procs, CallStep(p)
  PROVE  StreamTypes'
<1>1. /\ TypeInv /\ Table /\ EndsOpen /\ Busy /\ StreamTypes /\ PipeSize \in Nat /\ PipeSize > 0
      /\ \A pg \in Pages : Room(pg) \in Nat /\ Used(pg) \in Nat
  BY WidthFits DEF Inv, FileInv, Table, StreamInv, NeverOverfull, Room
<1>2. CASE UNCHANGED <<live, openVars, byteVars>>
  BY <1>1, <1>2, Rests
<1>3. CASE PipeClose(p) \/ PipeAllocPage(p)
  BY <1>1, <1>3 DEF PipeClose, PipeAllocPage, StreamTypes, byteVars
<1>4. CASE PipeWrite(p)
  <2>1. PICK w \in Pages : w = page[p]
    BY <1>1, <1>4, EndIsOpen DEF PipeWrite, Writing
  <2>2. PICK k : /\ k = Least(want[p], Room(w)) /\ PutBytes(w, k)
                 /\ UNCHANGED <<got, ended>>
    BY <1>4, <2>1 DEF PipeWrite
  <2>3. k \in Nat /\ Len(sent[w]) \in Nat /\ sent[w] \in Seq(Nat)
    BY <1>1, <2>2 DEF Least, TypeInv, StreamTypes
  <2> DEFINE new == [i \in 1..k |-> Len(sent[w]) + i]
  <2>4. new \in Seq(Nat) /\ new \in [1..k -> Nat]
    BY <2>3
  <2>5. sent' = [sent EXCEPT ![w] = @ \o new]
    BY <2>2 DEF PutBytes
  <2>6. sent[w] \o new \in Seq(Nat)
    BY <2>3, <2>4, ConcatProperties
  <2> DEFINE Index(i) == ((nwrite[w] + i - 1) % Width) % PipeSize
             Cells1 == [j \in 0..(PipeSize - 1) |->
                          IF \E i \in 1..k : Index(i) = j
                          THEN new[CHOOSE i \in 1..k : Index(i) = j] ELSE data[w][j]]
  <2>7. data' = [data EXCEPT ![w] = Cells1]
    BY <2>1, <2>2 DEF PutBytes, StreamTypes
  <2> HIDE DEF Index, new
  <2>8. Cells1 \in [0..(PipeSize - 1) -> Nat]
    <3>1. ASSUME NEW j \in 0..(PipeSize - 1), \E i \in 1..k : Index(i) = j
          PROVE  new[CHOOSE i \in 1..k : Index(i) = j] \in Nat
      BY <2>4, <3>1
    <3>2. \A j \in 0..(PipeSize - 1) : data[w][j] \in Nat
      BY <1>1 DEF StreamTypes
    <3>3. QED BY <3>1, <3>2
  <2> HIDE DEF Cells1
  <2>9. QED BY <1>1, <2>2, <2>5, <2>6, <2>7, <2>8 DEF StreamTypes
<1>5. CASE PipeRead(p)
  <2>1. PICK w \in Pages : w = page[p] /\ want[p] \in Nat
    BY <1>1, <1>5, EndIsOpen DEF PipeRead, Reading, TypeInv
  <2>2. UNCHANGED <<data, sent>>
    BY <1>5 DEF PipeRead
  <2>3. CASE UNCHANGED <<nread, got, ended>>
    BY <1>1, <2>2, <2>3 DEF StreamTypes
  <2>4. CASE ~UNCHANGED <<nread, got, ended>>
    <3>1. PICK k : /\ k = Least(want[p], Used(w)) /\ TakeBytes(w, k)
                   /\ ended' = [ended EXCEPT ![w] = @ \/ k = 0]
      BY <1>5, <2>1, <2>4 DEF PipeRead
    <3>2. k \in Nat
      BY <1>1, <2>1, <3>1 DEF Least
    <3> DEFINE Index(i) == ((nread[w] + i - 1) % Width) % PipeSize
               out == [i \in 1..k |-> data[w][Index(i)]]
    <3>3. \A i \in 1..k : Index(i) \in 0..(PipeSize - 1)
      <4>1. \A i \in 1..k : nread[w] + i - 1 \in Int
        BY <1>1, <3>2, WidthFits DEF TypeInv
      <4>2. \A i \in 1..k : (nread[w] + i - 1) % Width \in Int
        BY <4>1, WidthFits, Division
      <4>3. QED BY <1>1, <4>2, Division
    <3> HIDE DEF Index
    <3>4. out \in Seq(Nat)
      <4>1. \A i \in 1..k : data[w][Index(i)] \in Nat
        BY <1>1, <3>3 DEF StreamTypes
      <4>2. QED BY <3>2, <4>1
    <3>5. got' = [got EXCEPT ![w] = @ \o out]
      BY <3>1 DEF TakeBytes, Index
    <3> HIDE DEF out
    <3>6. got[w] \o out \in Seq(Nat)
      BY <1>1, <3>4, ConcatProperties DEF StreamTypes
    <3>7. ended' \in [Pages -> BOOLEAN]
      BY <1>1, <3>1 DEF StreamTypes
    <3>8. QED BY <1>1, <2>2, <3>5, <3>6, <3>7 DEF StreamTypes
  <2>5. QED BY <2>3, <2>4
<1>6. QED BY <1>2, <1>3, <1>4, <1>5, CallSplits

\* Nobody but the shell comes into pipe(), and it comes once.
LEMMA PipingKeeps ==
  ASSUME Table, NEW p \in Procs, CallStep(p), NEW q \in Procs, pc'[q] \in Piping
  PROVE  pc[q] \in Piping
<1>0. TypeInv /\ Phases /\ pc \in [Procs -> Places]
  BY DEF Table, TypeInv
<1>1. CASE Quiet
  BY <1>1 DEF Quiet, Moves, Calm, Reading, Writing, Piping
<1>2. CASE FdClosed(p) \/ FileClose(p)
  <2>1. PICK g \in Files : Closed(p, g)
    BY <1>2, ClosedSteps
  <2>2. QED BY <2>1 DEF Closed, Piping
<1>3. CASE PipeClose(p)
  <2>1. pc[p] \in {"closing", "exiting"}
    BY <1>0, <1>3 DEF PipeClose, Phases
  <2>2. \E S, more : WakeAndGoto(S, p, Place(pc[p], more))
    BY <1>3 DEF PipeClose
  <2>3. QED BY <1>0, <2>1, <2>2 DEF WakeAndGoto, Place, Piping
<1>4. CASE \E fd \in Fds : SysDup(p, fd)
  BY <1>4 DEF SysDup
<1>5. CASE PipeAlloc1(p)
  <2>1. pc[p] = "pipe1" /\ \E place : Goto(p, place)
    BY <1>5 DEF PipeAlloc1, AllocFile
  <2>2. QED BY <1>0, <2>1 DEF Goto, Piping
<1>6. CASE PipeAllocPage(p)
  <2>1. pc[p] = "pipe2" /\ \E place : Goto(p, place)
    BY <1>6 DEF PipeAllocPage
  <2>2. QED BY <1>0, <2>1 DEF Goto, Piping
<1>7. CASE \E r \in Procs : Fork(p, r)
  <2>1. PICK r \in Procs : Goto(r, "user")
    BY <1>7 DEF Fork
  <2>2. QED BY <1>0, <2>1 DEF Goto, Piping
<1>8. CASE \E fd \in Fds : SysClose(p, fd)
  BY <1>1, <1>2, <1>8, SysCloseSteps
<1>9. CASE SysExit(p) \/ ExitClose(p)
  BY <1>1, <1>2, <1>9, ExitSteps
<1>10. CASE \/ PipeNoPage(p) \/ PipeWrite(p) \/ PipeRead(p) \/ PipeSleep(p) \/ Kill(p)
            \/ \E fd \in Fds, k \in Nat : SysRead(p, fd, k) \/ SysWrite(p, fd, k)
  BY <1>1, <1>10, QuietSteps
<1>11. QED BY <1>2, <1>3, <1>4, <1>5, <1>6, <1>7, <1>8, <1>9, <1>10 DEF CallStep, InKernel

LEMMA YoungKeeps ==
  ASSUME Inv, StreamInv, [Next]_vars
  PROVE  Young'
<1>1. /\ TypeInv /\ Table /\ EndsOpen /\ Busy /\ Young /\ prog \in [Procs -> Lines]
      /\ sh \in Procs /\ pc \in [Procs -> Places]
  BY ShellAssumption DEF Inv, FileInv, Table, StreamInv, Young, TypeInv
<1>2. /\ prog' \in [Procs -> Lines]
      /\ prog'[sh] = "pipe" => prog[sh] = "pipe"
      /\ \/ SysPipe(sh) /\ prog[sh] = "pipe" /\ prog'[sh] = "left"
         \/ \E p \in Procs : CallStep(p)
         \/ UNCHANGED kernelVars
  BY <1>1, ProgramSteps
<1>3. CASE SysPipe(sh) /\ prog[sh] = "pipe" /\ prog'[sh] = "left"
  <2>1. UNCHANGED <<live, openVars, byteVars>>
    BY <1>1, <1>3, RestSteps
  <2>2. \E place : Goto(sh, place)
    BY <1>3 DEF SysPipe, AllocFile
  <2>3. \A q \in Procs : pc'[q] \in Piping => q = sh
    BY <1>1, <2>2 DEF Goto, Young
  <2>4. QED BY <1>1, <1>2, <1>3, <2>1, <2>3 DEF Young, openVars, byteVars
<1>4. ASSUME NEW p \in Procs, CallStep(p) PROVE Young'
  <2>1. \A q \in Procs : pc'[q] \in Piping => pc[q] \in Piping
    BY <1>1, <1>4, PipingKeeps
  <2>2. \A q \in Procs : pc'[q] \in Piping => q = sh /\ prog'[sh] # "pipe"
    BY <1>1, <1>2, <2>1 DEF Young
  <2>3. ASSUME prog'[sh] = "pipe" \/ pc'[sh] \in Piping
        PROVE  /\ live' = {}
               /\ \A pg \in Pages : /\ sent'[pg] = <<>> /\ got'[pg] = <<>>
                                    /\ readopen'[pg] /\ writeopen'[pg]
    <3>1. prog[sh] = "pipe" \/ pc[sh] \in Piping
      BY <1>1, <1>2, <2>1, <2>3
    <3>2. /\ live = {}
          /\ \A pg \in Pages : sent[pg] = <<>> /\ got[pg] = <<>> /\ readopen[pg] /\ writeopen[pg]
      BY <1>1, <3>1 DEF Young
    <3>3. ~PipeWrite(p) /\ ~PipeRead(p)
      BY <1>1, <3>2, EndIsOpen DEF PipeWrite, PipeRead, Reading, Writing
    <3>4. ~PipeClose(p)
      <4>1. SUFFICES ASSUME PipeClose(p) PROVE FALSE
        OBVIOUS
      <4>2. PICK e \in Ends, pg \in Pages : ff[p] = <<e, pg>>
        BY <1>1, <4>1 DEF PipeClose, TypeInv
      <4>3. Held(e, pg)
        BY <4>2 DEF Held
      <4>4. QED BY <1>1, <3>2, <4>3 DEF EndsOpen
    <3>5. ~PipeAllocPage(p)
      <4>1. SUFFICES ASSUME PipeAllocPage(p) PROVE FALSE
        OBVIOUS
      <4>2. /\ pc[p] = "pipe2"
            /\ Goto(p, "user") \/ Goto(p, "closing")
        BY <4>1 DEF PipeAllocPage
      <4>3. p = sh /\ prog[sh] # "pipe"
        BY <1>1, <4>2 DEF Young, Piping
      <4>4. pc'[sh] \in {"user", "closing"}
        BY <1>1, <4>2, <4>3 DEF Goto
      <4>5. QED BY <1>2, <2>3, <4>3, <4>4 DEF Piping
    <3>6. UNCHANGED <<live, openVars, byteVars>>
      BY <1>4, <3>3, <3>4, <3>5, CallSplits
    <3>7. QED BY <3>2, <3>6 DEF openVars, byteVars
  <2>4. QED BY <1>2, <2>2, <2>3 DEF Young
<1>5. CASE UNCHANGED kernelVars
  <2>1. UNCHANGED <<pc, live, readopen, writeopen, sent, got>>
    BY <1>5 DEF kernelVars, procVars, pipeVars, openVars, byteVars
  <2>2. QED BY <1>1, <1>2, <2>1 DEF Young
<1>6. QED BY <1>2, <1>3, <1>4, <1>5

\* Only a call that asks for bytes begins to move some, and who goes to sleep
\* has some left.
LEMMA AskingKeeps ==
  ASSUME Inv, Asking, NEW p \in Procs, KernelStep(p)
  PROVE  Asking'
<1>0. /\ TypeInv /\ Table /\ Phases /\ pc \in [Procs -> Places] /\ want \in [Procs -> Nat]
      /\ \A w \in Pages : Room(w) \in Nat
  BY WidthFits DEF Inv, FileInv, Table, TypeInv, NeverOverfull, Room
<1> DEFINE Moving == Reading \cup Writing
<1>1. ASSUME want' = want, \A q \in Procs : pc'[q] \in Moving => pc[q] \in Moving
      PROVE  Asking'
  BY <1>1 DEF Asking
<1>2. CASE FdClosed(p) \/ FileClose(p)
  <2>1. PICK g \in Files : Closed(p, g)
    BY <1>0, <1>2, ClosedSteps
  <2>2. QED BY <1>1, <2>1 DEF Closed, Reading, Writing
<1>3. CASE PipeClose(p)
  <2>1. pc[p] \in {"closing", "exiting"} /\ want' = want
    BY <1>0, <1>3 DEF PipeClose, Phases
  <2>2. \E pg, more : \/ WakeAndGoto(AsleepReading(pg), p, Place(pc[p], more))
                      \/ WakeAndGoto(AsleepWriting(pg), p, Place(pc[p], more))
    BY <1>3 DEF PipeClose
  <2>3. QED BY <1>0, <1>1, <2>1, <2>2
        DEF WakeAndGoto, AsleepReading, AsleepWriting, Sleepers, Place, Reading, Writing
<1>4. CASE (\E fd \in Fds : SysDup(p, fd)) \/ SysPipe(p) \/ PipeAlloc1(p) \/ PipeNoPage(p)
           \/ PipeAllocPage(p)
  <2>1. want' = want /\ (pc' = pc \/ \E place \in {"pipe1", "pipe2", "closing", "user"} : Goto(p, place))
    BY <1>4 DEF SysDup, SysPipe, PipeAlloc1, PipeNoPage, PipeAllocPage, AllocFile, Place
  <2>2. QED BY <1>0, <1>1, <2>1 DEF Goto, Reading, Writing
<1>5. CASE \E q \in Procs : Fork(p, q)
  <2>1. want' = want /\ \E q \in Procs : Goto(q, "user")
    BY <1>5 DEF Fork
  <2>2. QED BY <1>0, <1>1, <2>1 DEF Goto, Reading, Writing
<1>6. CASE PipeSleep(p) \/ Kill(p)
  BY <1>0, <1>1, <1>6 DEF PipeSleep, Kill, Goto, Reading, Writing
<1>7. ASSUME NEW fd \in Fds, NEW k \in Nat, SysRead(p, fd, k) \/ SysWrite(p, fd, k)
      PROVE  Asking'
  BY <1>0, <1>7 DEF SysRead, SysWrite, SysMove, Goto, Running, Asking, Reading, Writing
<1>8. CASE PipeRead(p)
  <2>1. pc[p] = "read" /\ \A q \in Procs : q # p => want'[q] = want[q]
    BY <1>0, <1>8 DEF PipeRead, Return
  <2>2. \/ \E pg : WakeAndGoto(AsleepWriting(pg), p, "user")
        \/ Goto(p, "user")
        \/ Goto(p, "rgap") /\ want' = want
    BY <1>8 DEF PipeRead
  <2>3. QED BY <1>0, <2>1, <2>2
        DEF WakeAndGoto, AsleepWriting, Sleepers, Goto, Asking, Reading, Writing
<1>9. CASE PipeWrite(p)
  <2>1. pc[p] = "write" /\ \A q \in Procs : q # p => want'[q] = want[q]
    BY <1>0, <1>9 DEF PipeWrite, Return
  <2>2. \/ \E pg : WakeAndGoto(AsleepReading(pg), p, "user")
        \/ Goto(p, "user")
        \/ \E pg, k : /\ WakeAndGoto(AsleepReading(pg), p, "wgap")
                      /\ k = Least(want[p], Room(page[p])) /\ want[p] > k
                      /\ want'[p] = want[p] - k
    BY <1>0, <1>9 DEF PipeWrite
  <2>3. page[p] \in Pages
    BY <2>1 DEF Inv, FileInv, Busy, Writing
  <2>4. \A k : k = Least(want[p], Room(page[p])) => k \in Nat
    BY <1>0, <2>3 DEF Least
  <2>5. QED BY <1>0, <2>1, <2>2, <2>4
        DEF WakeAndGoto, AsleepReading, Sleepers, Goto, Asking, Reading, Writing
<1>10. CASE Quiet /\ SysExit(p) /\ OpenFds(p) = {}
  <2>1. want' = want /\ Goto(p, "zombie")
    BY <1>10 DEF SysExit
  <2>2. QED BY <1>0, <1>1, <2>1 DEF Goto, Reading, Writing
<1>11. CASE SysExit(p) \/ ExitClose(p)
  BY <1>0, <1>2, <1>10, <1>11, ExitSteps
<1>12. ASSUME NEW fd \in Fds, SysClose(p, fd) PROVE Asking'
  <2>1. CASE FdClosed(p)
    BY <1>2, <2>1
  <2>2. CASE ofile[p][fd] = NoFile
    BY <1>1, <1>12, <2>2 DEF SysClose
  <2>3. CASE ofile[p][fd] # NoFile
    <3>1. CloseFd(p, fd, "closing", FALSE) /\ fd \in OpenFds(p)
      BY <1>12, <2>3 DEF SysClose, OpenFds
    <3>2. pc[p] = "user" /\ ff[p] = None /\ UNCHANGED <<pf, page, want, pfd, killed, pipeVars>>
      BY <1>0, <1>12, UserHasNothing DEF SysClose, Running
    <3>3. FdClosed(p)
      BY <3>1, <3>2 DEF FdClosed
    <3>4. QED BY <2>1, <3>3
  <2>4. QED BY <2>2, <2>3
<1>13. QED BY <1>2, <1>3, <1>4, <1>5, <1>6, <1>7, <1>8, <1>9, <1>11, <1>12
       DEF KernelStep, InKernel

\* What the kernel does to a pipe keeps the ring.
LEMMA RingKeeps ==
  ASSUME StreamTypes, TypeInv, NEW pg \in Pages, Ring(pg),
         Resting(pg) \/ Putting(pg) \/ Taking(pg) \/ Starting(pg)
  PROVE  Ring(pg)'
<1>1. PICK n \in Nat, m \in Nat : RingOf(pg, n, m)
  BY DEF Ring
<1>2. CASE Resting(pg)
  BY <1>1, <1>2 DEF Ring, RingOf, Resting
<1>3. CASE Putting(pg)
  <2>1. PICK k \in Nat : k <= Room(pg) /\ PutBytes(pg, k)
    BY <1>3 DEF Putting
  <2>2. RingOf(pg, n + k, m)' /\ n + k \in Nat
    BY <1>1, <1>3, <2>1, RingPut DEF Putting
  <2>3. QED BY <2>2 DEF Ring
<1>4. CASE Taking(pg)
  <2>1. PICK k \in Nat : k <= Used(pg) /\ TakeBytes(pg, k)
    BY <1>4 DEF Taking
  <2>2. RingOf(pg, n, m + k)' /\ m + k \in Nat
    BY <1>1, <1>4, <2>1, RingTake DEF Taking
  <2>3. QED BY <2>2 DEF Ring
<1>5. CASE Starting(pg)
  <2>1. RingOf(pg, 0, 0)'
    <3>1. Bytes(0) = <<>> /\ 0 % Width = 0 /\ PipeSize \in Nat /\ ~\E j : j \in 0..(0 - 1)
      BY WidthFits, Modulo DEF Bytes
    <3>2. QED BY <1>5, <3>1 DEF Starting, RingOf
  <2>2. QED BY <2>1 DEF Ring
<1>6. QED BY <1>2, <1>3, <1>4, <1>5

LEMMA StreamInvKeeps ==
  ASSUME Inv, StreamInv, [Next]_vars
  PROVE  StreamInv'
<1>1. TypeInv /\ StreamTypes /\ Young /\ Asking /\ \A pg \in Pages : Ring(pg)
  BY DEF Inv, FileInv, Table, StreamInv
<1>2. Young'
  BY YoungKeeps
<1>3. \/ SysPipe(sh) \/ (\E p \in Procs : CallStep(p)) \/ UNCHANGED kernelVars
  BY <1>1, ProgramSteps DEF Young
<1>4. ASSUME UNCHANGED <<openVars, byteVars>>, Asking' PROVE StreamInv'
  BY <1>1, <1>2, <1>4, Rests, RingKeeps DEF StreamInv
<1>5. CASE SysPipe(sh)
  <2>1. sh \in Procs /\ KernelStep(sh) /\ UNCHANGED <<openVars, byteVars>>
    BY <1>5, RestSteps, ShellAssumption DEF KernelStep
  <2>2. QED BY <1>1, <1>4, <2>1, AskingKeeps
<1>6. CASE UNCHANGED kernelVars
  BY <1>1, <1>4, <1>6 DEF kernelVars, procVars, pipeVars, Asking
<1>7. ASSUME NEW p \in Procs, CallStep(p) PROVE StreamInv'
  <2>1. Asking'
    BY <1>1, <1>7, CallIsKernel, AskingKeeps
  <2>2. StreamTypes'
    BY <1>7, StreamTypesKeep
  <2>3. \A pg \in Pages : Ring(pg)'
    BY <1>1, <1>7, PipeEffects, RingKeeps
  <2>4. QED BY <1>2, <2>1, <2>2, <2>3 DEF StreamInv
<1>8. QED BY <1>3, <1>5, <1>6, <1>7

LEMMA StreamInvStarts == Init => StreamInv
<1> SUFFICES ASSUME Init PROVE StreamInv
  OBVIOUS
<1>1. /\ pc = [p \in Procs |-> IF p = sh THEN "user" ELSE "unused"] /\ live = {}
      /\ nread = [pg \in Pages |-> 0] /\ nwrite = [pg \in Pages |-> 0]
      /\ data = [pg \in Pages |-> [i \in 0..(PipeSize - 1) |-> 0]]
      /\ readopen = [pg \in Pages |-> TRUE] /\ writeopen = [pg \in Pages |-> TRUE]
      /\ sent = [pg \in Pages |-> <<>>] /\ got = [pg \in Pages |-> <<>>]
      /\ ended = [pg \in Pages |-> FALSE]
      /\ prog = [p \in Procs |-> IF p = sh THEN "pipe" ELSE "none"]
  BY DEF Init
<1>2. StreamTypes
  BY <1>1 DEF StreamTypes
<1>3. Young
  BY <1>1, ShellAssumption DEF Young, Lines, Piping
<1>4. Asking
  BY <1>1 DEF Asking, Reading, Writing
<1>5. ASSUME NEW pg \in Pages PROVE RingOf(pg, 0, 0)
  <2>1. Bytes(0) = <<>> /\ 0 % Width = 0 /\ PipeSize \in Nat /\ ~\E j : j \in 0..(0 - 1)
    BY WidthFits, Modulo DEF Bytes
  <2>2. QED BY <1>1, <2>1 DEF RingOf
<1>6. QED BY <1>2, <1>3, <1>4, <1>5 DEF StreamInv, Ring

LEMMA StreamInvariance == Spec => []StreamInv
<1>1. Init => Inv /\ StreamInv
  BY InvStarts, StreamInvStarts
<1>2. Inv /\ Inv' /\ StreamInv /\ [Next]_vars => StreamInv'
  BY StreamInvKeeps
<1>3. QED BY <1>1, <1>2, Invariance, PTL DEF Spec

-----------------------------------------------------------------------------
(* The pipe implements the stream. *)

LEMMA ThePageIsOne == thePage \in Pages
BY ShellAssumption DEF thePage

\* What is done to a ring is a step of the stream or none of its business.
LEMMA StreamStep ==
  ASSUME StreamTypes, TypeInv, Ring(thePage),
         Resting(thePage) \/ Putting(thePage) \/ Taking(thePage) \/ Starting(thePage)
  PROVE  [ByteStream!Next]_(ByteStream!vars)
<1> DEFINE pg == thePage
<1>0. pg \in Pages
  BY ThePageIsOne
<1>1. PICK n \in Nat, m \in Nat : RingOf(pg, n, m)
  BY DEF Ring
<1>2. /\ sent[pg] = Bytes(n) /\ got[pg] = Bytes(m) /\ m <= n
      /\ Used(pg) = n - m /\ Room(pg) = PipeSize - (n - m) /\ PipeSize \in Nat
      /\ Len(Bytes(n)) = n /\ Len(Bytes(m)) = m
  <2>1. Used(pg) = n - m /\ Room(pg) = PipeSize - (n - m)
    BY <1>0, <1>1, UsedIsApart
  <2>2. Len(Bytes(n)) = n /\ Len(Bytes(m)) = m
    BY BytesAre
  <2>3. QED BY <1>1, <2>1, <2>2, WidthFits DEF RingOf
<1> HIDE DEF pg
<1>3. CASE Resting(pg)
  <2>1. CASE Bounds(pg)
    BY <1>3, <2>1 DEF pg, Resting, Bounds, ByteStream!vars
  <2>2. CASE readopen'[pg] = FALSE /\ writeopen'[pg] = writeopen[pg]
    <3>1. ByteStream!CloseReading
      BY <1>3, <2>2 DEF pg, Resting, ByteStream!CloseReading
    <3>2. QED BY <3>1 DEF ByteStream!Next
  <2>3. CASE readopen'[pg] = readopen[pg] /\ writeopen'[pg] = FALSE
    <3>1. ByteStream!CloseWriting
      BY <1>3, <2>3 DEF pg, Resting, ByteStream!CloseWriting
    <3>2. QED BY <3>1 DEF ByteStream!Next
  <2>4. QED BY <1>3, <2>1, <2>2, <2>3 DEF Resting
<1>4. CASE Putting(pg)
  <2>1. PICK k \in Nat : k <= Room(pg) /\ PutBytes(pg, k)
    BY <1>4 DEF Putting
  <2>2. RingOf(pg, n + k, m)' /\ n + k \in Nat
    BY <1>0, <1>1, <1>4, <2>1, RingPut DEF Putting
  <2>3. /\ sent'[pg] = Bytes(n + k) /\ Len(sent'[pg]) = n + k
        /\ sent'[pg] \in Seq(Nat \ {0})
    BY <2>2, BytesAre DEF RingOf
  <2>4. sent[pg] = SubSeq(sent'[pg], 1, n)
    <3>1. n \in 0..(n + k)
      OBVIOUS
    <3>2. SubSeq(Bytes(n + k), 1, n) = Bytes(n)
      BY <2>2, <3>1, BytesStart
    <3>3. QED BY <1>2, <2>3, <3>2
  <2>5. n \in 0..Len(sent'[pg]) /\ Len(sent'[pg]) - Len(got[pg]) <= PipeSize
    BY <1>2, <2>1, <2>3
  <2>6. /\ writeopen[pg] /\ got'[pg] = got[pg] /\ ended'[pg] = ended[pg]
        /\ writeopen'[pg] = writeopen[pg] /\ readopen'[pg] = readopen[pg]
    BY <1>4 DEF Putting, Bounds
  <2>7. ByteStream!Write
    BY <2>3, <2>4, <2>5, <2>6 DEF pg, ByteStream!Write
  <2>8. QED BY <2>7 DEF ByteStream!Next
<1>5. CASE Taking(pg)
  <2>1. PICK k \in Nat :
          /\ k <= Used(pg) /\ TakeBytes(pg, k)
          /\ \/ k > 0 /\ ended'[pg] = ended[pg]
             \/ Used(pg) = 0 /\ ~writeopen[pg] /\ ended'[pg] = TRUE
    BY <1>5 DEF Taking
  <2>2. RingOf(pg, n, m + k)' /\ m + k <= n
    BY <1>0, <1>1, <1>5, <2>1, RingTake DEF Taking
  <2>3. /\ readopen[pg] /\ sent'[pg] = sent[pg]
        /\ writeopen'[pg] = writeopen[pg] /\ readopen'[pg] = readopen[pg]
    BY <1>5 DEF Taking, Bounds
  <2>4. got'[pg] = Bytes(m + k)
    BY <2>2 DEF RingOf
  <2>5. CASE ended'[pg] = ended[pg]
    <3>1. got'[pg] = SubSeq(sent[pg], 1, m + k)
      BY <1>2, <2>2, <2>4, BytesStart
    <3>2. m + k \in Len(got[pg])..Len(sent[pg])
      BY <1>2, <2>2
    <3>3. ByteStream!Read
      BY <2>3, <2>5, <3>1, <3>2 DEF pg, ByteStream!Read
    <3>4. QED BY <3>3 DEF ByteStream!Next
  <2>6. CASE Used(pg) = 0 /\ ~writeopen[pg] /\ ended'[pg] = TRUE
    <3>1. m = n /\ k = 0
      BY <1>2, <2>1, <2>6
    <3>2. got[pg] = sent[pg] /\ got'[pg] = got[pg]
      BY <1>2, <2>4, <3>1
    <3>3. ByteStream!End
      BY <2>3, <2>6, <3>2 DEF pg, ByteStream!End
    <3>4. QED BY <3>3 DEF ByteStream!Next
  <2>7. QED BY <2>1, <2>5, <2>6
<1>6. CASE Starting(pg)
  BY <1>6 DEF pg, Starting, Bounds, ByteStream!vars
<1>7. QED BY <1>3, <1>4, <1>5, <1>6 DEF pg

\* THEOREM: each pipe, as its two sides use it, is a stream: the bytes of the
\* writers come out of the ring of pipewrite and piperead in the order in which
\* they went in, each once, also after the counters of the pipe have wrapped;
\* never more than PIPESIZE of them are under way, and piperead reports the end
\* only when all have been read and no writer is left.
THEOREM PipeIsStream == Spec => IsStream
<1>1. Init => ByteStream!Init
  BY ThePageIsOne DEF Init, ByteStream!Init
<1>2. Inv /\ StreamInv /\ [Next]_vars => [ByteStream!Next]_(ByteStream!vars)
  <2> SUFFICES ASSUME Inv, StreamInv, [Next]_vars
               PROVE  [ByteStream!Next]_(ByteStream!vars)
    OBVIOUS
  <2>1. TypeInv /\ StreamTypes /\ Young /\ Ring(thePage)
    BY ThePageIsOne DEF Inv, FileInv, Table, StreamInv
  <2>2. \/ SysPipe(sh) \/ (\E p \in Procs : CallStep(p)) \/ UNCHANGED kernelVars
    BY <2>1, ProgramSteps DEF Young
  <2>3. CASE SysPipe(sh) \/ UNCHANGED kernelVars
    <3>1. UNCHANGED <<openVars, byteVars>>
      BY <2>3, RestSteps, ShellAssumption DEF kernelVars, pipeVars
    <3>2. QED BY <2>1, <3>1, Rests, StreamStep, ThePageIsOne
  <2>4. CASE \E p \in Procs : CallStep(p)
    BY <2>1, <2>4, PipeEffects, StreamStep, ThePageIsOne
  <2>5. QED BY <2>2, <2>3, <2>4
<1>3. QED BY <1>1, <1>2, Invariance, StreamInvariance, PTL
          DEF Spec, IsStream, ByteStream!Spec

=============================================================================
