--------------------------------- MODULE Pipe ---------------------------------
(***************************************************************************)
(* Pipes and the file table: kernel/pipe.c, the part of kernel/file.c and  *)
(* kernel/sysfile.c that handles descriptors, and what fork and exit of    *)
(* kernel/proc.c do to them.                                               *)
(*                                                                         *)
(* A system call is one step for each hold of ftable.lock or of the lock   *)
(* of the pipe.  sleep() is a step of its own: the pipe's lock keeps the   *)
(* other side away until it, but not kill(), which takes ptable.lock only. *)
(***************************************************************************)
EXTENDS Integers, Sequences, FiniteSets

CONSTANTS
  Procs,      \* the processes, by their place in the process table
  NFILE,      \* entries of the file table (100 in param.h)
  NOFILE,     \* descriptors of a process (16 in param.h)
  Pages,      \* the pages kalloc may give to a pipe
  PipeSize,   \* PIPESIZE (512)
  Width,      \* number of values of nread and nwrite (2^32)
  None

ASSUME PipeAssumption ==
  /\ IsFiniteSet(Procs) /\ Procs \subseteq Nat
  /\ None \notin Procs \cup Pages /\ None \notin {"reader", "writer"} \X Pages
  /\ NFILE \in Nat \ {0} /\ NOFILE \in Nat \ {0}
  /\ PipeSize \in Nat \ {0} /\ Width \in Nat
  /\ Width > PipeSize /\ Width % PipeSize = 0

NoFile == 0
Files  == 1..NFILE
Fds    == 0..(NOFILE - 1)

VARIABLES
  ref, kind,     \* struct file: reference count, type with readable/writable
  fpage,         \* struct file: the pipe
  ofile,         \* proc->ofile
  pf,            \* pipe(): the files rf and wf while it holds them
  ff,            \* fileclose: its copy of a pipe's file whose count fell to 0
  pc,            \* where the process is in the kernel
  page, want,    \* pipe and bytes left of a read or write under way
  ret,           \* the sign of the last result
  pfd,           \* int p[2] of the program
  killed,
  live,          \* pages that hold a struct pipe
  lock,          \* who keeps the pipe's lock between two steps
  nread, nwrite, data, readopen, writeopen,
  sent, got, ended   \* history: bytes written and read, end of file seen

fileVars == <<ref, kind, fpage>>
openVars == <<readopen, writeopen>>
byteVars == <<nread, nwrite, data, sent, got, ended>>
pipeVars == <<live, lock, openVars, byteVars>>
procVars == <<ofile, pf, ff, pc, page, want, ret, pfd, killed>>
kernelVars == <<fileVars, procVars, pipeVars>>

Kinds == {"none", "inode", "reader", "writer"}

Running(p) == pc[p] = "user"
Alive(p)   == pc[p] \notin {"unused", "zombie"}

Sleepers(where, pg) == {q \in Procs : pc[q] = where /\ page[q] = pg}
AsleepReading(pg)   == Sleepers("rsleep", pg)
AsleepWriting(pg)   == Sleepers("wsleep", pg)

Goto(p, place) == pc' = [pc EXCEPT ![p] = place]

\* wakeup on one channel by p, which goes on at place: a process that wakes
\* in sleep() takes the pipe's lock again and goes back to its while loop.
WakeAndGoto(S, p, place) ==
  pc' = [q \in Procs |-> IF q = p THEN place
                         ELSE IF q \in S
                              THEN (IF pc[q] = "rsleep" THEN "read" ELSE "write")
                              ELSE pc[q]]

Result(p, r) == ret' = [ret EXCEPT ![p] = r]

\* filealloc: the first entry whose count is 0.
FreeFiles == {f \in Files : ref[f] = 0}
FirstFree == CHOOSE f \in FreeFiles : \A g \in FreeFiles : f <= g

\* fdalloc: the first empty descriptor.
FreeFds(p) == {fd \in Fds : ofile[p][fd] = NoFile}
Lowest(S)  == CHOOSE x \in S : \A y \in S : x <= y

-----------------------------------------------------------------------------
(* close, and every other path that ends in fileclose. *)

OpenFds(p)  == {fd \in Fds : ofile[p][fd] # NoFile}
Unclosed(p) == {i \in 1..2 : pf[p][i] # NoFile}

\* Where a call at place goes that may have more to close.
Place(place, more) ==
  IF more THEN place ELSE IF place = "exiting" THEN "zombie" ELSE "user"

\* --f->ref > 0 returns at once.
LastClose(f) == ref[f] = 1

\* fileclose up to release(&ftable.lock), by a call at place.
Close(p, f, place, more) ==
  /\ ref' = [ref EXCEPT ![f] = @ - 1]
  /\ kind' = IF ref'[f] = 0 THEN [kind EXCEPT ![f] = "none"] ELSE kind
  /\ IF LastClose(f) /\ kind[f] \in {"reader", "writer"}
       THEN ff' = [ff EXCEPT ![p] = <<kind[f], fpage[f]>>] /\ Goto(p, place)
       ELSE Goto(p, Place(place, more)) /\ UNCHANGED ff
  /\ UNCHANGED fpage

\* The same of an open descriptor, which is cleared.
CloseFd(p, fd, place, more) ==
  /\ ofile' = [ofile EXCEPT ![p][fd] = NoFile]
  /\ Close(p, ofile[p][fd], place, more)

\* pipe() gives back what it holds, the reader first.
FileClose(p) ==
  /\ pc[p] = "closing" /\ ff[p] = None
  /\ LET i == Lowest(Unclosed(p)) IN
       /\ Close(p, pf[p][i], "closing", Unclosed(p) # {i})
       /\ pf' = [pf EXCEPT ![p][i] = NoFile]
  /\ UNCHANGED <<ofile, page, want, ret, pfd, killed, pipeVars>>

\* pipeclose
PipeClose(p) ==
  /\ ff[p] # None
  /\ LET pg   == ff[p][2]
         more == IF pc[p] = "exiting" THEN OpenFds(p) # {} ELSE Unclosed(p) # {} IN
       /\ lock[pg] = None
       /\ IF ff[p][1] = "writer"
            THEN /\ writeopen' = [writeopen EXCEPT ![pg] = FALSE]
                 /\ UNCHANGED readopen
                 /\ WakeAndGoto(AsleepReading(pg), p, Place(pc[p], more))
            ELSE /\ readopen' = [readopen EXCEPT ![pg] = FALSE]
                 /\ UNCHANGED writeopen
                 /\ WakeAndGoto(AsleepWriting(pg), p, Place(pc[p], more))
       /\ live' = IF readopen'[pg] \/ writeopen'[pg] THEN live ELSE live \ {pg}
  /\ ff' = [ff EXCEPT ![p] = None]
  /\ UNCHANGED <<fileVars, ofile, pf, page, want, ret, pfd, killed, lock, byteVars>>

\* sys_close, which clears the descriptor first.
SysClose(p, fd) ==
  /\ Running(p)
  /\ IF ofile[p][fd] = NoFile
       THEN Result(p, -1) /\ UNCHANGED <<ofile, fileVars, ff, pc>>
       ELSE CloseFd(p, fd, "closing", FALSE) /\ Result(p, 0)
  /\ UNCHANGED <<pf, page, want, pfd, killed, pipeVars>>

\* sys_dup
SysDup(p, fd) ==
  /\ Running(p)
  /\ LET f == ofile[p][fd] IN
       IF f = NoFile \/ FreeFds(p) = {}
         THEN Result(p, -1) /\ UNCHANGED <<ref, ofile>>
         ELSE /\ ofile' = [ofile EXCEPT ![p][Lowest(FreeFds(p))] = f]
              /\ ref' = [ref EXCEPT ![f] = @ + 1]
              /\ Result(p, 0)
  /\ UNCHANGED <<kind, fpage, pf, ff, pc, page, want, pfd, killed, pipeVars>>

-----------------------------------------------------------------------------
(* pipe *)

\* filealloc of the i-th file; when there is none the call fails and gives
\* back what it has.
AllocFile(p, i, next) ==
  IF FreeFiles = {}
    THEN /\ Goto(p, Place("closing", Unclosed(p) # {})) /\ Result(p, -1)
         /\ UNCHANGED <<ref, pf>>
    ELSE /\ ref' = [ref EXCEPT ![FirstFree] = 1]
         /\ pf' = [pf EXCEPT ![p][i] = FirstFree]
         /\ Goto(p, next) /\ UNCHANGED ret

SysPipe(p) ==
  /\ Running(p) /\ AllocFile(p, 1, "pipe1")
  /\ UNCHANGED <<kind, fpage, ofile, ff, page, want, pfd, killed, pipeVars>>

PipeAlloc1(p) ==
  /\ pc[p] = "pipe1" /\ AllocFile(p, 2, "pipe2")
  /\ UNCHANGED <<kind, fpage, ofile, ff, page, want, pfd, killed, pipeVars>>

\* kalloc fails: pipealloc closes both files, which have no type yet.
PipeNoPage(p) ==
  /\ pc[p] = "pipe2"
  /\ Goto(p, "closing") /\ Result(p, -1)
  /\ UNCHANGED <<fileVars, ofile, pf, ff, page, want, pfd, killed, pipeVars>>

\* The rest of pipealloc and of sys_pipe: the new files are nobody else's.
\* With one free descriptor or none both files are closed, the reader first.
PipeAllocPage(p) ==
  /\ pc[p] = "pipe2"
  /\ \E pg \in Pages \ live :
       LET rf == pf[p][1]
           wf == pf[p][2]
           fd0 == Lowest(FreeFds(p))
           fd1 == Lowest(FreeFds(p) \ {fd0}) IN
       /\ live' = live \cup {pg}
       /\ readopen' = [readopen EXCEPT ![pg] = TRUE]
       /\ writeopen' = [writeopen EXCEPT ![pg] = TRUE]
       /\ nread' = [nread EXCEPT ![pg] = 0] /\ nwrite' = [nwrite EXCEPT ![pg] = 0]
       /\ kind' = [kind EXCEPT ![rf] = "reader", ![wf] = "writer"]
       /\ fpage' = [fpage EXCEPT ![rf] = pg, ![wf] = pg]
       /\ IF Cardinality(FreeFds(p)) >= 2
            THEN /\ ofile' = [ofile EXCEPT ![p][fd0] = rf, ![p][fd1] = wf]
                 /\ pfd' = [pfd EXCEPT ![p] = <<fd0, fd1>>]
                 /\ pf' = [pf EXCEPT ![p] = <<NoFile, NoFile>>]
                 /\ Goto(p, "user") /\ Result(p, 0)
            ELSE /\ Goto(p, "closing") /\ Result(p, -1)
                 /\ UNCHANGED <<ofile, pfd, pf>>
  /\ UNCHANGED <<ref, ff, page, want, killed, lock, data, sent, got, ended>>

-----------------------------------------------------------------------------
(* read and write *)

Used(pg) == (nwrite[pg] - nread[pg]) % Width
Room(pg) == PipeSize - Used(pg)
Least(a, b) == IF a < b THEN a ELSE b

\* argfd and the test of readable or writable; want bytes are asked for.
SysMove(p, fd, k, end, start) ==
  LET f == ofile[p][fd] IN
  /\ Running(p) /\ k > 0
  /\ IF f = NoFile \/ kind[f] # end
       THEN Result(p, -1) /\ UNCHANGED <<pc, page, want>>
       ELSE /\ page' = [page EXCEPT ![p] = fpage[f]]
            /\ want' = [want EXCEPT ![p] = k]
            /\ Goto(p, start) /\ UNCHANGED ret
  /\ UNCHANGED <<fileVars, ofile, pf, ff, pfd, killed, pipeVars>>

SysRead(p, fd, k)  == SysMove(p, fd, k, "reader", "read")
SysWrite(p, fd, k) == SysMove(p, fd, k, "writer", "write")

\* The end of a read or write.
Return(p, r) == /\ Result(p, r)
                /\ page' = [page EXCEPT ![p] = None]
                /\ want' = [want EXCEPT ![p] = 0]

\* data[nwrite++ % PIPESIZE] = addr[i], k times; the bytes are numbered.
PutBytes(pg, k) ==
  LET first == Len(sent[pg])
      new   == [i \in 1..k |-> first + i]
      Index(i) == ((nwrite[pg] + i - 1) % Width) % PipeSize IN
  /\ data' = [data EXCEPT ![pg] =
       [j \in 0..(PipeSize - 1) |->
          IF \E i \in 1..k : Index(i) = j
          THEN new[CHOOSE i \in 1..k : Index(i) = j] ELSE @[j]]]
  /\ nwrite' = [nwrite EXCEPT ![pg] = (@ + k) % Width]
  /\ sent' = [sent EXCEPT ![pg] = @ \o new]

\* pipewrite from acquire, or from the return of sleep: as many bytes as fit.
\* All of them: it wakes the readers.  Full and nobody reads or the caller is
\* killed: -1, and the readers are not woken.  Full otherwise: it wakes them
\* and is about to sleep.
PipeWrite(p) ==
  /\ pc[p] = "write" /\ lock[page[p]] = None
  /\ LET pg == page[p]
         k  == Least(want[p], Room(pg)) IN
       /\ PutBytes(pg, k)
       /\ \/ /\ want[p] = k
             /\ WakeAndGoto(AsleepReading(pg), p, "user")
             /\ Return(p, 1) /\ UNCHANGED lock
          \/ /\ want[p] > k /\ (~readopen[pg] \/ killed[p])
             /\ Goto(p, "user") /\ Return(p, -1) /\ UNCHANGED lock
          \/ /\ want[p] > k /\ readopen[pg] /\ ~killed[p]
             /\ WakeAndGoto(AsleepReading(pg), p, "wgap")
             /\ want' = [want EXCEPT ![p] = @ - k]
             /\ lock' = [lock EXCEPT ![pg] = p] /\ UNCHANGED <<page, ret>>
  /\ UNCHANGED <<fileVars, ofile, pf, ff, pfd, killed, live, openVars,
                 nread, got, ended>>

\* addr[i] = data[nread++ % PIPESIZE], k times.
TakeBytes(pg, k) ==
  LET Index(i) == ((nread[pg] + i - 1) % Width) % PipeSize IN
  /\ nread' = [nread EXCEPT ![pg] = (@ + k) % Width]
  /\ got' = [got EXCEPT ![pg] = @ \o [i \in 1..k |-> data[pg][Index(i)]]]

\* Variant: an empty pipe is the end, whoever may still write.
NeverWaits(pg) == FALSE

\* The condition of the while loop in piperead.
MustWait(pg) == Used(pg) = 0 /\ writeopen[pg]

\* piperead from acquire, or from the return of sleep.
PipeRead(p) ==
  /\ pc[p] = "read" /\ lock[page[p]] = None
  /\ LET pg == page[p]
         k  == Least(want[p], Used(pg)) IN
       \/ /\ MustWait(pg) /\ killed[p]
          /\ Goto(p, "user") /\ Return(p, -1)
          /\ UNCHANGED <<lock, nread, got, ended>>
       \/ /\ MustWait(pg) /\ ~killed[p]
          /\ Goto(p, "rgap") /\ lock' = [lock EXCEPT ![pg] = p]
          /\ UNCHANGED <<page, want, ret, nread, got, ended>>
       \/ /\ ~MustWait(pg)
          /\ TakeBytes(pg, k)
          /\ ended' = [ended EXCEPT ![pg] = @ \/ k = 0]
          /\ WakeAndGoto(AsleepWriting(pg), p, "user")
          /\ Return(p, IF k = 0 THEN 0 ELSE 1) /\ UNCHANGED lock
  /\ UNCHANGED <<fileVars, ofile, pf, ff, pfd, killed, live, openVars,
                 nwrite, data, sent>>

\* Variant: the pipe's lock is given back before the process sleeps, so that
\* what the others do in between is not noticed.
PipeSleepLate(p) ==
  /\ pc[p] \in {"rgap", "wgap"}
  /\ IF lock[page[p]] = p
       THEN lock' = [lock EXCEPT ![page[p]] = None] /\ UNCHANGED pc
       ELSE Goto(p, IF pc[p] = "rgap" THEN "rsleep" ELSE "wsleep") /\ UNCHANGED lock
  /\ UNCHANGED <<fileVars, ofile, pf, ff, page, want, ret, pfd, killed, live,
                 openVars, byteVars>>

\* sleep(): the pipe's lock is released and the process sleeps under one hold
\* of ptable.lock.
PipeSleep(p) ==
  /\ pc[p] \in {"rgap", "wgap"}
  /\ Goto(p, IF pc[p] = "rgap" THEN "rsleep" ELSE "wsleep")
  /\ lock' = [lock EXCEPT ![page[p]] = None]
  /\ UNCHANGED <<fileVars, ofile, pf, ff, page, want, ret, pfd, killed, live,
                 openVars, byteVars>>

-----------------------------------------------------------------------------
(* Processes. *)

\* Variant: fork copies the descriptors and forgets filedup.
ForkFilesUncounted(p, q) ==
  /\ ofile' = [ofile EXCEPT ![q] = ofile[p]]
  /\ UNCHANGED ref

\* np->ofile[i] = filedup(proc->ofile[i])
ForkFiles(p, q) ==
  /\ ofile' = [ofile EXCEPT ![q] = ofile[p]]
  /\ ref' = [f \in Files |-> ref[f] + Cardinality({fd \in Fds : ofile[p][fd] = f})]

\* allocproc takes the first free entry of the process table.
NewProc == Lowest({q \in Procs : pc[q] = "unused"})
NoProcs == \A q \in Procs : pc[q] # "unused"

\* fork, up to the child's first instruction.
Fork(p, q) ==
  /\ Running(p) /\ ~NoProcs /\ q = NewProc
  /\ ForkFiles(p, q)
  /\ Goto(q, "user")
  /\ pfd' = [pfd EXCEPT ![q] = pfd[p]]
  /\ ret' = [ret EXCEPT ![p] = 1, ![q] = 0]
  /\ UNCHANGED <<kind, fpage, pf, ff, page, want, killed, pipeVars>>

\* exit: the loop over the descriptors, up to the next open one.  The code
\* clears a descriptor after fileclose; in between nobody else looks at it.
CloseNext(p) ==
  LET fd == Lowest(OpenFds(p))
  IN  CloseFd(p, fd, "exiting", OpenFds(p) # {fd})

\* The locals and the program are gone.
SysExit(p) ==
  /\ Running(p)
  /\ ret' = [ret EXCEPT ![p] = 0] /\ pfd' = [pfd EXCEPT ![p] = <<0, 0>>]
  /\ IF OpenFds(p) # {}
       THEN CloseNext(p)
       ELSE Goto(p, "zombie") /\ UNCHANGED <<fileVars, ofile, ff>>
  /\ UNCHANGED <<pf, page, want, killed, pipeVars>>

ExitClose(p) ==
  /\ pc[p] = "exiting" /\ ff[p] = None
  /\ CloseNext(p)
  /\ UNCHANGED <<pf, page, want, ret, pfd, killed, pipeVars>>

\* kill, of a process that exists; one that sleeps becomes runnable.
Kill(p) ==
  /\ Alive(p) /\ ~killed[p]
  /\ killed' = [killed EXCEPT ![p] = TRUE]
  /\ pc' = [pc EXCEPT ![p] = CASE @ = "rsleep" -> "read"
                               [] @ = "wsleep" -> "write"
                               [] OTHER -> @]
  /\ UNCHANGED <<fileVars, ofile, pf, ff, page, want, ret, pfd, pipeVars>>

\* The kernel's own part of a call that p has made.
InKernel(p) ==
  \/ FileClose(p) \/ ExitClose(p) \/ PipeClose(p)
  \/ PipeAlloc1(p) \/ PipeNoPage(p) \/ PipeAllocPage(p)
  \/ PipeWrite(p) \/ PipeRead(p) \/ PipeSleep(p)

-----------------------------------------------------------------------------
(* Properties. *)

\* Where a table of files, one row for each process, names f.
Slots(table, cols, f) == {x \in Procs \X cols : table[x[1]][x[2]] = f}

\* The count of a file is the number of references to it: descriptors of all
\* processes, files that pipe() holds, and those of others.
CountsAre(others) ==
  \A f \in Files :
    ref[f] = others[f] + Cardinality(Slots(ofile, Fds, f))
                       + Cardinality(Slots(pf, 1..2, f))

\* Who keeps an end of the pipe open: a file, or a close that has not come to
\* pipeclose yet.
Holds(end, pg) ==
  \/ \E f \in Files : ref[f] > 0 /\ kind[f] = end /\ fpage[f] = pg
  \/ \E p \in Procs : ff[p] = <<end, pg>>

\* An end is open as long as something holds it, the page is given back with
\* the second end and not before, and whoever is in the middle of a read or a
\* write finds its pipe there.
PipeLives ==
  /\ \A pg \in live : /\ readopen[pg] <=> Holds("reader", pg)
                      /\ writeopen[pg] <=> Holds("writer", pg)
                      /\ readopen[pg] \/ writeopen[pg]
  /\ \A pg \in Pages \ live : ~Holds("reader", pg) /\ ~Holds("writer", pg)
  /\ \A p \in Procs :
       /\ pc[p] \in {"read", "rgap", "rsleep"} => page[p] \in live /\ readopen[page[p]]
       /\ pc[p] \in {"write", "wgap", "wsleep"} => page[p] \in live /\ writeopen[page[p]]

\* Nobody sleeps on without cause: a reader sleeps while the pipe is empty
\* and a writer is left, a writer while it is full and a reader is left.  The
\* exception is the code's: a killed writer that finds the pipe full returns
\* without waking the readers of the bytes it has put in, and they sleep until
\* somebody else writes or the last writer closes.
SleepersHaveCause ==
  \A pg \in Pages :
    /\ AsleepReading(pg) # {} =>
         (Used(pg) = 0 \/ \E p \in Procs : killed[p]) /\ writeopen[pg]
    /\ AsleepWriting(pg) # {} => Room(pg) = 0 /\ readopen[pg]

=============================================================================
