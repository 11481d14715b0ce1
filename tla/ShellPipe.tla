------------------------------ MODULE ShellPipe ------------------------------
(***************************************************************************)
(* The pipeline of user/sh.c: the process that runs runcmd of a PIPE       *)
(* command makes the pipe, starts the two commands and waits for them.     *)
(* The commands write and read as they like, may start further processes   *)
(* that share their descriptors, and may be killed or leave at any time.   *)
(***************************************************************************)
EXTENDS Pipe

CONSTANTS
  sh,          \* the process in runcmd
  MaxBytes,    \* bound: bytes that all writers together write
  Chunks,      \* bound: how many bytes one read or write asks for
  MaxKills     \* bound: processes that are killed

ASSUME ShellAssumption ==
  sh \in Procs /\ MaxBytes \in Nat /\ Chunks \subseteq Nat \ {0}
  /\ MaxKills \in Nat /\ NOFILE >= 2 /\ Pages # {}

VARIABLES
  prog,     \* the next line of the program
  asked,    \* bytes that writers have asked to write
  kids,     \* children of sh that wait() has not seen
  elsewhere \* files of processes that are not modelled

progVars == <<prog, asked, kids, elsewhere>>
vars == <<kernelVars, progVars>>

console == 1

\* The shell starts with its console on all descriptors below some number; other
\* processes may keep entries of the file table.
Init ==
  \E open \in 2..NOFILE, busy \in 1..NFILE :
    /\ elsewhere = 2..busy
    /\ ofile = [p \in Procs |-> [fd \in Fds |->
                  IF p = sh /\ fd < open THEN console ELSE NoFile]]
    /\ ref = [f \in Files |-> IF f = console THEN open
                              ELSE IF f \in elsewhere THEN 1 ELSE 0]
    /\ kind = [f \in Files |-> IF f = console \/ f \in elsewhere
                               THEN "inode" ELSE "none"]
    /\ fpage = [f \in Files |-> None]
    /\ pf = [p \in Procs |-> <<NoFile, NoFile>>] /\ ff = [p \in Procs |-> None]
    /\ pc = [p \in Procs |-> IF p = sh THEN "user" ELSE "unused"]
    /\ page = [p \in Procs |-> None] /\ want = [p \in Procs |-> 0]
    /\ ret = [p \in Procs |-> 0] /\ pfd = [p \in Procs |-> <<0, 0>>]
    /\ killed = [p \in Procs |-> FALSE]
    /\ live = {} /\ lock = [pg \in Pages |-> None]
    /\ nread = [pg \in Pages |-> 0] /\ nwrite = [pg \in Pages |-> 0]
    /\ data = [pg \in Pages |-> [i \in 0..(PipeSize - 1) |-> 0]]
    /\ readopen = [pg \in Pages |-> TRUE] /\ writeopen = [pg \in Pages |-> TRUE]
    /\ sent = [pg \in Pages |-> <<>>] /\ got = [pg \in Pages |-> <<>>]
    /\ ended = [pg \in Pages |-> FALSE]
    /\ prog = [p \in Procs |-> IF p = sh THEN "pipe" ELSE "none"]
    /\ asked = 0 /\ kids = {}

-----------------------------------------------------------------------------
At(p, line) == prog[p] = line /\ Running(p) /\ ~killed[p]
Line(p, line) == prog' = [prog EXCEPT ![p] = line]

\* if(pipe(p) < 0) panic("pipe");  panic of sh.c exits
MakePipe == At(sh, "pipe") /\ SysPipe(sh) /\ Line(sh, "left")
            /\ UNCHANGED <<asked, kids, elsewhere>>

PipeFailed == At(sh, "left") /\ ret[sh] = -1 /\ SysExit(sh)
              /\ Line(sh, "gone") /\ UNCHANGED <<asked, kids, elsewhere>>

\* if(fork1() == 0) ...
Start(line, next, child) ==
  /\ At(sh, line) /\ ret[sh] # -1
  /\ \E q \in Procs :
       /\ Fork(sh, q)
       /\ kids' = kids \cup {q}
       /\ prog' = [prog EXCEPT ![sh] = next, ![q] = child]
  /\ UNCHANGED <<asked, elsewhere>>

\* fork1 panics when the process table is full or memory is short.
ForkFailed ==
  /\ (At(sh, "left") /\ ret[sh] # -1) \/ At(sh, "right")
  /\ SysExit(sh) /\ Line(sh, "gone")
  /\ UNCHANGED <<asked, kids, elsewhere>>

\* Variant: the shell keeps its write end while it waits.
AfterC0Shell(p) == IF p = sh THEN "wait" ELSE "C1"

\* close(p[0]) is followed by close(p[1]) in all three processes.
AfterC0(p) == "C1"

\* close(1); dup(p[1]); close(p[0]); close(p[1]); and the same for 0 and p[0]
Redirect(p) ==
  /\ \/ At(p, "L1") /\ SysClose(p, 1) /\ Line(p, "L2")
     \/ At(p, "L2") /\ SysDup(p, pfd[p][2]) /\ Line(p, "C0")
     \/ At(p, "R1") /\ SysClose(p, 0) /\ Line(p, "R2")
     \/ At(p, "R2") /\ SysDup(p, pfd[p][1]) /\ Line(p, "C0")
     \/ At(p, "C0") /\ SysClose(p, pfd[p][1]) /\ Line(p, AfterC0(p))
     \/ At(p, "C1") /\ SysClose(p, pfd[p][2]) /\ Line(p, IF p = sh THEN "wait" ELSE "cmd")
  /\ UNCHANGED <<asked, kids, elsewhere>>

\* wait(); wait();  a killed process returns from it without a child
Wait ==
  /\ prog[sh] = "wait" /\ Running(sh)
  /\ \/ /\ ~killed[sh] /\ \E q \in kids : pc[q] = "zombie" /\ kids' = kids \ {q}
        /\ UNCHANGED <<prog, kernelVars>>
     \/ (kids = {} \/ killed[sh]) /\ SysExit(sh) /\ Line(sh, "gone") /\ UNCHANGED kids
  /\ UNCHANGED <<asked, elsewhere>>

\* The commands.  They use any descriptor but the console; a writer stops when
\* a write fails, a reader when there is no more.
NotConsole(p) == {fd \in 0..1 : kind[ofile[p][fd]] # "inode"}

Writes(p) ==
  /\ At(p, "cmd") /\ ret[p] # -1
  /\ \E k \in Chunks, fd \in NotConsole(p) :
       /\ asked + k <= MaxBytes /\ asked' = asked + k
       /\ SysWrite(p, fd, k)
  /\ UNCHANGED <<prog, kids, elsewhere>>

Reads(p) ==
  /\ At(p, "cmd") \/ (At(p, "more") /\ ret[p] = 1)
  /\ \E k \in Chunks, fd \in NotConsole(p) : SysRead(p, fd, k)
  /\ Line(p, "more")
  /\ UNCHANGED <<asked, kids, elsewhere>>

\* A command starts a process of its own, as (a & b) does.
Helps(p) ==
  /\ At(p, "cmd")
  /\ \E q \in Procs : Fork(p, q) /\ Line(q, "cmd")
  /\ UNCHANGED <<asked, kids, elsewhere>>

\* The program returns, or trap() finds that the process has been killed.
Leaves(p) ==
  /\ \/ At(p, "cmd") \/ At(p, "more")
     \/ killed[p] /\ Running(p)
  /\ SysExit(p) /\ Line(p, "gone")
  /\ UNCHANGED <<asked, kids, elsewhere>>

Program(p) ==
  \/ p = sh /\ (MakePipe \/ PipeFailed \/ ForkFailed \/ Wait
                \/ Start("left", "right", "L1") \/ Start("right", "C0", "R1"))
  \/ Redirect(p)
  \/ Writes(p) \/ Reads(p) \/ Helps(p) \/ Leaves(p)

Step(p) == Program(p) \/ (InKernel(p) /\ UNCHANGED progVars)

Killing == /\ Cardinality({p \in Procs : killed[p]}) < MaxKills
           /\ \E p \in Procs : Kill(p)
           /\ UNCHANGED progVars

Next == (\E p \in Procs : Step(p)) \/ Killing

Spec == Init /\ [][Next]_vars

\* The scheduler scans the whole process table and the timer preempts: every
\* process that can run runs again and again.
FairSpec == Spec /\ \A p \in Procs : WF_vars(Step(p))

-----------------------------------------------------------------------------
\* Every reference to a file is counted, and every counted one is somebody's:
\* across pipe, fork, dup, close and exit, on their error paths too.  An end of
\* the pipe is open, and its page kept, as long as something holds it.
CountsAreDescriptors ==
  /\ CountsAre([f \in Files |-> IF f \in elsewhere THEN 1 ELSE 0])
  /\ PipeLives

\* The pipe is a stream of bytes with two sides; the bytes are numbered.
thePage == CHOOSE pg \in Pages : TRUE

ByteStream == INSTANCE Stream WITH
  Byte <- Nat \ {0}, Capacity <- PipeSize,
  sent <- sent[thePage], got <- got[thePage], ended <- ended[thePage],
  writing <- writeopen[thePage], reading <- readopen[thePage]

IsStream == ByteStream!Spec

\* The pipeline comes to an end: whatever is killed, or leaves early, or shares
\* its descriptors, all its processes exit in the end, and with the last of
\* them its pipe is given back.
PipelineEnds == <>(live = {} /\ \A p \in Procs : ~Alive(p))

=============================================================================
