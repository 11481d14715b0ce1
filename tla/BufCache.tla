------------------------------- MODULE BufCache -------------------------------
(***************************************************************************)
(* The buffer cache of kernel/bio.c over the disk driver of kernel/ide.c   *)
(* and a disk that works on one command at a time and then interrupts.     *)
(* The processes use sectors the way kernel/fs.c does: they read, perhaps  *)
(* change and write, perhaps read one more meanwhile (the bitmap, while    *)
(* they hold an indirect block), and give back.                            *)
(*                                                                         *)
(* Every hold of bcache.lock or idelock is one step; sleep() gives the     *)
(* lock away and sleeps in the same step.                                  *)
(***************************************************************************)
EXTENDS Integers, Sequences, FiniteSets, SequencesExt

CONSTANTS
  Procs, Sectors, Values,
  Inner,     \* sectors that are read while another one is held
  Bufs,      \* the buffers (NBUF = 10 in param.h)
  None

ASSUME DiskAssumption ==
  /\ IsFiniteSet(Procs) /\ IsFiniteSet(Bufs) /\ Bufs # {}
  /\ Inner \subseteq Sectors
  /\ None \notin Procs \cup Sectors \cup Values \cup Bufs

VARIABLES
  sector, busy, valid, dirty, data,   \* struct buf
  lru,          \* the list behind bcache.head, most recently used first
  queue,        \* idequeue
  command,      \* what the controller works on: a buffer and a direction
  done,         \* the controller has finished, its interrupt is pending
  disk,         \* the sectors on the disk
  pc,
  goal,         \* sector that bget looks for
  chan,         \* buffer that the process sleeps on, or hands to the driver
  held,         \* buffers the process has, the innermost first
  panicked

bufVars  == <<sector, busy, valid, dirty, data>>
ideVars  == <<queue, command, done, disk>>
procVars == <<pc, goal, chan, held>>
vars == <<bufVars, lru, ideVars, procVars, panicked>>

Init ==
  /\ sector = [b \in Bufs |-> None]           \* b->dev = -1
  /\ busy = [b \in Bufs |-> FALSE]
  /\ valid = [b \in Bufs |-> FALSE] /\ dirty = [b \in Bufs |-> FALSE]
  /\ data = [b \in Bufs |-> None]
  /\ lru = SetToSeq(Bufs)
  /\ queue = <<>> /\ command = None /\ done = FALSE
  /\ disk \in [Sectors -> Values]
  /\ pc = [p \in Procs |-> "user"] /\ goal = [p \in Procs |-> None]
  /\ chan = [p \in Procs |-> None] /\ held = [p \in Procs |-> <<>>]
  /\ panicked = FALSE

Goto(p, place) == pc' = [pc EXCEPT ![p] = place]

\* wakeup(b) by p, which goes on at place.  bget and iderw sleep on the same
\* channel; whoever wakes takes its lock again and looks again.
WakeAndGoto(b, p, place) ==
  pc' = [q \in Procs |-> IF q = p THEN place
                         ELSE IF chan[q] # b THEN pc[q]
                         ELSE IF pc[q] = "get_sleep" THEN "get"
                         ELSE IF pc[q] = "io_sleep" THEN "io_look" ELSE pc[q]]

-----------------------------------------------------------------------------
(* bio.c *)

Cached(s) == {b \in Bufs : sector[b] = s}
Idle      == {i \in DOMAIN lru : ~busy[lru[i]]}

\* bread, up to bget.
Bread(p, s) ==
  /\ pc[p] = "user" /\ ~panicked
  /\ held[p] = <<>> \/ (Len(held[p]) = 1 /\ s \in Inner /\ sector[held[p][1]] \notin Inner)
  /\ Goto(p, "get")
  /\ goal' = [goal EXCEPT ![p] = s]
  /\ UNCHANGED <<bufVars, lru, ideVars, chan, held, panicked>>

\* bget returns b; bread goes to the disk unless b is valid.
Got(p, b) ==
  /\ busy' = [busy EXCEPT ![b] = TRUE]
  /\ held' = [held EXCEPT ![p] = <<b>> \o @]
  /\ goal' = [goal EXCEPT ![p] = None]
  /\ IF valid'[b] THEN Goto(p, "user") /\ chan' = [chan EXCEPT ![p] = None]
                  ELSE Goto(p, "io") /\ chan' = [chan EXCEPT ![p] = b]

\* Variant: the process takes the buffer it has slept on, without a new scan.
GetAsleep(p) ==
  /\ pc[p] = "get" /\ ~panicked
  /\ \E b \in IF chan[p] = None THEN Cached(goal[p]) ELSE {chan[p]} :
       /\ ~busy[b]
       /\ UNCHANGED <<sector, valid, dirty, data>>
       /\ Got(p, b)
  /\ UNCHANGED <<lru, ideVars, panicked>>

\* The sector is in the cache and nobody has it.
GetCached(p) ==
  /\ pc[p] = "get" /\ ~panicked
  /\ \E b \in Cached(goal[p]) :
       /\ ~busy[b]
       /\ UNCHANGED <<sector, valid, dirty, data>>
       /\ Got(p, b)
  /\ UNCHANGED <<lru, ideVars, panicked>>

\* Somebody has it: sleep, and then scan again from the start.
GetBusy(p) ==
  /\ pc[p] = "get" /\ ~panicked
  /\ \E b \in Cached(goal[p]) : busy[b] /\ chan' = [chan EXCEPT ![p] = b]
  /\ Goto(p, "get_sleep")
  /\ UNCHANGED <<bufVars, lru, ideVars, goal, held, panicked>>

\* Variant: b->flags |= B_BUSY, which keeps B_VALID.
FreshKeepsValid(b) == valid[b]

\* b->flags = B_BUSY
FreshValid(b) == FALSE

\* It is not in the cache: the buffer that is idle longest takes the sector,
\* and keeps the bytes of the old one until the disk has been read.
GetFresh(p) ==
  /\ pc[p] = "get" /\ ~panicked /\ Cached(goal[p]) = {} /\ Idle # {}
  /\ LET b == lru[CHOOSE i \in Idle : \A j \in Idle : j <= i] IN
       /\ sector' = [sector EXCEPT ![b] = goal[p]]
       /\ valid' = [valid EXCEPT ![b] = FreshValid(b)]
       /\ dirty' = [dirty EXCEPT ![b] = FALSE]
       /\ Got(p, b)
  /\ UNCHANGED <<data, lru, ideVars, panicked>>

\* panic("bget: no buffers") stops the machine.
GetNone(p) ==
  /\ pc[p] = "get" /\ ~panicked /\ Cached(goal[p]) = {} /\ Idle = {}
  /\ panicked' = TRUE
  /\ UNCHANGED <<bufVars, lru, ideVars, procVars>>

\* The process changes its innermost buffer and calls bwrite.
Bwrite(p, v) ==
  /\ pc[p] = "user" /\ ~panicked /\ held[p] # <<>>
  /\ LET b == Head(held[p]) IN
       /\ data' = [data EXCEPT ![b] = v]
       /\ dirty' = [dirty EXCEPT ![b] = TRUE]
       /\ chan' = [chan EXCEPT ![p] = b]
  /\ Goto(p, "io")
  /\ UNCHANGED <<sector, busy, valid, lru, ideVars, goal, held, panicked>>

\* The list with b at its front; the others keep their order.
ToFront(list, b) ==
  LET at == CHOOSE i \in DOMAIN list : list[i] = b
  IN [i \in DOMAIN list |-> IF i = 1 THEN b ELSE IF i <= at THEN list[i - 1] ELSE list[i]]

\* Variant: brelse wakes nobody.
BrelseQuiet(p) ==
  /\ pc[p] = "user" /\ ~panicked /\ held[p] # <<>>
  /\ LET b == Head(held[p]) IN
       /\ lru' = ToFront(lru, b)
       /\ busy' = [busy EXCEPT ![b] = FALSE]
  /\ held' = [held EXCEPT ![p] = Tail(@)]
  /\ UNCHANGED <<sector, valid, dirty, data, ideVars, pc, goal, chan, panicked>>

\* brelse
Brelse(p) ==
  /\ pc[p] = "user" /\ ~panicked /\ held[p] # <<>>
  /\ LET b == Head(held[p]) IN
       /\ lru' = ToFront(lru, b)
       /\ busy' = [busy EXCEPT ![b] = FALSE]
       /\ WakeAndGoto(b, p, "user")
  /\ held' = [held EXCEPT ![p] = Tail(@)]
  /\ UNCHANGED <<sector, valid, dirty, data, ideVars, goal, chan, panicked>>

-----------------------------------------------------------------------------
(* ide.c *)

\* idestart: the bytes of a write go to the controller with the command.
Command(b, isDirty) ==
  IF isDirty THEN <<"write", sector[b], data[b]>> ELSE <<"read", sector[b], None>>

\* if(idequeue == b), after b has been appended.
StartsDisk == queue = <<>>

\* Variant: the driver forgets to start the next request.
NextCommandNone(rest) == None

\* if(idequeue != 0) idestart(idequeue);
NextCommand(rest) ==
  IF rest = <<>> THEN None ELSE Command(Head(rest), dirty[Head(rest)])

\* iderw, up to its first sleep.
Iderw(p) ==
  /\ pc[p] = "io" /\ ~panicked
  /\ LET b == chan[p] IN
       /\ queue' = Append(queue, b)
       /\ IF StartsDisk THEN command' = Command(b, dirty[b]) /\ done' = FALSE
                          ELSE UNCHANGED <<command, done>>
  /\ Goto(p, "io_sleep")
  /\ UNCHANGED <<bufVars, lru, disk, goal, chan, held, panicked>>

\* iderw after sleep: done, or to sleep again.
IderwLook(p) ==
  /\ pc[p] = "io_look" /\ ~panicked
  /\ LET b == chan[p] IN
       IF valid[b] /\ ~dirty[b]
         THEN Goto(p, "user") /\ chan' = [chan EXCEPT ![p] = None]
         ELSE Goto(p, "io_sleep") /\ UNCHANGED chan
  /\ UNCHANGED <<bufVars, lru, ideVars, goal, held, panicked>>

\* kill() wakes whoever sleeps; neither bget nor iderw looks at proc->killed.
Kill(p) ==
  /\ pc[p] \in {"get_sleep", "io_sleep"} /\ ~panicked
  /\ Goto(p, IF pc[p] = "get_sleep" THEN "get" ELSE "io_look")
  /\ UNCHANGED <<bufVars, lru, ideVars, goal, chan, held, panicked>>

\* The controller carries its command out.
DiskWorks ==
  /\ command # None /\ ~done
  /\ done' = TRUE
  /\ disk' = IF command[1] = "write" THEN [disk EXCEPT ![command[2]] = command[3]]
                                      ELSE disk
  /\ UNCHANGED <<bufVars, lru, queue, command, procVars, panicked>>

\* ideintr
IdeIntr ==
  /\ done /\ queue # <<>> /\ ~panicked
  /\ LET b == Head(queue) IN
       /\ data' = IF dirty[b] THEN data ELSE [data EXCEPT ![b] = disk[command[2]]]
       /\ valid' = [valid EXCEPT ![b] = TRUE]
       /\ dirty' = [dirty EXCEPT ![b] = FALSE]
       /\ WakeAndGoto(b, None, "user")
  /\ queue' = Tail(queue)
  /\ command' = NextCommand(queue')
  /\ done' = FALSE
  /\ UNCHANGED <<sector, busy, lru, disk, goal, chan, held, panicked>>

-----------------------------------------------------------------------------
Get(p) == GetCached(p) \/ GetBusy(p) \/ GetFresh(p) \/ GetNone(p)

Uses(p) == (\E s \in Sectors : Bread(p, s)) \/ (\E v \in Values : Bwrite(p, v))

Next ==
  \/ \E p \in Procs : Get(p) \/ Iderw(p) \/ IderwLook(p)
  \/ \E p \in Procs : Uses(p) \/ Brelse(p) \/ Kill(p)
  \/ DiskWorks \/ IdeIntr

Spec == Init /\ [][Next]_vars

\* Processes in the kernel run on, and the disk answers.
FairSpec == /\ Spec
            /\ \A p \in Procs : WF_vars(Get(p) \/ Iderw(p) \/ IderwLook(p) \/ Brelse(p))
            /\ WF_vars(DiskWorks) /\ WF_vars(IdeIntr)

-----------------------------------------------------------------------------
\* A sector is in one buffer at most, although the scan of bget is made again
\* after every sleep and the buffer may have another sector by then; a buffer
\* that nobody has is clean and, if valid, has what the disk has.
CacheCoherent ==
  /\ \A b, c \in Bufs : sector[b] = sector[c] /\ sector[b] # None => b = c
  /\ \A b \in Bufs : ~busy[b] => ~dirty[b]
  /\ \A b \in Bufs : ~busy[b] /\ valid[b] => data[b] = disk[sector[b]]

\* No wake-up is lost: who sleeps in bget sleeps on a buffer that somebody
\* will give back, who sleeps in iderw on one that is still queued.
WaitersHaveCause ==
  \A p \in Procs :
    /\ pc[p] = "get_sleep" => busy[chan[p]]
    /\ pc[p] = "io_sleep" => \E i \in DOMAIN queue : queue[i] = chan[p]

\* Cache, driver and disk together are a store of sectors.
Has(s, p) == \E i \in DOMAIN held[p] : sector[held[p][i]] = s
Store == INSTANCE SectorStore WITH
  store  <- disk,
  asked  <- goal,
  holder <- [s \in Sectors |-> IF \E p \in Procs : Has(s, p)
                               THEN CHOOSE p \in Procs : Has(s, p) ELSE None],
  seen   <- [s \in Sectors |-> IF \E b \in Cached(s) : busy[b] /\ valid[b]
                               THEN data[CHOOSE b \in Cached(s) : busy[b] /\ valid[b]]
                               ELSE None]
IsSectorStore == Store!Spec

InDriver(p) == pc[p] \in {"io", "io_sleep", "io_look"}

\* Every read and write of the disk ends, whatever else is queued.
IoEnds == \A p \in Procs : InDriver(p) ~> (~InDriver(p) \/ panicked)

=============================================================================
