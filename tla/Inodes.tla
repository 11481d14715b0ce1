-------------------------------- MODULE Inodes --------------------------------
(***************************************************************************)
(* Inodes and directories: kernel/fs.c and the calls of kernel/sysfile.c   *)
(* that name files, with a machine that may stop between any two writes    *)
(* to the disk.                                                            *)
(*                                                                         *)
(* Every write of a block is a step (BufCache shows that the write of a    *)
(* sector takes place as a whole and that a sector is changed by one       *)
(* process at a time).  What a process does between two of them is one     *)
(* step with the write that follows when all of it happens under the lock  *)
(* of one inode; waiting for that lock is the guard of the step.           *)
(***************************************************************************)
EXTENDS Integers, Sequences, FiniteSets, SequencesExt

CONSTANTS
  Procs,
  Inums,       \* inode numbers; the root directory is 1
  Blocks,      \* data blocks, at most one per inode
  Names,       \* names other than . and ..
  Slots,       \* directory entries of a block, behind . and ..
  Paths,       \* absolute paths, as sequences of names
  Images,      \* disks to start from
  MaxCalls,    \* bound: system calls
  MaxCrashes   \* bound: crashes

root == 1

NoEnt     == <<>>
EmptyDir  == [up |-> 0, ent |-> [s \in 1..Slots |-> NoEnt]]
FreeInode == [type |-> "free", nlink |-> 0, size |-> 0, blk |-> 0]
Uncached  == [ref |-> 0, busy |-> FALSE, valid |-> FALSE, ino |-> FreeInode]

InodeTypes == {"free", "file", "dir"}
Inode    == [type : InodeTypes, nlink : Int, size : Nat, blk : {0} \cup Blocks]
DirBlock == [up : {0} \cup Inums, ent : [1..Slots -> {NoEnt} \cup (Names \X Inums)]]

\* A disk that mkfs has made, or that a crash has left: what may be kept of it
\* has one owner, no link is missing from a count, no directory is below itself.
Consistent(img) ==
  LET linked == {i \in Inums : img.dino[i].nlink > 0}
      dirs   == {i \in linked : img.dino[i].type = "dir" /\ img.dino[i].blk # 0}
      within(d) == img.content[img.dino[d].blk]
      entries   == {x \in dirs \X (1..Slots) : within(x[1]).ent[x[2]] # NoEnt}
      child(x)  == within(x[1]).ent[x[2]][2] IN
  /\ img.dino \in [Inums -> Inode] /\ img.bitmap \subseteq Blocks
  /\ img.content \in [Blocks -> DirBlock]
  /\ \A b \in Blocks \ img.bitmap : img.content[b] = EmptyDir
  /\ \A i \in Inums : img.dino[i].type = "free" => img.dino[i].nlink = 0
  /\ root \in dirs
  /\ \A i \in linked : img.dino[i].blk # 0 =>
       /\ img.dino[i].blk \in img.bitmap
       /\ \A j \in linked \ {i} : img.dino[j].blk # img.dino[i].blk
  /\ \A x \in entries :
       /\ child(x) # root
       /\ img.dino[child(x)].type = "dir" =>
            /\ child(x) \in dirs /\ within(child(x)).up = x[1]
            /\ \A y \in entries : child(y) = child(x) => y = x
  /\ \A S \in SUBSET dirs : S # {} =>
       \E d \in S : \A x \in entries : x[1] = d => child(x) \notin S
  /\ \A i \in Inums : img.dino[i].nlink >=
       Cardinality({x \in entries : child(x) = i})
       + Cardinality({c \in Inums : img.dino[c].type = "dir"
                                    /\ \E x \in entries : x[1] = i /\ child(x) = c})
       + (IF i = root THEN 1 ELSE 0)

ASSUME InodesAssumption ==
  /\ root \in Inums /\ Inums \subseteq Nat \ {0} /\ Blocks \subseteq Nat \ {0}
  /\ IsFiniteSet(Inums) /\ IsFiniteSet(Procs)
  /\ Slots \in Nat \ {0} /\ Paths \subseteq Seq(Names) /\ <<>> \notin Paths
  /\ \A img \in Images : Consistent(img)

VARIABLES
  dino,        \* the inodes on the disk: type, nlink, size, blk
  bitmap,      \* blocks marked as used on the disk
  content,     \* what a block of a directory holds on the disk
  mem,         \* the inode cache: ref, I_BUSY, I_VALID and the copies
  pc, call,    \* where a process is, in which call
  cur, rest,   \* namex: ip and what is left of the path
  dp, ip,      \* the locals of the calls
  fd,          \* the one open file of a process
  putting,     \* the inode that iput truncates and frees, or 0
  stage,       \* how far it is
  calls, crashes, stray   \* counters, and: a removed directory got an entry

diskVars == <<dino, bitmap, content>>
locals   == <<call, cur, rest, dp, ip, fd>>
putVars  == <<putting, stage>>
ghosts   == <<calls, crashes, stray>>
vars == <<diskVars, mem, pc, locals, putVars, ghosts>>

\* A call of link takes two paths, the others one.
Kinds == {"open", "creat", "mkdir", "unlink", "link"}
NoCall == [kind |-> "none", path |-> <<>>, new |-> <<>>]

All(v) == [p \in Procs |-> v]
EmptyCache == [i \in Inums |-> Uncached]

Init == /\ \E img \in Images :
             dino = img.dino /\ bitmap = img.bitmap /\ content = img.content
        /\ mem = EmptyCache /\ pc = All("idle") /\ call = All(NoCall)
        /\ cur = All(0) /\ rest = All(<<>>) /\ dp = All(0) /\ ip = All(0)
        /\ fd = All(0) /\ putting = All(0) /\ stage = All("clear")
        /\ calls = 0 /\ crashes = 0 /\ stray = FALSE

-----------------------------------------------------------------------------
(* The inode cache.  These are functions of the cache m. *)

\* iget of a number that no slot has sets flags to 0.
Igot(m, i) == [m EXCEPT ![i].ref = @ + 1, ![i].valid = @ /\ m[i].ref > 0]

\* ilock, whose guard is ~busy; the first one since iget reads the disk.
Locked(m, i) == [m EXCEPT ![i].busy = TRUE, ![i].valid = TRUE,
                          ![i].ino = IF m[i].valid THEN @ ELSE dino[i]]

Unlocked(m, i) == [m EXCEPT ![i].busy = FALSE]

\* Variant: iput does not ask how many links are left.
LastRef(m, i) == m[i].ref = 1 /\ m[i].valid

\* iput: the last reference to an inode without links truncates and frees it.
IsLast(m, i) == m[i].ref = 1 /\ m[i].valid /\ m[i].ino.nlink = 0

\* iput up to the truncation (of Trunc), or to its end.
Put(m, i) == IF IsLast(m, i) THEN [m EXCEPT ![i].busy = TRUE]
                             ELSE [m EXCEPT ![i].ref = @ - 1]
Trunc(m, i) == IF IsLast(m, i) THEN i ELSE 0

\* Variant: iunlock alone.
JustUnlocked(m, i) == Unlocked(m, i)

\* iunlockput
Dropped(m, i) == Put(Unlocked(m, i), i)
DropTrunc(m, i) == Trunc(Unlocked(m, i), i)

Free(i)  == ~mem[i].busy
Ino(m, i) == m[i].ino
Resume(p, place) == pc' = [pc EXCEPT ![p] = place]
Ready(p, place)  == pc[p] = place /\ putting[p] = 0

\* A call ends; f is the open file it leaves.
End(p, f) == /\ Resume(p, "idle")
             /\ call' = [call EXCEPT ![p] = NoCall]
             /\ cur' = [cur EXCEPT ![p] = 0] /\ rest' = [rest EXCEPT ![p] = <<>>]
             /\ dp' = [dp EXCEPT ![p] = 0] /\ ip' = [ip EXCEPT ![p] = 0]
             /\ fd' = [fd EXCEPT ![p] = f]

\* The rest of iput of i is left to do, if i is not 0.
Later(p, i) == putting' = [putting EXCEPT ![p] = i] /\ UNCHANGED stage

\* iupdate with the copy ino.
Iupdate(i, ino) == dino' = [dino EXCEPT ![i] = ino]

-----------------------------------------------------------------------------
(* The rest of iput: itrunc, type = 0, and the end under icache.lock. *)

\* bfree of its block: the block is cleared, then marked as free.
PutClear(p) ==
  /\ putting[p] # 0 /\ stage[p] = "clear"
  /\ LET b == Ino(mem, putting[p]).blk IN
       content' = IF b = 0 THEN content ELSE [content EXCEPT ![b] = EmptyDir]
  /\ stage' = [stage EXCEPT ![p] = "free"]
  /\ UNCHANGED <<dino, bitmap, mem, pc, locals, putting, ghosts>>

PutBfree(p) ==
  /\ putting[p] # 0 /\ stage[p] = "free"
  /\ LET i == putting[p] IN
       /\ bitmap' = bitmap \ {Ino(mem, i).blk}
       /\ mem' = [mem EXCEPT ![i].ino.blk = 0, ![i].ino.size = 0]
  /\ stage' = [stage EXCEPT ![p] = "trunc"]
  /\ UNCHANGED <<dino, content, pc, locals, putting, ghosts>>

\* iupdate at the end of itrunc, and iupdate with type 0.
PutUpdate(p) ==
  /\ putting[p] # 0 /\ stage[p] \in {"trunc", "type"}
  /\ LET i == putting[p] IN
       IF stage[p] = "trunc"
         THEN /\ Iupdate(i, Ino(mem, i))
              /\ stage' = [stage EXCEPT ![p] = "type"] /\ UNCHANGED mem
         ELSE /\ mem' = [mem EXCEPT ![i].ino.type = "free"]
              /\ Iupdate(i, Ino(mem', i))
              /\ stage' = [stage EXCEPT ![p] = "end"]
  /\ UNCHANGED <<bitmap, content, pc, locals, putting, ghosts>>

\* Variant: only I_BUSY is cleared.
FlagsAfterPut(m, i) == [m EXCEPT ![i].busy = FALSE]

\* flags = 0: somebody may have got the number for a new inode meanwhile.
NoFlags(m, i) == [m EXCEPT ![i].busy = FALSE, ![i].valid = FALSE]

PutEnd(p) ==
  /\ putting[p] # 0 /\ stage[p] = "end"
  /\ LET i == putting[p] IN mem' = [NoFlags(mem, i) EXCEPT ![i].ref = @ - 1]
  /\ putting' = [putting EXCEPT ![p] = 0]
  /\ stage' = [stage EXCEPT ![p] = "clear"]
  /\ UNCHANGED <<diskVars, pc, locals, ghosts>>

-----------------------------------------------------------------------------
(* Paths. *)

\* The entries of directory i with name n; dirlookup looks at whole blocks.
Where(m, i, n) == LET b == Ino(m, i).blk IN
  IF b = 0 THEN {} ELSE {s \in 1..Slots : content[b].ent[s] # NoEnt
                                          /\ content[b].ent[s][1] = n}
First(S) == CHOOSE s \in S : \A t \in S : s <= t
Entry(m, i, n) == content[Ino(m, i).blk].ent[First(Where(m, i, n))][2]
Empty(m, i) == LET b == Ino(m, i).blk IN
  b = 0 \/ \A s \in 1..Ino(m, i).size : content[b].ent[s] = NoEnt

\* Where a call goes on when its path has been followed.
Start(p) == CASE call[p].kind = "open"   -> "o_lock"
              [] call[p].kind = "unlink" -> "u_lock"
              [] call[p].kind = "link"   -> IF pc[p] = "walk" THEN "l_old" ELSE "l_new"
              [] OTHER -> "c_lock"

\* The path leads nowhere: the call fails, link takes its new link back first.
Nowhere(p) == IF call[p].kind = "link" /\ pc[p] = "walkp"
              THEN Resume(p, "l_bad") /\ UNCHANGED <<call, dp, ip, fd>>
                   /\ cur' = [cur EXCEPT ![p] = 0] /\ rest' = [rest EXCEPT ![p] = <<>>]
              ELSE End(p, fd[p])

\* One turn of the loop of namex: under the lock of a directory the next
\* element is looked up and got, or the parent is there.
Walk(p) ==
  LET i == IF cur[p] = 0 THEN root ELSE cur[p]
      m == Locked(IF cur[p] = 0 THEN Igot(mem, i) ELSE mem, i)
      n == Head(rest[p]) IN
  /\ Ready(p, "walk") \/ Ready(p, "walkp")
  /\ Free(i)
  /\ \/ /\ \/ Ino(m, i).type # "dir"
           \/ Where(m, i, n) = {} /\ ~(pc[p] = "walkp" /\ Len(rest[p]) = 1)
        /\ mem' = Dropped(m, i) /\ Later(p, DropTrunc(m, i))
        /\ Nowhere(p)
     \/ /\ Ino(m, i).type = "dir" /\ pc[p] = "walkp" /\ Len(rest[p]) = 1
        /\ mem' = Unlocked(m, i)
        /\ dp' = [dp EXCEPT ![p] = i]
        /\ cur' = [cur EXCEPT ![p] = 0]
        /\ Resume(p, Start(p))
        /\ UNCHANGED <<call, rest, ip, fd, putVars>>
     \/ /\ Ino(m, i).type = "dir" /\ Where(m, i, n) # {}
        /\ ~(pc[p] = "walkp" /\ Len(rest[p]) = 1)
        /\ LET next == Entry(m, i, n)
               got  == Igot(m, next) IN
             /\ mem' = Dropped(got, i) /\ Later(p, DropTrunc(got, i))
             /\ rest' = [rest EXCEPT ![p] = Tail(@)]
             /\ IF Len(rest[p]) = 1
                  THEN /\ ip' = [ip EXCEPT ![p] = next]
                       /\ cur' = [cur EXCEPT ![p] = 0] /\ Resume(p, Start(p))
                  ELSE cur' = [cur EXCEPT ![p] = next] /\ UNCHANGED <<ip, pc>>
        /\ UNCHANGED <<call, dp, fd>>
  /\ UNCHANGED <<diskVars, ghosts>>

\* dirlink behind its own dirlookup: the entry goes to the first empty slot
\* below the size of the directory, or extends it.
SlotFor(d, b) ==
  LET empty == {s \in 1..Ino(mem, d).size : content[b].ent[s] = NoEnt} IN
  IF empty = {} THEN Ino(mem, d).size + 1 ELSE First(empty)
Extends(d) == SlotFor(d, Ino(mem, d).blk) > Ino(mem, d).size

WriteEntry(d, n, i) ==
  LET b == Ino(mem, d).blk
      s == SlotFor(d, b) IN
  /\ s <= Slots
  /\ content' = [content EXCEPT ![b].ent[s] = <<n, i>>]

LastName(path) == path[Len(path)]
NameOf(p) == LastName(IF call[p].kind = "link" THEN call[p].new ELSE call[p].path)

-----------------------------------------------------------------------------
(* open of a file that exists, close, write *)

\* The rest of open, with ip[p] locked in m: the call keeps the inode, or there
\* is no file or descriptor left (or a directory was to be written), and it
\* lets go of the inode again.
Opened(p, m) ==
  \/ mem' = Unlocked(m, ip[p]) /\ End(p, ip[p]) /\ UNCHANGED putVars
  \/ mem' = Dropped(m, ip[p]) /\ Later(p, DropTrunc(m, ip[p])) /\ End(p, fd[p])

OpenLock(p) ==
  /\ Ready(p, "o_lock") /\ Free(ip[p])
  /\ Opened(p, Locked(mem, ip[p]))
  /\ UNCHANGED <<diskVars, ghosts>>

Close(p) ==
  /\ Ready(p, "idle") /\ fd[p] # 0
  /\ mem' = Put(mem, fd[p]) /\ Later(p, Trunc(mem, fd[p]))
  /\ fd' = [fd EXCEPT ![p] = 0]
  /\ UNCHANGED <<diskVars, pc, call, cur, rest, dp, ip, ghosts>>

\* balloc: the first free block.
Unused == Blocks \ bitmap

\* The first write to a file: bmap allocates its block ...
WriteBlock(p) ==
  /\ Ready(p, "idle") /\ fd[p] # 0 /\ calls < MaxCalls
  /\ Free(fd[p]) /\ Unused # {}
  /\ LET m == Locked(mem, fd[p]) IN
       /\ Ino(m, fd[p]).type = "file" /\ Ino(m, fd[p]).blk = 0
       /\ mem' = [m EXCEPT ![fd[p]].ino.blk = First(Unused)]
       /\ bitmap' = bitmap \cup {First(Unused)}
  /\ Resume(p, "w_upd")
  /\ calls' = calls + 1
  /\ UNCHANGED <<dino, content, locals, putVars, crashes, stray>>

\* ... and writei updates the inode.
WriteUpdate(p) ==
  /\ Ready(p, "w_upd")
  /\ LET m == [mem EXCEPT ![fd[p]].ino.size = 1] IN
       /\ Iupdate(fd[p], Ino(m, fd[p]))
       /\ mem' = Unlocked(m, fd[p])
  /\ Resume(p, "idle")
  /\ UNCHANGED <<bitmap, content, locals, putVars, ghosts>>

-----------------------------------------------------------------------------
(* create, for open with O_CREATE and for mkdir *)

\* Variant: the directory stays locked when the name exists.
GiveParent(m, d) == Put(m, d)

\* iunlockput(dp)
DropParent(m, d) == Dropped(m, d)

CreateLock(p) ==
  /\ Ready(p, "c_lock") /\ Free(dp[p])
  /\ LET d == dp[p]
         m == Locked(mem, d) IN
       IF Where(m, d, NameOf(p)) = {}
         THEN /\ mem' = m /\ Resume(p, "c_alloc")
              /\ stray' = (stray \/ Ino(m, d).nlink = 0)
              /\ UNCHANGED <<dp, ip, putVars>>
         ELSE LET i == Entry(m, d, NameOf(p)) IN
              /\ mem' = DropParent(Igot(m, i), d)
              /\ Later(p, DropTrunc(Igot(m, i), d))
              /\ ip' = [ip EXCEPT ![p] = i] /\ dp' = [dp EXCEPT ![p] = 0]
              /\ Resume(p, "c_exist") /\ UNCHANGED stray
  /\ UNCHANGED <<diskVars, call, cur, rest, fd, calls, crashes>>

CreateExists(p) ==
  /\ Ready(p, "c_exist") /\ Free(ip[p])
  /\ LET i == ip[p]
         m == Locked(mem, i) IN
       IF call[p].kind = "creat" /\ Ino(m, i).type = "file"
         THEN Opened(p, m)
         ELSE mem' = Dropped(m, i) /\ Later(p, DropTrunc(m, i)) /\ End(p, fd[p])
  /\ UNCHANGED <<diskVars, ghosts>>

\* ialloc
FreeInums == {i \in Inums : dino[i].type = "free"}

CreateAlloc(p) ==
  /\ Ready(p, "c_alloc") /\ FreeInums # {}
  /\ LET i == First(FreeInums)
         t == IF call[p].kind = "mkdir" THEN "dir" ELSE "file" IN
       /\ Iupdate(i, [FreeInode EXCEPT !.type = t])
       /\ mem' = Igot(mem, i)
       /\ ip' = [ip EXCEPT ![p] = i]
  /\ Resume(p, "c_lockip")
  /\ UNCHANGED <<bitmap, content, call, cur, rest, dp, fd, putVars, ghosts>>

\* ilock, nlink = 1, iupdate
CreateLink1(p) ==
  /\ Ready(p, "c_lockip") /\ Free(ip[p])
  /\ LET m == [Locked(mem, ip[p]) EXCEPT ![ip[p]].ino.nlink = 1] IN
       mem' = m /\ Iupdate(ip[p], Ino(m, ip[p]))
  /\ Resume(p, IF call[p].kind = "mkdir" THEN "c_parent" ELSE "c_link")
  /\ UNCHANGED <<bitmap, content, locals, putVars, ghosts>>

\* dp->nlink++, iupdate
CreateParent(p) ==
  /\ Ready(p, "c_parent")
  /\ mem' = [mem EXCEPT ![dp[p]].ino.nlink = @ + 1]
  /\ Iupdate(dp[p], Ino(mem', dp[p]))
  /\ Resume(p, "c_balloc")
  /\ UNCHANGED <<bitmap, content, locals, putVars, ghosts>>

\* dirlink of . in the new directory: its block, then its inode; dirlink of ..
CreateDots(p) ==
  /\ \/ /\ Ready(p, "c_balloc") /\ Unused # {}
        /\ bitmap' = bitmap \cup {First(Unused)}
        /\ mem' = [mem EXCEPT ![ip[p]].ino.blk = First(Unused)]
        /\ Resume(p, "c_dot")
        /\ UNCHANGED <<dino, content>>
     \/ /\ Ready(p, "c_dot")
        /\ Iupdate(ip[p], Ino(mem, ip[p])) /\ Resume(p, "c_dotdot")
        /\ UNCHANGED <<bitmap, content, mem>>
     \/ /\ Ready(p, "c_dotdot")
        /\ content' = [content EXCEPT ![Ino(mem, ip[p]).blk].up = dp[p]]
        /\ Resume(p, "c_link")
        /\ UNCHANGED <<bitmap, dino, mem>>
  /\ UNCHANGED <<locals, putVars, ghosts>>

\* iunlockput(dp) when the entry is there
Linked(p, m, place) ==
  /\ mem' = Dropped(m, dp[p]) /\ Later(p, DropTrunc(m, dp[p]))
  /\ dp' = [dp EXCEPT ![p] = 0]
  /\ Resume(p, place)
  /\ UNCHANGED <<call, cur, rest, ip, fd>>

\* dirlink(dp, name, ip->inum)
CreateDirlink(p) ==
  /\ Ready(p, "c_link")
  /\ WriteEntry(dp[p], NameOf(p), ip[p])
  /\ IF Extends(dp[p]) THEN Resume(p, "c_size") /\ UNCHANGED <<mem, locals, putVars>>
                       ELSE Linked(p, mem, "c_end")
  /\ UNCHANGED <<dino, bitmap, ghosts>>

CreateExtend(p) ==
  /\ Ready(p, "c_size")
  /\ LET m == [mem EXCEPT ![dp[p]].ino.size = @ + 1] IN
       Iupdate(dp[p], Ino(m, dp[p])) /\ Linked(p, m, "c_end")
  /\ UNCHANGED <<bitmap, content, ghosts>>

\* open keeps the inode if it can, mkdir drops it.
CreateEnd(p) ==
  /\ Ready(p, "c_end")
  /\ IF call[p].kind = "creat"
       THEN Opened(p, mem)
       ELSE /\ mem' = Dropped(mem, ip[p]) /\ Later(p, DropTrunc(mem, ip[p]))
            /\ End(p, fd[p])
  /\ UNCHANGED <<diskVars, ghosts>>

-----------------------------------------------------------------------------
(* link *)

\* ilock(ip), nlink++, iupdate, iunlock; a directory is refused.
LinkOld(p) ==
  /\ Ready(p, "l_old") /\ Free(ip[p])
  /\ LET i == ip[p]
         m == Locked(mem, i) IN
       IF Ino(m, i).type = "dir"
         THEN /\ mem' = Dropped(m, i) /\ Later(p, DropTrunc(m, i)) /\ End(p, fd[p])
              /\ UNCHANGED dino
         ELSE /\ Iupdate(i, [Ino(m, i) EXCEPT !.nlink = @ + 1])
              /\ mem' = [Unlocked(m, i) EXCEPT ![i].ino.nlink = @ + 1]
              /\ rest' = [rest EXCEPT ![p] = call[p].new]
              /\ Resume(p, "walkp")
              /\ UNCHANGED <<call, cur, dp, ip, fd, putVars>>
  /\ UNCHANGED <<bitmap, content, ghosts>>

\* dirlink fails when the name exists.
LinkNew(p) ==
  /\ Ready(p, "l_new") /\ Free(dp[p])
  /\ LET d == dp[p]
         m == Locked(mem, d) IN
       /\ Where(m, d, NameOf(p)) # {}
       /\ mem' = Dropped(m, d) /\ Later(p, DropTrunc(m, d))
       /\ dp' = [dp EXCEPT ![p] = 0]
       /\ Resume(p, "l_bad")
  /\ UNCHANGED <<diskVars, call, cur, rest, ip, fd, ghosts>>

LinkNewLock(p) ==
  /\ Ready(p, "l_new") /\ Free(dp[p])
  /\ Where(Locked(mem, dp[p]), dp[p], NameOf(p)) = {}
  /\ mem' = Locked(mem, dp[p])
  /\ stray' = (stray \/ Ino(mem', dp[p]).nlink = 0)
  /\ Resume(p, "l_link")
  /\ UNCHANGED <<diskVars, locals, putVars, calls, crashes>>

LinkDirlink(p) ==
  /\ Ready(p, "l_link")
  /\ WriteEntry(dp[p], NameOf(p), ip[p])
  /\ IF Extends(dp[p]) THEN Resume(p, "l_size") /\ UNCHANGED <<mem, locals, putVars>>
                       ELSE Linked(p, mem, "l_end")
  /\ UNCHANGED <<dino, bitmap, ghosts>>

LinkExtend(p) ==
  /\ Ready(p, "l_size")
  /\ LET m == [mem EXCEPT ![dp[p]].ino.size = @ + 1] IN
       Iupdate(dp[p], Ino(m, dp[p])) /\ Linked(p, m, "l_end")
  /\ UNCHANGED <<bitmap, content, ghosts>>

\* iput(ip)
LinkEnd(p) ==
  /\ Ready(p, "l_end")
  /\ mem' = Put(mem, ip[p]) /\ Later(p, Trunc(mem, ip[p]))
  /\ End(p, fd[p])
  /\ UNCHANGED <<diskVars, ghosts>>

\* Variant: a link that fails leaves the count as it is.
TakenBack(n) == n

\* ip->nlink--
LessOne(n) == n - 1

\* bad: ilock(ip), nlink--, iupdate, iunlockput
LinkBad(p) ==
  /\ Ready(p, "l_bad") /\ Free(ip[p])
  /\ LET i == ip[p]
         m == [Locked(mem, i) EXCEPT ![i].ino.nlink = LessOne(@)] IN
       /\ Iupdate(i, Ino(m, i))
       /\ mem' = Dropped(m, i) /\ Later(p, DropTrunc(m, i))
  /\ End(p, fd[p])
  /\ UNCHANGED <<bitmap, content, ghosts>>

-----------------------------------------------------------------------------
(* unlink *)

\* ilock(dp), dirlookup
UnlinkLookup(p) ==
  /\ Ready(p, "u_lock") /\ Free(dp[p])
  /\ LET d == dp[p]
         m == Locked(mem, d) IN
       IF Where(m, d, NameOf(p)) = {}
         THEN mem' = Dropped(m, d) /\ Later(p, DropTrunc(m, d)) /\ End(p, fd[p])
         ELSE LET i == Entry(m, d, NameOf(p)) IN
              /\ mem' = Igot(m, i) /\ ip' = [ip EXCEPT ![p] = i]
              /\ Resume(p, "u_ip")
              /\ UNCHANGED <<call, cur, rest, dp, fd, putVars>>
  /\ UNCHANGED <<diskVars, ghosts>>

\* ilock(ip); a directory must be empty.  The entry is cleared on the disk.
UnlinkEntry(p) ==
  /\ Ready(p, "u_ip") /\ Free(ip[p])
  /\ LET d == dp[p]
         i == ip[p]
         m == Locked(mem, i)
         s == First(Where(m, d, NameOf(p))) IN
       IF Ino(m, i).type = "dir" /\ ~Empty(m, i)
         THEN /\ mem' = Dropped(m, i) /\ Later(p, DropTrunc(m, i))
              /\ ip' = [ip EXCEPT ![p] = 0] /\ Resume(p, "u_fail")
              /\ UNCHANGED <<content, call, cur, rest, dp, fd>>
         ELSE /\ content' = [content EXCEPT ![Ino(m, d).blk].ent[s] = NoEnt]
              /\ IF Ino(m, i).type = "dir"
                   THEN mem' = m /\ Resume(p, "u_dp") /\ UNCHANGED <<locals, putVars>>
                   ELSE Linked(p, m, "u_nlink")
  /\ UNCHANGED <<dino, bitmap, ghosts>>

UnlinkFail(p) ==
  /\ Ready(p, "u_fail")
  /\ mem' = Dropped(mem, dp[p]) /\ Later(p, DropTrunc(mem, dp[p]))
  /\ End(p, fd[p])
  /\ UNCHANGED <<diskVars, ghosts>>

\* dp->nlink--, iupdate, iunlockput
UnlinkParent(p) ==
  /\ Ready(p, "u_dp")
  /\ LET m == [mem EXCEPT ![dp[p]].ino.nlink = @ - 1] IN
       Iupdate(dp[p], Ino(m, dp[p])) /\ Linked(p, m, "u_nlink")
  /\ UNCHANGED <<bitmap, content, ghosts>>

\* ip->nlink--, iupdate, iunlockput
UnlinkNlink(p) ==
  /\ Ready(p, "u_nlink")
  /\ LET i == ip[p]
         m == [mem EXCEPT ![i].ino.nlink = @ - 1] IN
       /\ Iupdate(i, Ino(m, i))
       /\ mem' = Dropped(m, i) /\ Later(p, DropTrunc(m, i))
  /\ End(p, fd[p])
  /\ UNCHANGED <<bitmap, content, ghosts>>

-----------------------------------------------------------------------------
(* A process enters the kernel; the machine stops. *)

Begin(p, kind, path, new) ==
  /\ Ready(p, "idle") /\ calls < MaxCalls
  /\ kind \in {"open", "creat"} => fd[p] = 0
  /\ kind # "link" => new = path
  /\ call' = [call EXCEPT ![p] = [kind |-> kind, path |-> path, new |-> new]]
  /\ rest' = [rest EXCEPT ![p] = path]
  /\ Resume(p, IF kind \in {"open", "link"} THEN "walk" ELSE "walkp")
  /\ calls' = calls + 1
  /\ UNCHANGED <<diskVars, mem, cur, dp, ip, fd, putVars, crashes, stray>>

\* The disk is all that is left.
Crash ==
  /\ crashes < MaxCrashes
  /\ mem' = EmptyCache /\ pc' = All("idle") /\ call' = All(NoCall)
  /\ cur' = All(0) /\ rest' = All(<<>>) /\ dp' = All(0) /\ ip' = All(0)
  /\ fd' = All(0) /\ putting' = All(0) /\ stage' = All("clear")
  /\ crashes' = crashes + 1
  /\ UNCHANGED <<diskVars, calls, stray>>

PutStep(p) == PutClear(p) \/ PutBfree(p) \/ PutUpdate(p) \/ PutEnd(p)
CreateStep(p) ==
  \/ CreateLock(p) \/ CreateExists(p) \/ CreateAlloc(p) \/ CreateLink1(p)
  \/ CreateParent(p) \/ CreateDots(p) \/ CreateDirlink(p) \/ CreateExtend(p)
  \/ CreateEnd(p)
LinkStep(p) ==
  \/ LinkOld(p) \/ LinkNew(p) \/ LinkNewLock(p) \/ LinkDirlink(p)
  \/ LinkExtend(p) \/ LinkEnd(p) \/ LinkBad(p)
UnlinkStep(p) ==
  \/ UnlinkLookup(p) \/ UnlinkEntry(p) \/ UnlinkFail(p)
  \/ UnlinkParent(p) \/ UnlinkNlink(p)
Kernel(p) == \/ Walk(p) \/ OpenLock(p) \/ WriteUpdate(p) \/ PutStep(p)
             \/ CreateStep(p) \/ LinkStep(p) \/ UnlinkStep(p)

Next ==
  \/ \E p \in Procs :
       \/ Kernel(p) \/ Close(p) \/ WriteBlock(p)
       \/ \E kind \in Kinds, path, new \in Paths : Begin(p, kind, path, new)
  \/ Crash

Spec == Init /\ [][Next]_vars

-----------------------------------------------------------------------------
(* What the disk shows to somebody who starts with it. *)

\* The entries of directory i, as pairs of a directory and a slot.
Entries(i) == IF dino[i].type # "dir" \/ dino[i].blk = 0 THEN {}
              ELSE {s \in 1..Slots : content[dino[i].blk].ent[s] # NoEnt}
Child(i, s) == content[dino[i].blk].ent[s][2]

\* What can be reached from the root: the least set of inodes that holds the
\* root and what its directories name.
Reach ==
  LET closed == {S \in SUBSET Inums : root \in S
                   /\ \A d \in S : \A s \in Entries(d) : Child(d, s) \in S}
  IN {i \in Inums : \A S \in closed : i \in S}

\* Entries of reachable directories for i, their .. included; the root has
\* the one that mkfs counts.
LinksTo(i) ==
  LET named == {x \in Reach \X (1..Slots) : x[2] \in Entries(x[1]) /\ Child(x[1], x[2]) = i}
      below == {d \in Reach \ {root} : dino[d].type = "dir" /\ content[dino[d].blk].up = i}
  IN Cardinality(named) + Cardinality(below) + (IF i = root THEN 1 ELSE 0)

\* Whatever the disk holds when the machine stops, what can be reached from
\* the root is sound: every entry names an allocated inode, which counts at
\* least the links to it (else unlink frees it too early, fs.c: iput), and
\* owns its block alone, marked in the bitmap (else balloc gives it away);
\* every directory below the root has its block, and its .. leads to the
\* directory that names it.
ImageSound ==
  \A i \in Reach :
    /\ dino[i].type # "free"
    /\ dino[i].nlink >= LinksTo(i)
    /\ dino[i].blk # 0 => /\ dino[i].blk \in bitmap
                          /\ \A j \in Reach \ {i} : dino[j].blk # dino[i].blk
    /\ dino[i].type = "dir" => dino[i].blk # 0
    /\ \A s \in Entries(i) : dino[Child(i, s)].type = "dir" =>
         content[dino[Child(i, s)].blk].up = i

\* ref of a cached inode is the number of pointers to it that open files and
\* the calls under way hold: none is dropped twice or forgotten on an error
\* path.
RefsCounted ==
  \A i \in Inums :
    mem[i].ref = Cardinality({p \in Procs : fd[p] = i})
               + Cardinality({p \in Procs : cur[p] = i})
               + Cardinality({p \in Procs : dp[p] = i})
               + Cardinality({p \in Procs : ip[p] = i})
               + Cardinality({p \in Procs : putting[p] = i})

\* A copy that nobody has locked is what the disk holds, and who still has to
\* read it finds an inode there (the panic "ilock: no type"): a number that
\* iput gives up and ialloc takes again is never seen with its old copy.
CopiesAgree ==
  \A i \in Inums : mem[i].ref > 0 /\ ~mem[i].busy =>
    IF mem[i].valid THEN mem[i].ino = dino[i] ELSE dino[i].type # "free"

\* When no call is under way and no machine has stopped, nothing has leaked:
\* an allocated inode can be reached or is open, its count is exactly the
\* number of its links, and exactly the blocks of inodes are in use.  A
\* directory that was removed between nameiparent and ilock takes entries all
\* the same, which are lost with it (stray).
NothingLeaks ==
  crashes = 0 /\ ~stray /\ (\A p \in Procs : Ready(p, "idle")) =>
    LET used == {i \in Inums : dino[i].type # "free"} IN
    /\ \A i \in used : i \in Reach \/ \E p \in Procs : fd[p] = i
    /\ \A i \in Reach : dino[i].nlink = LinksTo(i)
    /\ bitmap = {dino[i].blk : i \in used} \ {0}

\* A process that no inode, block or entry is left for: the code panics (or,
\* for a directory that is full, would take one more block).
Exhausted == \E p \in Procs :
  \/ pc[p] = "c_alloc" /\ FreeInums = {}
  \/ pc[p] = "c_balloc" /\ Unused = {}
  \/ pc[p] \in {"c_link", "l_link"} /\ SlotFor(dp[p], Ino(mem, dp[p]).blk) > Slots

\* The inode whose lock a process takes with its next step, or 0.
WaitsFor(p) ==
  IF putting[p] # 0 THEN 0
  ELSE CASE pc[p] \in {"walk", "walkp"} -> IF cur[p] = 0 THEN root ELSE cur[p]
         [] pc[p] \in {"c_lock", "l_new", "u_lock"} -> dp[p]
         [] pc[p] \in {"o_lock", "c_exist", "c_lockip", "l_old", "l_bad", "u_ip"} -> ip[p]
         [] OTHER -> 0

\* Calls never wait for each other in a circle: create and unlink hold a
\* directory while they lock what it names, never the other way round, and
\* every lock is given back on every path.
NoDeadlock ==
  LET active == {p \in Procs : ~Ready(p, "idle")} IN
  active # {} /\ ~Exhausted =>
    \E p \in active : WaitsFor(p) = 0 \/ Free(WaitsFor(p))

=============================================================================
