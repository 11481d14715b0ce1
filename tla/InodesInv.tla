----------------------------- MODULE InodesInv -------------------------------
(***************************************************************************)
(* The inductive invariant of Inodes, and the words in which the proof     *)
(* speaks of a step: the moves of one process through the cache, and       *)
(* pictures of the tree.                                                   *)
(*                                                                         *)
(* Base: types, where the locals of a call point to an inode (Phases), and *)
(* the counts.  Every step is read as a move: it sets the locals of one    *)
(* process, and takes, locks, changes and leaves inodes of the cache       *)
(* (MoveOf, EditOf, StepOf), so that a count changes as the pointers do.   *)
(*                                                                         *)
(* Inv adds who has which lock (Locks), when a copy may differ from the    *)
(* disk (Agree, Used), that nobody meets an inode which iput is freeing    *)
(* (Puts) or create is filling (Fresh), what a call knows of its inodes    *)
(* while it holds them (Known), and the tree (Tidy).                       *)
(***************************************************************************)
EXTENDS Inodes

-----------------------------------------------------------------------------
(* Types, and where the locals of a call point to an inode. *)

Pointer   == {0} \cup Inums
Cached    == [ref : Int, busy : BOOLEAN, valid : BOOLEAN, ino : Inode]
Stages    == {"clear", "free", "trunc", "type", "end"}
CallPaths == {<<>>} \cup Paths

Making  == {"c_lockip", "c_parent", "c_balloc", "c_dot", "c_dotdot", "c_link"}
Creates == Making \cup {"c_lock", "c_exist", "c_alloc", "c_size", "c_end"}
Links   == {"l_old", "l_new", "l_link", "l_size", "l_end", "l_bad"}
Unlinks == {"u_lock", "u_ip", "u_fail", "u_dp", "u_nlink"}
Walks   == {"walk", "walkp"}
Places  == {"idle", "w_upd", "o_lock"} \cup Walks \cup Creates \cup Links \cup Unlinks

\* Where dp is set; where ip is, but for the second path of link.
UsesDp == (Making \cup {"c_lock", "c_alloc", "c_size"}) \cup {"l_new", "l_link", "l_size"}
          \cup {"u_lock", "u_ip", "u_fail", "u_dp"}
UsesIp == {"o_lock"} \cup (Making \cup {"c_exist", "c_size", "c_end"}) \cup Links
          \cup {"u_ip", "u_dp", "u_nlink"}

DiskTypes ==
  /\ dino \in [Inums -> Inode] /\ bitmap \subseteq Blocks /\ content \in [Blocks -> DirBlock]
CacheTypes == mem \in [Inums -> Cached]
Calls == [kind : {"none"} \cup Kinds, path : CallPaths, new : CallPaths]
LocalTypes ==
  /\ pc \in [Procs -> Places] /\ call \in [Procs -> Calls]
  /\ cur \in [Procs -> Pointer] /\ dp \in [Procs -> Pointer] /\ ip \in [Procs -> Pointer]
  /\ fd \in [Procs -> Pointer] /\ putting \in [Procs -> Pointer] /\ stage \in [Procs -> Stages]
Types == DiskTypes /\ CacheTypes /\ LocalTypes

\* The call that process p is in goes through the place pl.
KindFits(kind, pl) ==
  /\ pl \in Creates => kind \in {"creat", "mkdir"}
  /\ pl \in {"c_parent", "c_balloc", "c_dot", "c_dotdot"} => kind = "mkdir"
  /\ pl \in Links => kind = "link"
  /\ pl \in Unlinks => kind = "unlink"
  /\ pl = "o_lock" => kind = "open"
  /\ pl = "walk" => kind \in {"open", "link"}
  /\ pl = "walkp" => kind \in {"creat", "mkdir", "unlink", "link"}

IpSet(kind, pl) == pl \in UsesIp \/ (pl = "walkp" /\ kind = "link")

PhaseOf(p) ==
  /\ IpSet(call[p].kind, pc[p]) <=> ip[p] # 0
  /\ pc[p] \in UsesDp <=> dp[p] # 0
  /\ cur[p] # 0 => pc[p] \in Walks
  /\ pc[p] = "w_upd" => fd[p] # 0
  /\ putting[p] = 0 => stage[p] = "clear"
  /\ KindFits(call[p].kind, pc[p])
  /\ call[p].kind \in {"open", "creat"} => fd[p] = 0
  /\ pc[p] \notin {"idle", "w_upd"} => call[p].path \in Paths /\ call[p].new \in Paths
Phases == \A p \in Procs : PhaseOf(p)

-----------------------------------------------------------------------------
(* Locks. *)

LocksDp == (Making \cup {"c_alloc", "c_size"}) \cup {"l_link", "l_size", "u_ip", "u_fail", "u_dp"}
LocksIp == {"c_parent", "c_balloc", "c_dot", "c_dotdot", "c_link", "c_size", "c_end", "u_dp",
            "u_nlink"}

\* Process p has the lock of inode i.
Has(p, i) == \/ pc[p] \in LocksDp /\ dp[p] = i
             \/ pc[p] \in LocksIp /\ ip[p] = i
             \/ pc[p] = "w_upd" /\ fd[p] = i
             \/ putting[p] = i

\* The inodes that a process has locked are different ones.
Apart(p) ==
  /\ pc[p] \in LocksDp \cap LocksIp => dp[p] # ip[p]
  /\ putting[p] # 0 => /\ pc[p] \in LocksDp => dp[p] # putting[p]
                       /\ pc[p] \in LocksIp => ip[p] # putting[p]
                       /\ pc[p] # "w_upd"

Locks ==
  /\ \A i \in Inums : mem[i].busy <=> \E p \in Procs : Has(p, i)
  /\ \A i \in Inums : mem[i].busy => mem[i].valid
  /\ \A p, q \in Procs, i \in Inums : Has(p, i) /\ Has(q, i) => p = q
  /\ \A p \in Procs : Apart(p)

-----------------------------------------------------------------------------
(* The copies. *)

Points(p, i) == cur[p] = i \/ dp[p] = i \/ ip[p] = i \/ fd[p] = i

\* The holder of the lock has changed the copy and not yet the disk.
Drifts(p, i) ==
  \/ pc[p] = "w_upd" /\ fd[p] = i
  \/ pc[p] = "c_dot" /\ ip[p] = i
  \/ putting[p] = i /\ stage[p] \in {"trunc", "end"}

\* The copy has the block that the inode on the disk still lacks.
NewBlock(i) == /\ dino[i].blk = 0 /\ mem[i].ino.blk # 0
               /\ mem[i].ino = [dino[i] EXCEPT !.blk = mem[i].ino.blk]

Agree ==
  /\ \A i \in Inums : mem[i].ref > 0 /\ mem[i].valid /\ (\A p \in Procs : ~Drifts(p, i)) =>
       mem[i].ino = dino[i]
  /\ \A p \in Procs : /\ pc[p] = "w_upd" => NewBlock(fd[p]) /\ dino[fd[p]].type = "file"
                      /\ pc[p] = "c_dot" => NewBlock(ip[p])

\* A cached inode that is free on the disk is at the end of iput.
Used == \A i \in Inums : mem[i].ref > 0 /\ dino[i].type = "free" =>
          \E p \in Procs : putting[p] = i /\ stage[p] = "end"

\* A process that has just got the number i for a new inode.
Maker(p, i) == /\ pc[p] = "c_lockip" /\ ip[p] = i
               /\ fd[p] # i /\ dp[p] # i /\ cur[p] # i

\* Nobody meets an inode that is put, but who makes a new one of its number.
PutOf(p, i) ==
  /\ \A q \in Procs : /\ q # p => putting[q] # i
                      /\ Points(q, i) => stage[p] = "end" /\ Maker(q, i)
  /\ mem[i].ino.nlink = 0 /\ dino[i].nlink = 0
  /\ stage[p] \in {"clear", "free", "trunc", "type"} =>
       mem[i].ino.type # "free" /\ dino[i].type = mem[i].ino.type
  /\ stage[p] \in {"trunc", "type", "end"} => mem[i].ino.blk = 0
  /\ stage[p] = "end" => /\ mem[i].ino.type = "free" /\ dino[i].blk = 0
                         /\ (dino[i].type = "free" \/ \E q \in Procs : Maker(q, i))
  /\ stage[p] = "free" /\ mem[i].ino.blk # 0 => content[mem[i].ino.blk] = EmptyDir
Puts == \A p \in Procs : putting[p] # 0 => PutOf(p, putting[p])

\* Nobody meets an inode that is being made.
MadeBy(p, i) ==
  /\ \A q \in Procs : Points(q, i) => q = p
  /\ cur[p] # i /\ dp[p] # i /\ fd[p] # i
  /\ \A q \in Procs : putting[q] = i => pc[p] = "c_lockip"
  /\ i # root
  /\ dino[i].type = IF call[p].kind = "mkdir" THEN "dir" ELSE "file"
  /\ pc[p] = "c_lockip" => dino[i].nlink = 0
  /\ pc[p] \in {"c_lockip", "c_parent", "c_balloc"} => dino[i].blk = 0
Fresh == \A p \in Procs : pc[p] \in Making => MadeBy(p, ip[p])

-----------------------------------------------------------------------------
(* The tree: what the disk and the copies together say.  A picture of it is *)
(* given by the counts N, the blocks O that linked or cached inodes own,   *)
(* the directories D, the contents C, the bitmap B, the links P that calls *)
(* under way have counted and not made, or taken and not yet discounted,   *)
(* and the inodes F that are being made.                                   *)

Eff(dn, m, i)  == IF m[i].ref > 0 /\ m[i].valid THEN m[i].ino ELSE dn[i]
Counts(dn)     == [i \in Inums |-> dn[i].nlink]
Owned(dn, m)   == [i \in Inums |-> IF dn[i].nlink > 0 \/ m[i].ref > 0
                                   THEN Eff(dn, m, i).blk ELSE 0]
DirsOf(dn, m)  == {i \in Inums : Eff(dn, m, i).type = "dir"}

\* What entry s of directory d names, or 0.
Named(O, D, C, d, s) ==
  IF d \in D /\ O[d] # 0 /\ C[O[d]].ent[s] # NoEnt THEN C[O[d]].ent[s][2] ELSE 0

NamesOf(O, D, C, i) == {x \in Inums \X (1..Slots) : Named(O, D, C, x[1], x[2]) = i}
SubDirs(O, D, C, i) == {c \in D : \E s \in 1..Slots : Named(O, D, C, i, s) = c}
Due(i) == IF i = root THEN 1 ELSE 0

Owners(O, D, C, B) ==
  /\ \A i \in Inums : O[i] # 0 => O[i] \in B
  /\ \A i, j \in Inums : i # j /\ O[i] # 0 => O[i] # O[j]
  /\ \A b \in Blocks \ B : C[b] = EmptyDir
  /\ root \in D /\ O[root] # 0

Counted(N, O, D, C, P) ==
  \A i \in Inums : N[i] >= Cardinality(NamesOf(O, D, C, i)) + Cardinality(SubDirs(O, D, C, i))
                           + Cardinality(P[i]) + Due(i)

\* Inode c, which entry s of d names: a directory leads back to where it is
\* named, and is named once.
Hangs(O, D, C, F, d, s, c) ==
  /\ c # root /\ c \notin F
  /\ c \in D => /\ O[c] # 0 /\ C[O[c]].up = d
                /\ \A e \in Inums, t \in 1..Slots : Named(O, D, C, e, t) = c => e = d /\ t = s

Tree(O, D, C, F) ==
  \A d \in Inums, s \in 1..Slots :
    Named(O, D, C, d, s) # 0 => Hangs(O, D, C, F, d, s, Named(O, D, C, d, s))

\* No directory is below itself: some member of every set names none of it.
NoCircle(O, D, C) ==
  \A S \in SUBSET Inums : S # {} =>
    \E c \in S : \A s \in 1..Slots : Named(O, D, C, c, s) \notin S

NamesNone(O, D, C, i) == \A s \in 1..Slots : Named(O, D, C, i, s) = 0

Sound(N, O, D, C, B, P, F) ==
  /\ Owners(O, D, C, B) /\ Counted(N, O, D, C, P) /\ Tree(O, D, C, F)
  /\ NoCircle(O, D, C) /\ \A i \in F : NamesNone(O, D, C, i)

\* What the calls under way have counted: a name of ip, or the .. of a
\* directory in dp.
PendIp(p) == \/ pc[p] \in {"c_parent", "c_balloc", "c_dot", "c_dotdot", "c_link", "l_new",
                           "l_link", "l_bad", "u_dp", "u_nlink"}
             \/ pc[p] = "walkp" /\ call[p].kind = "link"
PendDp(p) == \/ pc[p] \in {"u_dp", "c_balloc", "c_dot", "c_dotdot"}
             \/ pc[p] = "c_link" /\ call[p].kind = "mkdir"
Pend == [i \in Inums |-> {p \in Procs : (PendIp(p) /\ ip[p] = i) \/ (PendDp(p) /\ dp[p] = i)}]
InMaking == {i \in Inums : \E p \in Procs : pc[p] \in Making /\ ip[p] = i}

Tidy == /\ Sound(Counts(dino), Owned(dino, mem), DirsOf(dino, mem), content, bitmap, Pend, InMaking)
        /\ \A i \in Inums : dino[i].type = "free" => dino[i].nlink = 0

-----------------------------------------------------------------------------
(* What the calls know of their inodes. *)

IsDir(i)  == Eff(dino, mem, i).type = "dir"
Block(i)  == Eff(dino, mem, i).blk

Knows(p) ==
  /\ dp[p] # 0 => IsDir(dp[p]) /\ Block(dp[p]) # 0
  /\ cur[p] # 0 /\ IsDir(cur[p]) => Block(cur[p]) # 0
  /\ pc[p] = "u_ip" => LET b == mem[dp[p]].ino.blk
                           here == Where(mem, dp[p], NameOf(p)) IN
                       here # {} /\ content[b].ent[First(here)][2] = ip[p]
  /\ pc[p] \in {"l_new", "l_link", "l_bad"} \/ (pc[p] = "walkp" /\ call[p].kind = "link") =>
       Eff(dino, mem, ip[p]).type = "file"
  /\ pc[p] = "c_dotdot" \/ (pc[p] = "c_link" /\ call[p].kind = "mkdir") => Block(ip[p]) # 0
  /\ pc[p] = "c_link" /\ call[p].kind = "mkdir" => content[Block(ip[p])].up = dp[p]
Known == \A p \in Procs : Knows(p)

Inv == /\ Types /\ Phases /\ RefsCounted
       /\ Locks /\ Agree /\ Used /\ Puts /\ Fresh /\ Tidy /\ Known

-----------------------------------------------------------------------------
(* What a picture of the tree says, and what becomes of it. *)

Picture(N, O, D, C, B, P, F) ==
  /\ N \in [Inums -> Int] /\ O \in [Inums -> {0} \cup Blocks] /\ D \subseteq Inums
  /\ C \in [Blocks -> DirBlock] /\ B \subseteq Blocks
  /\ P \in [Inums -> SUBSET Procs] /\ F \subseteq Inums

\* An entry of a directory is written.
Writes(C, C2, b, s, v) == C2 = [C EXCEPT ![b].ent[s] = v]
Item == {NoEnt} \cup (Names \X Inums)
IsPic(O, D, C) == O \in [Inums -> {0} \cup Blocks] /\ D \in SUBSET Inums /\ C \in [Blocks -> DirBlock]

OneEntry(O, D, C, C2, d, s, i) ==
  /\ \A b \in Blocks : C2[b].up = C[b].up /\ (b # O[d] => C2[b] = C[b])
  /\ \A e \in Inums, t \in 1..Slots :
       Named(O, D, C2, e, t) = IF e = d /\ t = s THEN i ELSE Named(O, D, C, e, t)

-----------------------------------------------------------------------------
(* What the functions of the inode cache do. *)

CacheOK(m) == m \in [Inums -> Cached]

GotRelAt(m, g, i, x) ==
  /\ g[x].ref = IF x = i THEN m[x].ref + 1 ELSE m[x].ref
  /\ g[x].busy = m[x].busy
  /\ g[x].valid = (m[x].valid /\ (x = i => m[i].ref > 0))
  /\ g[x].ino = m[x].ino
GotRel(m, g, i) == CacheOK(g) /\ \A x \in Inums : GotRelAt(m, g, i, x)

LockRelAt(m, g, i, x) ==
  /\ g[x].ref = m[x].ref
  /\ g[x].busy = (x = i \/ m[x].busy)
  /\ g[x].valid = (x = i \/ m[x].valid)
  /\ g[x].ino = IF x = i /\ ~m[x].valid THEN dino[x] ELSE m[x].ino
LockRel(m, g, i) == CacheOK(g) /\ \A x \in Inums : LockRelAt(m, g, i, x)

UnlockRelAt(m, g, i, x) ==
  /\ g[x].ref = m[x].ref
  /\ g[x].busy = (x # i /\ m[x].busy)
  /\ g[x].valid = m[x].valid /\ g[x].ino = m[x].ino
UnlockRel(m, g, i) == CacheOK(g) /\ \A x \in Inums : UnlockRelAt(m, g, i, x)

PutRelAt(m, g, i, t, x) ==
  /\ g[x].ref = IF x = i /\ t = 0 THEN m[x].ref - 1 ELSE m[x].ref
  /\ g[x].busy = (m[x].busy \/ (x = i /\ t = i))
  /\ g[x].valid = m[x].valid /\ g[x].ino = m[x].ino
PutRel(m, g, i, t) ==
  /\ CacheOK(g) /\ t \in {0, i}
  /\ t = i <=> m[i].ref = 1 /\ m[i].valid /\ m[i].ino.nlink = 0
  /\ \A x \in Inums : PutRelAt(m, g, i, t, x)

DropRelAt(m, g, i, t, x) ==
  /\ g[x].ref = IF x = i /\ t = 0 THEN m[x].ref - 1 ELSE m[x].ref
  /\ g[x].busy = IF x = i THEN t = i ELSE m[x].busy
  /\ g[x].valid = m[x].valid /\ g[x].ino = m[x].ino
DropRel(m, g, i, t) ==
  /\ CacheOK(g) /\ t \in {0, i}
  /\ t = i <=> m[i].ref = 1 /\ m[i].valid /\ m[i].ino.nlink = 0
  /\ \A x \in Inums : DropRelAt(m, g, i, t, x)

InoRelAt(m, g, i, n, x) ==
  /\ g[x].ref = m[x].ref /\ g[x].busy = m[x].busy /\ g[x].valid = m[x].valid
  /\ g[x].ino = IF x = i THEN n ELSE m[x].ino
InoRel(m, g, i, n) == CacheOK(g) /\ \A x \in Inums : InoRelAt(m, g, i, n, x)

-----------------------------------------------------------------------------
(* A step of process p: its locals afterwards. *)

Sets(v, v2, p, x) == (v2 = v /\ x = v[p]) \/ v2 = [v EXCEPT ![p] = x]

Becomes(p, pl, k, c, d, i, f, t, st) ==
  /\ Sets(pc, pc', p, pl) /\ Sets(call, call', p, k) /\ Sets(cur, cur', p, c)
  /\ Sets(dp, dp', p, d) /\ Sets(ip, ip', p, i) /\ Sets(fd, fd', p, f)
  /\ Sets(putting, putting', p, t) /\ Sets(stage, stage', p, st)

Mine(p, pl, k, c, d, i, f, t, st) ==
  /\ pc'[p] = pl /\ call'[p] = k /\ cur'[p] = c /\ dp'[p] = d /\ ip'[p] = i /\ fd'[p] = f
  /\ putting'[p] = t /\ stage'[p] = st

SameFor(q) ==
  /\ pc'[q] = pc[q] /\ call'[q] = call[q] /\ cur'[q] = cur[q] /\ dp'[q] = dp[q]
  /\ ip'[q] = ip[q] /\ fd'[q] = fd[q] /\ putting'[q] = putting[q] /\ stage'[q] = stage[q]
OthersSame(p) == \A q \in Procs \ {p} : SameFor(q)

-----------------------------------------------------------------------------
(* Counting pointers. *)

Hit(v, i) == IF v = i THEN 1 ELSE 0
With(v, i) == {q \in Procs : v[q] = i}

\* What p itself points to.
Hits(p, i) == Hit(fd[p], i) + Hit(cur[p], i) + Hit(dp[p], i) + Hit(ip[p], i) + Hit(putting[p], i)

RefCounted(i) ==
  mem[i].ref = Cardinality(With(fd, i)) + Cardinality(With(cur, i)) + Cardinality(With(dp, i))
               + Cardinality(With(ip, i)) + Cardinality(With(putting, i))

\* The first three parts of the invariant: types, places, references.
Base == Types /\ Phases /\ RefsCounted

RefsMove(p) == \A i \in Inums : mem'[i].ref = (mem[i].ref + Hits(p, i)') - Hits(p, i)

-----------------------------------------------------------------------------
(* What a step does to the cache: it gets inode s (new) and locks it (lk), *)
(* gets what s names (g), and leaves s as it is, unlocked or given up.     *)

Looked(s, new, lk) == IF new THEN Locked(Igot(mem, s), s)
                      ELSE IF lk THEN Locked(mem, s) ELSE mem
Taken(s, new, lk, g) == IF g = 0 THEN Looked(s, new, lk) ELSE Igot(Looked(s, new, lk), g)
Left(m, s, how) == CASE how = "hold"   -> m
                     [] how = "unlock" -> Unlocked(m, s)
                     [] how = "drop"   -> Dropped(m, s)
                     [] OTHER          -> Put(m, s)
LeftTrunc(m, s, how) == CASE how \in {"hold", "unlock"} -> 0
                          [] how = "drop" -> DropTrunc(m, s)
                          [] OTHER        -> Trunc(m, s)
One(b) == IF b THEN 1 ELSE 0

VisitAt(s, new, lk, g, how, t, x) ==
  /\ mem'[x].ref = (mem[x].ref + One(x = s /\ new) + Hit(g, x))
                   - One(x = s /\ how \in {"drop", "put"} /\ t = 0)
  /\ x # s => mem'[x].busy = mem[x].busy
  /\ x = s /\ how = "hold" => mem'[x].busy = (lk \/ mem[x].busy)
  /\ x = s /\ how = "unlock" => ~mem'[x].busy
  /\ x = s /\ how = "drop" => mem'[x].busy = (t = s)
  /\ x = s /\ how = "put" => mem'[x].busy = (lk \/ mem[x].busy \/ t = s)
  /\ x # s /\ x # g => mem'[x].valid = mem[x].valid
  /\ x = s /\ g # s => mem'[x].valid = (lk \/ mem[x].valid)
  /\ x = s /\ g = s => mem'[x].valid = ((lk \/ mem[x].valid) /\ mem[x].ref + One(new) > 0)
  /\ x # s /\ x = g => mem'[x].valid = (mem[x].valid /\ mem[x].ref > 0)
  /\ mem'[x].ino = IF x = s /\ lk /\ ~(mem[x].valid /\ (new => mem[x].ref > 0))
                   THEN dino[x] ELSE mem[x].ino

Visits(s, new, lk, g, how, t) ==
  /\ CacheTypes' /\ t \in {0, s} /\ (how \in {"hold", "unlock"} => t = 0)
  /\ t # 0 => mem'[s].ref = 1 /\ mem'[s].valid /\ mem'[s].ino.nlink = 0
  /\ \A x \in Inums : VisitAt(s, new, lk, g, how, t, x)

\* The first two parts of it: m is the cache after them.
LookAt(m, s, new, lk, x) ==
  /\ m[x].ref = IF x = s /\ new THEN mem[x].ref + 1 ELSE mem[x].ref
  /\ m[x].busy = ((x = s /\ lk) \/ mem[x].busy)
  /\ m[x].valid = ((x = s /\ lk) \/ mem[x].valid)
  /\ m[x].ino = IF x = s /\ lk /\ ~(mem[x].valid /\ (new => mem[x].ref > 0))
                THEN dino[x] ELSE mem[x].ino

TakeAt(m, s, new, lk, g, x) ==
  /\ m[x].ref = (mem[x].ref + One(x = s /\ new)) + Hit(g, x)
  /\ m[x].busy = ((x = s /\ lk) \/ mem[x].busy)
  /\ x # s /\ x # g => m[x].valid = mem[x].valid
  /\ x = s /\ g # s => m[x].valid = (lk \/ mem[x].valid)
  /\ x = s /\ g = s => m[x].valid = ((lk \/ mem[x].valid) /\ mem[x].ref + One(new) > 0)
  /\ x # s /\ x = g => m[x].valid = (mem[x].valid /\ mem[x].ref > 0)
  /\ m[x].ino = IF x = s /\ lk /\ ~(mem[x].valid /\ (new => mem[x].ref > 0))
                THEN dino[x] ELSE mem[x].ino

-----------------------------------------------------------------------------
(* A step of process p that visits the cache. *)

StepOf(p, pl, k, c, d, i, f, t, s, new, lk, g, how) ==
  Mine(p, pl, k, c, d, i, f, t, "clear") /\ OthersSame(p) /\ LocalTypes' /\ Visits(s, new, lk, g, how, t)

PhaseAt(pl, k, c, d, i, f) ==
  /\ IpSet(k.kind, pl) <=> i # 0
  /\ pl \in UsesDp <=> d # 0
  /\ c # 0 => pl \in Walks
  /\ pl = "w_upd" => f # 0
  /\ KindFits(k.kind, pl)
  /\ k.kind \in {"open", "creat"} => f = 0
  /\ pl \notin {"idle", "w_upd"} => k.path \in Paths /\ k.new \in Paths

\* The pointers that p gains and loses are those that the cache counts.
BalancedAt(p, c, d, i, f, s, new, g, how, x) ==
  One(x = s /\ new) + Hit(g, x) + Hit(fd[p], x) + Hit(cur[p], x) + Hit(dp[p], x) + Hit(ip[p], x)
  = Hit(f, x) + Hit(c, x) + Hit(d, x) + Hit(i, x) + One(x = s /\ how \in {"drop", "put"})
Balanced(p, c, d, i, f, s, new, g, how) ==
  \A x \in Inums : BalancedAt(p, c, d, i, f, s, new, g, how, x)

MoveOf(p, pl, k, c, d, i, f, t, s, new, lk, g, how) ==
  StepOf(p, pl, k, c, d, i, f, t, s, new, lk, g, how) /\ UNCHANGED diskVars

-----------------------------------------------------------------------------
(* What a directory names. *)

Finds(m, i, n, g) == Ino(m, i).type = "dir" /\ Where(m, i, n) # {} /\ g = Entry(m, i, n)

-----------------------------------------------------------------------------
(* One turn of namex, at inode s, which is new when s is the root. *)

WalkMove(p, s, new) ==
  \/ /\ ~(call[p].kind = "link" /\ pc[p] = "walkp")
     /\ \E t : MoveOf(p, "idle", NoCall, 0, 0, 0, fd[p], t, s, new, TRUE, 0, "drop")
  \/ /\ call[p].kind = "link" /\ pc[p] = "walkp"
     /\ \E t : MoveOf(p, "l_bad", call[p], 0, 0, ip[p], fd[p], t, s, new, TRUE, 0, "drop")
  \/ /\ pc[p] = "walkp" /\ Ino(Looked(s, new, TRUE), s).type = "dir"
     /\ MoveOf(p, Start(p), call[p], 0, s, ip[p], fd[p], 0, s, new, TRUE, 0, "unlock")
  \/ \E g, t, n :
     /\ g \in Inums
     /\ Finds(Looked(s, new, TRUE), s, n, g)
     /\ \/ pc[p] = "walk" /\ MoveOf(p, Start(p), call[p], 0, 0, g, fd[p], t, s, new, TRUE, g, "drop")
        \/ MoveOf(p, pc[p], call[p], g, 0, ip[p], fd[p], t, s, new, TRUE, g, "drop")

WalkFrom(p, s, new) ==
  /\ Base /\ pc[p] \in Walks /\ pc[p] \in Places /\ putting[p] = 0
  /\ s = (IF cur[p] = 0 THEN root ELSE cur[p]) /\ new = (cur[p] = 0)
  /\ s \in Inums /\ s \in Pointer /\ new \in BOOLEAN /\ 0 \in Pointer
  /\ (new => cur[p] = 0) /\ (~new => cur[p] = s)
  /\ dp[p] = 0 /\ stage[p] = "clear" /\ fd[p] \in Pointer /\ ip[p] \in Pointer
  /\ call[p] \in Calls /\ call[p].path \in Paths /\ call[p].new \in Paths
  /\ pc[p] = "walk" => call[p].kind \in {"open", "link"} /\ ip[p] = 0
  /\ pc[p] = "walkp" => /\ call[p].kind \in {"creat", "mkdir", "unlink", "link"}
                        /\ call[p].kind = "link" <=> ip[p] # 0
  /\ call[p].kind \in {"open", "creat"} => fd[p] = 0

-----------------------------------------------------------------------------
(* A step that writes the copy of inode e, which p has locked or locks (lk), *)
(* so that it is n, and leaves inode s as it is, unlocked or given up.     *)

CopySet(m, i, n) == [m EXCEPT ![i].ino = n]

EditAt(e, lk, n, s, how, t, x) ==
  /\ mem'[x].ref = IF x = s /\ how = "drop" /\ t = 0 THEN mem[x].ref - 1 ELSE mem[x].ref
  /\ mem'[x].valid = ((x = e /\ lk) \/ mem[x].valid)
  /\ mem'[x].ino = IF x = e THEN n ELSE mem[x].ino
  /\ x # s => mem'[x].busy = ((x = e /\ lk) \/ mem[x].busy)
  /\ x = s /\ how = "hold" => mem'[x].busy = ((x = e /\ lk) \/ mem[x].busy)
  /\ x = s /\ how = "unlock" => ~mem'[x].busy
  /\ x = s /\ how = "drop" => mem'[x].busy = (t = s)

Edits(e, lk, n, s, how, t) ==
  /\ CacheTypes' /\ t \in {0, s} /\ (how \in {"hold", "unlock"} => t = 0)
  /\ t # 0 => mem'[s].ref = 1 /\ mem'[s].valid /\ mem'[s].ino.nlink = 0
  /\ \A x \in Inums : EditAt(e, lk, n, s, how, t, x)

EditOf(p, pl, k, c, d, i, f, t, e, lk, n, s, how) ==
  Mine(p, pl, k, c, d, i, f, t, "clear") /\ OthersSame(p) /\ LocalTypes' /\ Edits(e, lk, n, s, how, t)

\* The cache with the copy written.
WrittenAt(m, e, lk, n, x) ==
  /\ m[x].ref = mem[x].ref
  /\ m[x].valid = ((x = e /\ lk) \/ mem[x].valid)
  /\ m[x].busy = ((x = e /\ lk) \/ mem[x].busy)
  /\ m[x].ino = IF x = e THEN n ELSE mem[x].ino

-----------------------------------------------------------------------------
(* The first write to a file. *)

DinoSet(i, n) == \A x \in Inums : dino'[x] = IF x = i THEN n ELSE dino[x]

-----------------------------------------------------------------------------
(* create: the new inode. *)

MakingAt(p) ==
  /\ cur[p] = 0 /\ dp[p] \in Inums /\ dp[p] \in Pointer /\ stage[p] = "clear"
  /\ fd[p] \in Pointer /\ ip[p] \in Pointer /\ 0 \in Pointer
  /\ call[p] \in Calls /\ call[p].path \in Paths /\ call[p].new \in Paths
  /\ call[p].kind \in {"creat", "mkdir"} /\ (call[p].kind \in {"open", "creat"} => fd[p] = 0)
  /\ pc[p] \in UsesIp => ip[p] \in Inums
  /\ pc[p] = "c_alloc" => ip[p] = 0
  /\ pc[p] \in {"c_parent", "c_balloc", "c_dot", "c_dotdot"} => call[p].kind = "mkdir"

-----------------------------------------------------------------------------
(* mkdir: the link of the parent, then . and .. of the new directory. *)

DotsBlock(p) ==
  /\ pc[p] = "c_balloc" /\ UNCHANGED <<dino, content>>
  /\ \E n \in Inode, b \in Unused :
       /\ b \in Blocks /\ bitmap' = bitmap \cup {b} /\ n = [mem[ip[p]].ino EXCEPT !.blk = b]
       /\ EditOf(p, "c_dot", call[p], 0, dp[p], ip[p], fd[p], 0, ip[p], FALSE, n, ip[p], "hold")
DotsInode(p) ==
  /\ pc[p] = "c_dot" /\ DinoSet(ip[p], mem[ip[p]].ino) /\ UNCHANGED <<bitmap, content>>
  /\ StepOf(p, "c_dotdot", call[p], 0, dp[p], ip[p], fd[p], 0, ip[p], FALSE, FALSE, 0, "hold")
UpSet(C, b, d) == [C EXCEPT ![b].up = d]
DotsParent(p) ==
  /\ pc[p] = "c_dotdot" /\ UNCHANGED <<bitmap, dino>>
  /\ content' = UpSet(content, mem[ip[p]].ino.blk, dp[p])
  /\ StepOf(p, "c_link", call[p], 0, dp[p], ip[p], fd[p], 0, ip[p], FALSE, FALSE, 0, "hold")

-----------------------------------------------------------------------------
(* dirlink: an entry is written, and the directory may grow. *)

LinkMakes(p) == IF pc[p] = "c_link" THEN "c_size" ELSE "l_size"
LinkEnds(p)  == IF pc[p] = "c_link" THEN "c_end" ELSE "l_end"

DirlinkStep(p) ==
  /\ pc[p] \in {"c_link", "l_link"} /\ UNCHANGED <<dino, bitmap>> /\ NameOf(p) \in Names
  /\ \E s \in 1..Slots : Writes(content, content', mem[dp[p]].ino.blk, s, <<NameOf(p), ip[p]>>)
  /\ \/ StepOf(p, LinkMakes(p), call[p], 0, dp[p], ip[p], fd[p], 0, dp[p], FALSE, FALSE, 0, "hold")
     \/ \E t : StepOf(p, LinkEnds(p), call[p], 0, 0, ip[p], fd[p], t, dp[p], FALSE, FALSE, 0, "drop")

\* A call that links ip in dp.
LinkingAt(p) ==
  /\ cur[p] = 0 /\ dp[p] \in Inums /\ ip[p] \in Inums /\ dp[p] \in Pointer /\ ip[p] \in Pointer
  /\ stage[p] = "clear" /\ fd[p] \in Pointer /\ 0 \in Pointer
  /\ call[p] \in Calls /\ call[p].path \in Paths /\ call[p].new \in Paths

ExtendEdit(p) ==
  /\ pc[p] \in {"c_size", "l_size"} /\ UNCHANGED <<bitmap, content>>
  /\ \E n, t, pl :
       /\ n \in Inode
       /\ n = [mem[dp[p]].ino EXCEPT !.size = mem[dp[p]].ino.size + 1] /\ DinoSet(dp[p], n)
       /\ pl = (IF pc[p] = "c_size" THEN "c_end" ELSE "l_end")
       /\ EditOf(p, pl, call[p], 0, 0, ip[p], fd[p], t, dp[p], FALSE, n, dp[p], "drop")

-----------------------------------------------------------------------------
(* link and unlink: the counts, and the entry that goes. *)

GoneStep(p) ==
  /\ pc[p] = "u_ip" /\ UNCHANGED <<dino, bitmap>> /\ ~mem[ip[p]].busy
  /\ Writes(content, content', Locked(mem, ip[p])[dp[p]].ino.blk,
            First(Where(Locked(mem, ip[p]), dp[p], NameOf(p))), NoEnt)
  /\ \E n \in Inode :
       /\ n = Locked(mem, ip[p])[ip[p]].ino
       /\ n.type = "dir" => Empty(Locked(mem, ip[p]), ip[p])
       /\ \/ /\ n.type = "dir"
             /\ EditOf(p, "u_dp", call[p], 0, dp[p], ip[p], fd[p], 0, ip[p], TRUE, n, ip[p], "hold")
          \/ /\ n.type # "dir"
             /\ \E t : EditOf(p, "u_nlink", call[p], 0, 0, ip[p], fd[p], t, ip[p], TRUE, n, dp[p], "drop")

-----------------------------------------------------------------------------
(* The rest of iput: the calls stay where they are. *)

StaysAt(p, t, st) ==
  Mine(p, pc[p], call[p], cur[p], dp[p], ip[p], fd[p], t, st) /\ OthersSame(p) /\ LocalTypes'

PutClears(p, i) ==
  /\ stage[p] = "clear" /\ StaysAt(p, i, "free") /\ UNCHANGED <<dino, bitmap, mem>>
  /\ \A b \in Blocks : content'[b] = IF b = mem[i].ino.blk THEN EmptyDir ELSE content[b]
PutFrees(p, i) ==
  /\ stage[p] = "free" /\ StaysAt(p, i, "trunc") /\ UNCHANGED <<dino, content>>
  /\ bitmap' = bitmap \ {mem[i].ino.blk}
  /\ \E n \in Inode : n = [mem[i].ino EXCEPT !.blk = 0, !.size = 0] /\ Edits(i, FALSE, n, i, "hold", 0)
PutWrites(p, i) ==
  /\ stage[p] = "trunc" /\ StaysAt(p, i, "type") /\ UNCHANGED <<bitmap, content, mem>>
  /\ DinoSet(i, mem[i].ino)
PutTypes(p, i) ==
  /\ stage[p] = "type" /\ StaysAt(p, i, "end") /\ UNCHANGED <<bitmap, content>>
  /\ \E n \in Inode : /\ n = [mem[i].ino EXCEPT !.type = "free"]
                      /\ DinoSet(i, n) /\ Edits(i, FALSE, n, i, "hold", 0)
EndAt(i, x) ==
  /\ mem'[x].ref = IF x = i THEN mem[x].ref - 1 ELSE mem[x].ref
  /\ mem'[x].busy = (x # i /\ mem[x].busy) /\ mem'[x].valid = (x # i /\ mem[x].valid)
  /\ mem'[x].ino = mem[x].ino
PutEnds(p, i) ==
  /\ stage[p] = "end" /\ StaysAt(p, 0, "clear") /\ UNCHANGED diskVars
  /\ \A x \in Inums : EndAt(i, x)

-----------------------------------------------------------------------------
(* A call begins, the machine stops, and every step keeps the references   *)
(* counted.                                                                *)

BeginsAt(p, pl, k) ==
  /\ pc[p] = "idle" /\ putting[p] = 0 /\ cur[p] = 0 /\ dp[p] = 0 /\ ip[p] = 0
  /\ Mine(p, pl, k, 0, 0, 0, fd[p], 0, "clear") /\ OthersSame(p)
  /\ pl \in Walks /\ UNCHANGED <<diskVars, mem>>
  /\ k.kind = "link" => pl = "walk"

\* Nothing but the disk: at the start and after a crash.
Blank ==
  /\ mem = EmptyCache /\ pc = All("idle") /\ call = All(NoCall)
  /\ cur = All(0) /\ dp = All(0) /\ ip = All(0)
  /\ fd = All(0) /\ putting = All(0) /\ stage = All("clear")

-----------------------------------------------------------------------------
(* What the counted references say. *)

\* Process p has a pointer to inode x: it is counted, and if it is the only
\* one nobody else has one.
RefAt(p, x) ==
  /\ Points(p, x) \/ putting[p] = x => mem[x].ref > 0
  /\ mem[x].ref = 1 /\ (Points(p, x) \/ putting[p] = x) =>
       \A q \in Procs \ {p} : ~Points(q, x) /\ putting[q] # x
  /\ mem[x].ref = 1 /\ putting[p] = x => ~Points(p, x)
  /\ mem[x].ref \in Nat
Refs == \A p \in Procs, x \in Inums : RefAt(p, x)

-----------------------------------------------------------------------------
(* What a step of process p leaves as it is for the others. *)

\* ialloc takes the number x.
Alloc(p, x) ==
  dino[x].type = "free" /\ Maker(p, x)' /\ dino'[x].nlink = 0 /\ dino'[x].blk = 0

\* Seen with the copy, x is still of its type and has still its block.
EffKept(x) ==
  /\ Eff(dino, mem, x)'.type = Eff(dino, mem, x).type
  /\ Eff(dino, mem, x).blk # 0 => Eff(dino, mem, x)'.blk = Eff(dino, mem, x).blk

\* p changes what it has locked, or locks first; it gets pointers to linked
\* inodes only, but for the one of ialloc.
FrameAt(p, x) ==
  /\ mem[x].busy => \/ Has(p, x)
                    \/ mem'[x].ino = mem[x].ino /\ (dino'[x] = dino[x] \/ Alloc(p, x))
  /\ Points(p, x)' => Points(p, x) \/ (dino[x].nlink > 0 /\ x \notin InMaking) \/ Alloc(p, x)
  /\ putting'[p] = x => putting[p] = x \/ mem'[x].ref = 1
  /\ dino'[x] = dino[x] \/ Points(p, x) \/ (putting[p] = x /\ stage[p] # "end") \/ Alloc(p, x)
  /\ (\E q \in Procs \ {p} : Points(q, x) /\ ~Maker(q, x)) => EffKept(x)
  /\ Maker(p, x) /\ mem[x].busy => Has(p, x) \/ Maker(p, x)'

\* It writes blocks of an inode that it has locked.
ContentFrame(p) ==
  \/ content' = content
  \/ \E y \in Inums : Has(p, y) /\ \A b \in Blocks : b # mem[y].ino.blk => content'[b] = content[b]

Frame(p) == (\A x \in Inums : FrameAt(p, x)) /\ ContentFrame(p)

\* Process q is where it was, and what it points to is what it was.
SameCall(q) == /\ pc'[q] = pc[q] /\ call'[q] = call[q] /\ cur'[q] = cur[q]
               /\ dp'[q] = dp[q] /\ ip'[q] = ip[q]
SameInode(q, x) ==
  /\ Points(q, x) /\ ~Maker(q, x) => EffKept(x)
  /\ Points(q, x) /\ Has(q, x) =>
       /\ mem'[x].ino = mem[x].ino
       /\ mem[x].ino.blk # 0 => content'[mem[x].ino.blk] = content[mem[x].ino.blk]

-----------------------------------------------------------------------------
(* The invariant after a step of process p, from what happens to each inode. *)

\* Its lock is left alone, taken or given back.
LockMove(p, x) ==
  \/ /\ mem'[x].busy = mem[x].busy /\ (Has(p, x)' <=> Has(p, x))
     /\ mem[x].busy /\ mem[x].valid => mem'[x].valid
  \/ ~mem[x].busy /\ mem'[x].busy /\ mem'[x].valid /\ Has(p, x)'
  \/ Has(p, x) /\ ~mem'[x].busy /\ ~Has(p, x)'

\* Its copy is the disk's, or stays what it was.
AgreeMove(p, x) ==
  mem'[x].ref > 0 /\ mem'[x].valid =>
    \/ mem'[x].ino = dino'[x] \/ Drifts(p, x)' \/ \E q \in Procs \ {p} : Drifts(q, x)'
    \/ /\ mem[x].ref > 0 /\ mem[x].valid /\ ~Drifts(p, x)
       /\ mem'[x].ino = mem[x].ino /\ dino'[x] = dino[x]

\* It becomes free at the end of iput.
UsedMove(p, x) ==
  mem'[x].ref > 0 /\ dino'[x].type = "free" =>
    \/ putting'[p] = x /\ stage'[p] = "end"
    \/ mem[x].ref > 0 /\ dino[x].type = "free" /\ ~(putting[p] = x /\ stage[p] = "end")

Move(p, x) == LockMove(p, x) /\ AgreeMove(p, x) /\ UsedMove(p, x)

AgreeOwn(p) ==
  /\ pc[p] = "w_upd" => NewBlock(fd[p]) /\ dino[fd[p]].type = "file"
  /\ pc[p] = "c_dot" => NewBlock(ip[p])

\* iput has found the last reference to an inode without links.
PutStart(p, x) == stage[p] = "clear" /\ mem[x].ref = 1 /\ mem[x].valid /\ mem[x].ino.nlink = 0
PutStarted(p) == putting[p] # 0 /\ PutStart(p, putting[p]) => PutOf(p, putting[p])
PutsStarted == \A p \in Procs : PutStarted(p)

OwnPut(p)  == putting[p] # 0 => PutOf(p, putting[p]) \/ PutStart(p, putting[p])
OwnMade(p) == pc[p] \in Making => MadeBy(p, ip[p])
Own(p) == Apart(p) /\ AgreeOwn(p) /\ OwnPut(p) /\ OwnMade(p) /\ Knows(p)

-----------------------------------------------------------------------------
(* The tree that is now, as a picture. *)

Pic == Picture(Counts(dino), Owned(dino, mem), DirsOf(dino, mem), content, bitmap, Pend, InMaking)

Pending(p, x) == (PendIp(p) /\ ip[p] = x) \/ (PendDp(p) /\ dp[p] = x)
Makes(p, x)   == pc[p] \in Making /\ ip[p] = x

EffSame(x) == Eff(dino, mem, x)' = Eff(dino, mem, x)

-----------------------------------------------------------------------------
(* The steps that change nothing on the disk and in a copy. *)

\* What they need: the inode s is one of p, or the root, and p locks it now or
\* has locked it; another inode g that p gets is linked.
QuietPtr(p, s, new, g) ==
  /\ putting[p] = 0 /\ stage[p] = "clear" /\ s \in Inums
  /\ new => s = root
  /\ ~new => Points(p, s)
  /\ g # 0 => g \in Inums /\ dino[g].nlink > 0 /\ g \notin InMaking
QuietLock(p, s, t, new, lk, how) ==
  /\ new => lk
  /\ lk => ~mem[s].busy /\ how # "put"
  /\ ~lk /\ how # "put" => Has(p, s) /\ how \in {"unlock", "drop"}
  /\ how = "put" => ~Has(p, s)
  /\ \A x \in Inums : Has(p, x)' <=> IF x = s THEN how = "hold" \/ t = s ELSE Has(p, x)
QuietPlace(p, pl, s, new, g) ==
  /\ pc[p] \notin Making \cup {"w_upd"} /\ pl \notin Making \cup {"w_upd"}
  /\ \A x \in Inums : Points(p, x)' => Points(p, x) \/ x = g \/ (new /\ x = s)
  /\ \A x \in Inums : Pending(p, x)' => Pending(p, x)
Quiet(p, pl, t, s, new, lk, g, how) ==
  QuietPtr(p, s, new, g) /\ QuietLock(p, s, t, new, lk, how) /\ QuietPlace(p, pl, s, new, g)

\* The copy of each inode: read now, or as it was.
CopyMove(x) ==
  /\ mem'[x].ref > 0 /\ mem'[x].valid =>
       \/ mem'[x].ino = dino[x] /\ (mem[x].ref > 0 => ~mem[x].valid)
       \/ mem[x].ref > 0 /\ mem[x].valid /\ mem'[x].ino = mem[x].ino
  /\ mem[x].ref > 0 /\ mem[x].valid => mem'[x].ref <= 0 \/ mem'[x].valid
  /\ mem'[x].ref > 0 => mem[x].ref > 0 \/ dino[x].nlink > 0
  /\ mem[x].busy => mem'[x].ino = mem[x].ino

-----------------------------------------------------------------------------
(* One turn of namex. *)

\* The directory that it looks at, and what is seen of it.
WalkAt(p, s, new) ==
  /\ WalkFrom(p, s, new) /\ Base' /\ ~mem[s].busy
  /\ \A x \in Inums : ~Has(p, x)
  /\ mem[s].ref > 0 \/ dino[s].nlink > 0
  /\ CacheOK(Looked(s, new, TRUE)) /\ Looked(s, new, TRUE)[s].ino = Eff(dino, mem, s)
  /\ IsDir(s) => Block(s) # 0
  /\ \A g : g = 0 \/ (g \in Inums /\ dino[g].nlink > 0 /\ g \notin InMaking) => QuietPtr(p, s, new, g)

\* Where it goes on, with the lock given back: with cur, dp and ip, and a new
\* pointer to g (or 0).
WalkGoal(p, pl, c, d, i, s, g) ==
  /\ g = 0 \/ (g \in Inums /\ dino[g].nlink > 0 /\ g \notin InMaking)
  /\ pl \in {"walk", "walkp", "o_lock", "l_old", "l_new", "l_bad", "u_lock", "c_lock"}
  /\ \/ pl \in {"l_new", "l_bad"} /\ call[p].kind = "link" /\ pc[p] = "walkp"
     \/ pl = pc[p]
     \/ pl \notin {"walk", "walkp", "l_new", "l_bad"}
  /\ c \in {0, g} /\ d \in {0, s} /\ (i = ip[p] \/ (i = g /\ g # 0 /\ pl \in {"o_lock", "l_old"}))
  /\ d # 0 => IsDir(s)
  /\ g # 0 /\ IsDir(g) => Block(g) # 0

-----------------------------------------------------------------------------
(* The steps that write a copy: what they keep. *)

EditPtr(p, e, lk, s, how) ==
  /\ putting[p] = 0 /\ Points(p, e) /\ (lk => ~mem[e].busy) /\ (~lk => Has(p, e))
  /\ how # "hold" => s = e \/ Has(p, s)
  /\ pc[p] = "c_lockip" => lk /\ ip[p] = e
  /\ \A x \in Inums : Drifts(p, x) => x = e
EditLock(p, e, lk, s, how, t) ==
  \A x \in Inums : Has(p, x)' <=> IF x = s /\ how # "hold" THEN t = s ELSE Has(p, x) \/ (lk /\ x = e)
EditDisk(p, e, n) ==
  DinoSet(e, n) \/ (dino' = dino /\ (Drifts(p, e)' \/ (n = Eff(dino, mem, e) /\ ~Drifts(p, e))))
EditSeen(e, n) ==
  /\ n.type = Eff(dino, mem, e).type
  /\ Eff(dino, mem, e).blk # 0 => n.blk = Eff(dino, mem, e).blk

Edit(p, e, lk, n, s, how, t) ==
  /\ OthersSame(p) /\ Edits(e, lk, n, s, how, t) /\ EditPtr(p, e, lk, s, how) /\ EditDisk(p, e, n)
  /\ putting'[p] = t /\ stage'[p] = "clear" /\ (how = "drop" => DinoSet(e, n) \/ s # e)

-----------------------------------------------------------------------------
(* The steps that write a copy: the tree. *)

Fewers(p, e) == \A x \in Inums \ {e} : Pending(p, x)' => Pending(p, x)

\* The count of e changes with what is owed to it.
CountMove(p, e, n) ==
  \/ n.nlink = dino[e].nlink /\ (Pending(p, e)' => Pending(p, e))
  \/ n.nlink = dino[e].nlink + 1
  \/ n.nlink = dino[e].nlink - 1 /\ Pending(p, e) /\ ~Pending(p, e)'

\* A step that writes an inode to the disk which keeps its type and block.
Keeps(p, e, lk, n, s, how, t) ==
  /\ DinoSet(e, n) /\ UNCHANGED <<bitmap, content>>
  /\ n.type = Eff(dino, mem, e).type /\ n.blk = Eff(dino, mem, e).blk
  /\ CountMove(p, e, n) /\ Fewers(p, e) /\ \A x \in Inums : Makes(p, x)' => Makes(p, x)
  /\ EditPtr(p, e, lk, s, how) /\ EditLock(p, e, lk, s, how, t)
  /\ \A x \in Inums : Points(p, x)' => Points(p, x)

-----------------------------------------------------------------------------
(* The steps that take a block. *)

BlockFor(p, e, lk, n, b) ==
  /\ Edit(p, e, lk, n, e, "hold", 0) /\ UNCHANGED <<dino, content>>
  /\ b \in Blocks \ bitmap /\ bitmap' = bitmap \cup {b}
  /\ Eff(dino, mem, e).blk = 0 /\ n.blk = b /\ n.type = Eff(dino, mem, e).type
  /\ \A x \in Inums : (Pending(p, x)' => Pending(p, x)) /\ (Makes(p, x)' => Makes(p, x))

EffSet(e, n) == \A x \in Inums : Eff(dino, mem, x)' = IF x = e THEN n ELSE Eff(dino, mem, x)

-----------------------------------------------------------------------------
(* The steps that write a directory. *)

PicWritten == Picture(Counts(dino), Owned(dino, mem), DirsOf(dino, mem), content', bitmap, Pend',
                      InMaking')
SoundWritten == Sound(Counts(dino), Owned(dino, mem), DirsOf(dino, mem), content', bitmap, Pend',
                      InMaking')

\* An edit that leaves the copy as it was.
EntryEdit(p, e, lk, n, s, how, t) ==
  /\ Edits(e, lk, n, s, how, t) /\ EditPtr(p, e, lk, s, how) /\ ~Drifts(p, e)
  /\ EditLock(p, e, lk, s, how, t) /\ n = Eff(dino, mem, e) /\ UNCHANGED <<dino, bitmap>>
  /\ ContentFrame(p) /\ \A x \in Inums : Points(p, x)' => Points(p, x)

EffStays == \A x \in Inums : EffSame(x) /\ IsDir(x)' = IsDir(x) /\ Block(x)' = Block(x)
                            /\ (mem'[x].ref > 0 => mem[x].ref > 0)

\* What is the case when an entry for i is made in d.
EntryDue(p, d, i) ==
  /\ IsDir(d) /\ Block(d) # 0 /\ Has(p, d) /\ i # d /\ i # root /\ Pending(p, i)
  /\ IsDir(i) => /\ Pending(p, d) /\ Block(i) # 0 /\ content[Block(i)].up = d /\ i \in InMaking
  /\ mem[i].ref > 0 /\ mem[d].ref > 0 /\ mem[d].ino = Eff(dino, mem, d)
  /\ d \notin InMaking /\ \A q \in Procs : Makes(q, i) => q = p

DirlinkTo(p, i, d, pl, w, t, how) ==
  \/ how = "hold" /\ w = d /\ t = 0 /\ pl = LinkMakes(p)
  \/ how = "drop" /\ w = 0 /\ pl = LinkEnds(p)

\* The two ways on, when the entry has gone: ip is a directory, or not.
GoneTo(p, i, d, pl, w, t, lk, s, how) ==
  \/ lk /\ how = "hold" /\ s = i /\ w = d /\ t = 0 /\ pl = "u_dp" /\ IsDir(i)
  \/ lk /\ how = "drop" /\ s = d /\ w = 0 /\ pl = "u_nlink"

EntryOf(p, pl, k, c, d, i, f, t, e, lk, n, s, how) ==
  EditOf(p, pl, k, c, d, i, f, t, e, lk, n, s, how) /\ EntryEdit(p, e, lk, n, s, how, t)

-----------------------------------------------------------------------------
(* The rest of iput. *)

Unpointed(x) == (\A q \in Procs : ~Points(q, x) /\ putting[q] # x) => mem[x].ref = 0

\* A step of iput before its end changes i and what i owns.
PutRest(p, i, st) ==
  /\ StaysAt(p, i, st) /\ stage[p] # "end"
  /\ \A x \in Inums : /\ mem'[x].ref = mem[x].ref /\ mem'[x].busy = mem[x].busy
                      /\ mem'[x].valid = mem[x].valid
                      /\ x # i => mem'[x].ino = mem[x].ino /\ dino'[x] = dino[x]
  /\ \A b \in Blocks : b # mem[i].ino.blk => content'[b] = content[b]

PutSafe(i) ==
  /\ mem'[i].ino.type \in {mem[i].ino.type, "free"} /\ mem'[i].ino.blk \in {0, mem[i].ino.blk}
  /\ dino'[i].nlink = 0
  /\ mem[i].ino.blk # 0 => content'[mem[i].ino.blk] \in {content[mem[i].ino.blk], EmptyDir}
  /\ \/ bitmap' = bitmap
     \/ /\ bitmap' = bitmap \ {mem[i].ino.blk} /\ mem'[i].ino.blk = 0
        /\ mem[i].ino.blk # 0 => content'[mem[i].ino.blk] = EmptyDir

OtherSame(i) ==
  \A x \in Inums \ {i} : /\ EffSame(x) /\ dino'[x] = dino[x]
                         /\ mem'[x].ref > 0 <=> mem[x].ref > 0
PendSame(i) ==
  \A q \in Procs, x \in Inums : /\ Pending(q, x)' => Pending(q, x)
                                /\ Makes(q, x)' => Makes(q, x) \/ x = i
Bare(i) == dino[i].nlink = 0 /\ Owned(dino, mem)[i] = 0

-----------------------------------------------------------------------------
(* The disk that mkfs has made. *)

ImgDirs(img) == {i \in {i \in Inums : img.dino[i].nlink > 0} :
                   img.dino[i].type = "dir" /\ img.dino[i].blk # 0}
ImgEntries(img) == {x \in ImgDirs(img) \X (1..Slots) :
                      img.content[img.dino[x[1]].blk].ent[x[2]] # NoEnt}
ImgChild(img, x) == img.content[img.dino[x[1]].blk].ent[x[2]][2]
ImgNames(img, i) == {x \in ImgEntries(img) : ImgChild(img, x) = i}
ImgSubs(img, i)  == {c \in Inums : img.dino[c].type = "dir"
                                  /\ \E x \in ImgEntries(img) : x[1] = i /\ ImgChild(img, x) = c}

-----------------------------------------------------------------------------
(* The copies, and what the disk shows. *)

\* The entries of the tree of the disk and of the tree with the copies.
NamedNow(d, s) == Named(Owned(dino, mem), DirsOf(dino, mem), content, d, s)

\* What has links, is complete and is named holds everything that can be reached.
Complete == {i \in Inums : /\ dino[i].nlink > 0 /\ i \notin InMaking
                           /\ dino[i].type = "dir" => dino[i].blk # 0
                           /\ i = root \/ \E d \in Inums, s \in 1..Slots : NamedNow(d, s) = i}

=============================================================================
