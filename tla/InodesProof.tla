----------------------------- MODULE InodesProof -----------------------------
(***************************************************************************)
(* For any number of processes, inodes, blocks, names and paths, and       *)
(* wherever the machine stops: the cache counts the pointers to an inode,  *)
(* a copy that nobody has locked is the inode on the disk, what the disk   *)
(* shows from its root is sound, and calls never wait in a circle.         *)
(*                                                                         *)
(* The argument has two layers.  That Base is kept needs nothing of the    *)
(* rest, and gives ReferencesCounted.  For the tree, what a write of one   *)
(* block does to a picture is shown for pictures alone (Fewer, Recounted,  *)
(* EntryGone, EntryMade); each action is then one of these, or leaves the  *)
(* picture as it is.                                                       *)
(***************************************************************************)
EXTENDS InodesInv, FiniteSetTheorems, WellFoundedInduction, TLAPS

-----------------------------------------------------------------------------
(* What a picture of the tree says, and what becomes of it. *)

LEMMA Sizes ==
  /\ root \in Inums /\ root # 0 /\ Inums \subseteq Nat \ {0} /\ Blocks \subseteq Nat \ {0}
  /\ IsFiniteSet(Inums) /\ IsFiniteSet(Procs) /\ Slots \in Nat /\ 0 \notin Inums /\ 0 \notin Blocks
BY InodesAssumption DEF root

LEMMA NamedType ==
  ASSUME NEW O \in [Inums -> {0} \cup Blocks], NEW D \in SUBSET Inums, NEW C \in [Blocks -> DirBlock],
         NEW d \in Inums, NEW s \in 1..Slots
  PROVE  Named(O, D, C, d, s) \in Pointer
<1>1. CASE d \in D /\ O[d] # 0 /\ C[O[d]].ent[s] # NoEnt
  <2>1. O[d] \in Blocks
    BY <1>1
  <2>2. C[O[d]].ent[s] \in {NoEnt} \cup (Names \X Inums)
    <3>1. PICK x \in DirBlock : x = C[O[d]]
      BY <2>1
    <3>2. x.ent[s] \in {NoEnt} \cup (Names \X Inums)
      BY DEF DirBlock
    <3>3. QED BY <3>1, <3>2
  <2>3. C[O[d]].ent[s] \in Names \X Inums
    BY <1>1, <2>2
  <2>4. C[O[d]].ent[s][2] \in Inums
    BY <2>3
  <2>5. QED BY <1>1, <2>4 DEF Named, Pointer
<1>2. QED BY <1>1 DEF Named, Pointer

LEMMA SetSizes ==
  ASSUME NEW S, IsFiniteSet(S), NEW T
  PROVE  /\ Cardinality(S) \in Nat
         /\ T \subseteq S => /\ IsFiniteSet(T) /\ Cardinality(T) \in Nat
                             /\ Cardinality(T) <= Cardinality(S)
         /\ \A x : T \subseteq S \cup {x} => IsFiniteSet(T) /\ Cardinality(T) <= Cardinality(S) + 1
         /\ \A x \in S : T \subseteq S \ {x} => Cardinality(T) <= Cardinality(S) - 1
<1>1. Cardinality(S) \in Nat
  BY FS_CardinalityType
<1>2. ASSUME NEW U, IsFiniteSet(U), T \subseteq U
      PROVE  IsFiniteSet(T) /\ Cardinality(T) \in Nat /\ Cardinality(T) <= Cardinality(U)
  BY <1>2, FS_Subset, FS_CardinalityType
<1>3. ASSUME NEW x, T \subseteq S \cup {x}
      PROVE  IsFiniteSet(T) /\ Cardinality(T) <= Cardinality(S) + 1
  <2>1. PICK U : U = S \cup {x}
    OBVIOUS
  <2>2. IsFiniteSet(U) /\ Cardinality(U) \in Nat /\ Cardinality(U) <= Cardinality(S) + 1
    <3>1. IsFiniteSet(U) /\ (Cardinality(U) = Cardinality(S) \/ Cardinality(U) = Cardinality(S) + 1)
      BY <2>1, FS_AddElement
    <3>2. QED BY <1>1, <3>1
  <2>3. IsFiniteSet(T) /\ Cardinality(T) \in Nat /\ Cardinality(T) <= Cardinality(U)
    BY <1>2, <1>3, <2>1, <2>2
  <2>4. QED BY <1>1, <2>2, <2>3
<1>4. ASSUME NEW x \in S, T \subseteq S \ {x} PROVE Cardinality(T) <= Cardinality(S) - 1
  <2>1. PICK U : U = S \ {x}
    OBVIOUS
  <2>2. IsFiniteSet(U) /\ Cardinality(U) = Cardinality(S) - 1
    BY <2>1, FS_RemoveElement
  <2>3. QED BY <1>2, <1>4, <2>1, <2>2
<1>5. QED BY <1>1, <1>2, <1>3, <1>4

LEMMA PictureFinite ==
  ASSUME NEW N, NEW O, NEW D, NEW C, NEW B, NEW P, NEW F, Picture(N, O, D, C, B, P, F),
         NEW i \in Inums
  PROVE  /\ IsFiniteSet(NamesOf(O, D, C, i)) /\ Cardinality(NamesOf(O, D, C, i)) \in Nat
         /\ IsFiniteSet(SubDirs(O, D, C, i)) /\ Cardinality(SubDirs(O, D, C, i)) \in Nat
         /\ IsFiniteSet(P[i]) /\ Cardinality(P[i]) \in Nat
         /\ N[i] \in Int /\ Due(i) \in 0..1
<1>1. IsFiniteSet(Inums \X (1..Slots))
  <2>1. IsFiniteSet(1..Slots)
    BY Sizes, FS_Interval
  <2>2. QED BY <2>1, Sizes, FS_Product
<1>2. NamesOf(O, D, C, i) \subseteq Inums \X (1..Slots)
  BY DEF NamesOf
<1>3. SubDirs(O, D, C, i) \subseteq Inums
  BY DEF SubDirs, Picture
<1>4. P[i] \subseteq Procs /\ N[i] \in Int
  BY DEF Picture
<1>5. ASSUME NEW S, NEW T, IsFiniteSet(S), T \subseteq S PROVE IsFiniteSet(T) /\ Cardinality(T) \in Nat
  BY <1>5, SetSizes
<1>6. Due(i) \in 0..1
  BY DEF Due
<1>7. QED BY <1>1, <1>2, <1>3, <1>4, <1>5, <1>6, Sizes

LEMMA NamedCounted ==
  ASSUME NEW N, NEW O, NEW D, NEW C, NEW B, NEW P, NEW F, Picture(N, O, D, C, B, P, F),
         Counted(N, O, D, C, P)
  PROVE  /\ N[root] > 0 /\ \A i \in Inums : N[i] >= 0
         /\ \A i \in Inums : P[i] # {} => N[i] > 0
         /\ \A d \in Inums, s \in 1..Slots : Named(O, D, C, d, s) # 0 =>
              Named(O, D, C, d, s) \in Inums /\ N[Named(O, D, C, d, s)] > 0
<1>1. ASSUME NEW i \in Inums
      PROVE  /\ N[i] >= 0 /\ (i = root => N[i] > 0) /\ (P[i] # {} => N[i] > 0)
             /\ NamesOf(O, D, C, i) # {} => N[i] > 0
  <2>1. PICK a, b, c, e : /\ a = Cardinality(NamesOf(O, D, C, i))
                          /\ b = Cardinality(SubDirs(O, D, C, i))
                          /\ c = Cardinality(P[i]) /\ e = Due(i)
    OBVIOUS
  <2>2. a \in Nat /\ b \in Nat /\ c \in Nat /\ e \in 0..1 /\ N[i] \in Int
        /\ IsFiniteSet(NamesOf(O, D, C, i)) /\ IsFiniteSet(P[i])
    BY <2>1, PictureFinite
  <2>3. N[i] >= a + b + c + e
    BY <2>1 DEF Counted
  <2>4. NamesOf(O, D, C, i) # {} => a # 0
    BY <2>1, <2>2, FS_EmptySet
  <2>5. P[i] # {} => c # 0
    BY <2>1, <2>2, FS_EmptySet
  <2>6. i = root => e = 1
    BY <2>1 DEF Due
  <2>7. QED BY <2>2, <2>3, <2>4, <2>5, <2>6
<1>2. ASSUME NEW d \in Inums, NEW s \in 1..Slots, Named(O, D, C, d, s) # 0
      PROVE  Named(O, D, C, d, s) \in Inums /\ N[Named(O, D, C, d, s)] > 0
  <2>1. PICK c : c = Named(O, D, C, d, s)
    OBVIOUS
  <2>2. O \in [Inums -> {0} \cup Blocks] /\ D \in SUBSET Inums /\ C \in [Blocks -> DirBlock]
    BY DEF Picture
  <2>3. c \in Inums
    BY <1>2, <2>1, <2>2, NamedType DEF Pointer
  <2>4. <<d, s>> \in NamesOf(O, D, C, c)
    BY <2>1 DEF NamesOf
  <2>5. QED BY <1>1, <2>1, <2>3, <2>4
<1>3. QED BY <1>1, <1>2, Sizes

\* Who names less is in no new circle.
LEMMA FewerCircles ==
  ASSUME NEW O, NEW D, NEW C, NEW O2, NEW D2, NEW C2, NoCircle(O, D, C),
         \A d \in Inums, s \in 1..Slots :
           Named(O2, D2, C2, d, s) # 0 => Named(O2, D2, C2, d, s) = Named(O, D, C, d, s)
  PROVE  NoCircle(O2, D2, C2)
<1>1. ASSUME NEW S \in SUBSET Inums, S # {}
      PROVE  \E c \in S : \A s \in 1..Slots : Named(O2, D2, C2, c, s) \notin S
  <2>1. PICK c \in S : \A s \in 1..Slots : Named(O, D, C, c, s) \notin S
    BY <1>1 DEF NoCircle
  <2>2. \A s \in 1..Slots : Named(O2, D2, C2, c, s) \notin S
    BY <2>1, Sizes
  <2>3. QED BY <2>2
<1>2. QED BY <1>1 DEF NoCircle

\* The same counts, with fewer names, and the directories that were named and
\* have links still named from where they were.
LEMMA Fewer ==
  ASSUME NEW N, NEW O, NEW D, NEW C, NEW B, NEW P, NEW F, Picture(N, O, D, C, B, P, F),
         NEW O2, NEW D2, NEW C2, NEW B2, NEW P2, NEW F2, Picture(N, O2, D2, C2, B2, P2, F2),
         Sound(N, O, D, C, B, P, F), Owners(O2, D2, C2, B2),
         \A d \in Inums, s \in 1..Slots :
           Named(O2, D2, C2, d, s) # 0 => Named(O2, D2, C2, d, s) = Named(O, D, C, d, s),
         \A i \in Inums : N[i] > 0 /\ i \in D2 => i \in D,
         \A d \in Inums, s \in 1..Slots : LET c == Named(O, D, C, d, s) IN
           c # 0 /\ c \in D /\ O[c] # 0 => O2[c] # 0 /\ C2[O2[c]].up = C[O[c]].up,
         \A i \in Inums : P2[i] \subseteq P[i],
         \A i \in F2 : i \in F \/ (N[i] = 0 /\ O2[i] = 0)
  PROVE  Sound(N, O2, D2, C2, B2, P2, F2)
<1>1. Counted(N, O, D, C, P) /\ Tree(O, D, C, F)
  BY DEF Sound
<1>2. \A d \in Inums, s \in 1..Slots : Named(O, D, C, d, s) # 0 =>
        Named(O, D, C, d, s) \in Inums /\ N[Named(O, D, C, d, s)] > 0
  BY <1>1, NamedCounted
<1>3. ASSUME NEW i \in Inums
      PROVE  N[i] >= Cardinality(NamesOf(O2, D2, C2, i)) + Cardinality(SubDirs(O2, D2, C2, i))
                     + Cardinality(P2[i]) + Due(i)
  <2>1. NamesOf(O2, D2, C2, i) \subseteq NamesOf(O, D, C, i)
    BY Sizes DEF NamesOf
  <2>2. SubDirs(O2, D2, C2, i) \subseteq SubDirs(O, D, C, i)
    <3>1. SUFFICES ASSUME NEW c \in D2, NEW s \in 1..Slots, Named(O2, D2, C2, i, s) = c
                   PROVE  c \in D /\ Named(O, D, C, i, s) = c
      BY DEF SubDirs
    <3>2. c \in Inums /\ c # 0
      BY Sizes DEF Picture
    <3>3. Named(O, D, C, i, s) = c
      BY <3>1, <3>2
    <3>4. QED BY <1>2, <3>2, <3>3
  <2>3. PICK a, b, c, a2, b2, c2, e :
          /\ a = Cardinality(NamesOf(O, D, C, i)) /\ a2 = Cardinality(NamesOf(O2, D2, C2, i))
          /\ b = Cardinality(SubDirs(O, D, C, i)) /\ b2 = Cardinality(SubDirs(O2, D2, C2, i))
          /\ c = Cardinality(P[i]) /\ c2 = Cardinality(P2[i]) /\ e = Due(i)
    OBVIOUS
  <2>4. /\ a \in Nat /\ b \in Nat /\ c \in Nat /\ a2 \in Nat /\ b2 \in Nat /\ c2 \in Nat
        /\ e \in 0..1 /\ N[i] \in Int
    BY <2>3, PictureFinite
  <2>5. IsFiniteSet(NamesOf(O, D, C, i)) /\ IsFiniteSet(SubDirs(O, D, C, i)) /\ IsFiniteSet(P[i])
    BY PictureFinite
  <2>6. a2 <= a
    BY <2>1, <2>3, <2>5, SetSizes
  <2>7. b2 <= b
    BY <2>2, <2>3, <2>5, SetSizes
  <2>8. c2 <= c
    BY <2>3, <2>5, SetSizes
  <2>9. N[i] >= a + b + c + e
    BY <1>1, <2>3 DEF Counted
  <2>10. N[i] >= a2 + b2 + c2 + e
    BY <2>4, <2>6, <2>7, <2>8, <2>9
  <2>11. QED BY <2>3, <2>10
<1>4. ASSUME NEW d \in Inums, NEW s \in 1..Slots, NEW c, c = Named(O2, D2, C2, d, s), c # 0
      PROVE  Hangs(O2, D2, C2, F2, d, s, c)
  <2>1. Named(O, D, C, d, s) = c
    BY <1>4
  <2>2. Hangs(O, D, C, F, d, s, c) /\ c \in Inums /\ N[c] > 0
    BY <1>1, <1>2, <1>4, <2>1 DEF Tree
  <2>3. c # root /\ c \notin F2
    BY <2>2, Sizes DEF Hangs
  <2>4. ASSUME c \in D2
        PROVE  /\ O2[c] # 0 /\ C2[O2[c]].up = d
               /\ \A e \in Inums, t \in 1..Slots : Named(O2, D2, C2, e, t) = c => e = d /\ t = s
    <3>1. c \in D /\ O[c] # 0 /\ C[O[c]].up = d
      BY <2>2, <2>4 DEF Hangs
    <3>2. O2[c] # 0 /\ C2[O2[c]].up = C[O[c]].up
      BY <1>4, <2>1, <3>1
    <3>3. ASSUME NEW e \in Inums, NEW t \in 1..Slots, Named(O2, D2, C2, e, t) = c
          PROVE  e = d /\ t = s
      <4>1. Named(O, D, C, e, t) = c
        BY <1>4, <3>3
      <4>2. QED BY <2>2, <3>1, <4>1 DEF Hangs
    <3>4. QED BY <3>1, <3>2, <3>3
  <2>5. QED BY <2>3, <2>4 DEF Hangs
<1>5. Counted(N, O2, D2, C2, P2)
  BY <1>3 DEF Counted
<1>6. Tree(O2, D2, C2, F2)
  BY <1>4 DEF Tree
<1>7. NoCircle(O2, D2, C2)
  <2>1. NoCircle(O, D, C)
    BY DEF Sound
  <2>2. QED BY <2>1, FewerCircles
<1>8. ASSUME NEW i \in F2 PROVE NamesNone(O2, D2, C2, i)
  <2>1. i \in Inums
    BY DEF Picture
  <2>2. CASE i \in F
    <3>1. NamesNone(O, D, C, i)
      BY <2>2, Zenon DEF Sound
    <3>2. QED BY <2>1, <3>1 DEF NamesNone
  <2>3. CASE O2[i] = 0
    BY <2>3 DEF NamesNone, Named
  <2>4. QED BY <2>2, <2>3
<1>9. QED BY <1>5, <1>6, <1>7, <1>8 DEF Sound

\* One count changes together with what is owed to it.
LEMMA Recounted ==
  ASSUME NEW N, NEW O, NEW D, NEW C, NEW B, NEW P, NEW F, Picture(N, O, D, C, B, P, F),
         NEW N2, NEW P2, NEW F2, Picture(N2, O, D, C, B, P2, F2),
         Sound(N, O, D, C, B, P, F), F2 \subseteq F, NEW i \in Inums, NEW p,
         \A j \in Inums \ {i} : N2[j] = N[j] /\ P2[j] \subseteq P[j],
         \/ N2[i] = N[i] + 1 /\ P2[i] \subseteq P[i] \cup {p}
         \/ N2[i] = N[i] - 1 /\ p \in P[i] /\ P2[i] \subseteq P[i] \ {p}
  PROVE  Sound(N2, O, D, C, B, P2, F2)
<1>1. ASSUME NEW j \in Inums
      PROVE  N2[j] >= Cardinality(NamesOf(O, D, C, j)) + Cardinality(SubDirs(O, D, C, j))
                      + Cardinality(P2[j]) + Due(j)
  <2>1. PICK a, b, c, c2, e :
          /\ a = Cardinality(NamesOf(O, D, C, j)) /\ b = Cardinality(SubDirs(O, D, C, j))
          /\ c = Cardinality(P[j]) /\ c2 = Cardinality(P2[j]) /\ e = Due(j)
    OBVIOUS
  <2>2. /\ a \in Nat /\ b \in Nat /\ c \in Nat /\ c2 \in Nat /\ e \in 0..1
        /\ N[j] \in Int /\ N2[j] \in Int /\ IsFiniteSet(P[j])
    BY <2>1, PictureFinite
  <2>3. N[j] >= a + b + c + e
    BY <2>1 DEF Sound, Counted
  <2>4. N2[j] - N[j] >= c2 - c
    <3>1. CASE j # i
      <4>1. N2[j] = N[j] /\ c2 <= c
        BY <2>1, <2>2, <3>1, SetSizes
      <4>2. QED BY <2>2, <4>1
    <3>2. CASE j = i /\ N2[i] = N[i] + 1 /\ P2[i] \subseteq P[i] \cup {p}
      <4>1. c2 <= c + 1
        BY <2>1, <2>2, <3>2, SetSizes
      <4>2. QED BY <2>2, <3>2, <4>1
    <3>3. CASE j = i /\ N2[i] = N[i] - 1 /\ p \in P[i] /\ P2[i] \subseteq P[i] \ {p}
      <4>1. c2 <= c - 1
        BY <2>1, <2>2, <3>3, SetSizes
      <4>2. QED BY <2>2, <3>3, <4>1
    <3>4. QED BY <3>1, <3>2, <3>3
  <2>5. N2[j] >= a + b + c2 + e
    BY <2>2, <2>3, <2>4
  <2>6. QED BY <2>1, <2>5
<1>2. Tree(O, D, C, F2)
  BY DEF Sound, Tree, Hangs
<1>3. \A j \in F2 : NamesNone(O, D, C, j)
  BY DEF Sound
<1>4. QED BY <1>1, <1>2, <1>3 DEF Sound, Counted

LEMMA EntryWritten ==
  ASSUME NEW O, NEW D, NEW C, NEW B, IsPic(O, D, C), Owners(O, D, C, B), NEW d \in D, O[d] # 0,
         NEW s \in 1..Slots, NEW v \in Item, NEW C2, Writes(C, C2, O[d], s, v)
  PROVE  /\ IsPic(O, D, C2)
         /\ OneEntry(O, D, C, C2, d, s, IF v = NoEnt THEN 0 ELSE v[2])
<1>1. PICK b \in Blocks : b = O[d]
  BY DEF IsPic
<1>2. PICK x \in DirBlock : x = C[b]
  BY DEF IsPic
<1>3. x.up \in {0} \cup Inums /\ x.ent \in [1..Slots -> Item]
  BY DEF DirBlock, Item
<1>4. PICK y : y = [x EXCEPT !.ent[s] = v]
  OBVIOUS
<1>5. x = [up |-> x.up, ent |-> x.ent]
  BY DEF DirBlock
<1>6. y.up = x.up /\ y.ent = [x.ent EXCEPT ![s] = v] /\ y = [up |-> y.up, ent |-> y.ent]
  BY <1>4, <1>5
<1>7. y.ent \in [1..Slots -> Item] /\ y.ent[s] = v /\ \A t \in 1..Slots : t # s => y.ent[t] = x.ent[t]
  BY <1>3, <1>6
<1>8. y \in DirBlock
  BY <1>3, <1>6, <1>7 DEF DirBlock, Item
<1>9. C2 = [C EXCEPT ![b] = y]
  BY <1>1, <1>2, <1>4 DEF Writes
<1>10. C2 \in [Blocks -> DirBlock] /\ C2[b] = y /\ \A a \in Blocks : a # b => C2[a] = C[a]
  BY <1>8, <1>9 DEF IsPic
<1>11. \A a \in Blocks : C2[a].up = C[a].up /\ (a # O[d] => C2[a] = C[a])
  BY <1>1, <1>2, <1>6, <1>10
<1>12. d \in Inums /\ \A e \in Inums : O[e] \in {0} \cup Blocks /\ (e # d => O[e] # b)
  BY <1>1 DEF IsPic, Owners
<1>13. ASSUME NEW e \in Inums, NEW t \in 1..Slots
       PROVE  Named(O, D, C2, e, t) = IF e = d /\ t = s THEN (IF v = NoEnt THEN 0 ELSE v[2])
                                                        ELSE Named(O, D, C, e, t)
  <2>1. CASE e # d
    BY <1>10, <1>12, <2>1 DEF Named
  <2>2. CASE e = d /\ t # s
    BY <1>1, <1>2, <1>7, <1>10, <2>2 DEF Named
  <2>3. CASE e = d /\ t = s
    BY <1>1, <1>7, <1>10, <2>3 DEF Named
  <2>4. QED BY <2>1, <2>2, <2>3
<1>14. QED BY <1>10, <1>11, <1>13 DEF OneEntry, IsPic

\* Only the block of d has been written, which is in use.
LEMMA OwnersKept ==
  ASSUME NEW O, NEW D, NEW C, NEW C2, NEW B, Owners(O, D, C, B), NEW d \in Inums, O[d] # 0,
         NEW s, NEW i, OneEntry(O, D, C, C2, d, s, i)
  PROVE  Owners(O, D, C2, B)
<1>1. O[d] \in B
  BY DEF Owners
<1>2. \A b \in Blocks \ B : C2[b] = EmptyDir
  BY <1>1 DEF Owners, OneEntry
<1>3. QED BY <1>2 DEF Owners

\* The entry for i is cleared; p still has to take the links back.
LEMMA EntryGone ==
  ASSUME NEW N, NEW O, NEW D, NEW C, NEW C2, NEW B, NEW P, NEW P2, NEW F,
         Picture(N, O, D, C, B, P, F), Picture(N, O, D, C2, B, P2, F), Sound(N, O, D, C, B, P, F),
         NEW d \in D, O[d] # 0, NEW s \in 1..Slots, OneEntry(O, D, C, C2, d, s, 0),
         NEW i \in Inums, i = Named(O, D, C, d, s), i # d, NEW p,
         \A j \in Inums \ {i, d} : P2[j] \subseteq P[j],
         P2[i] \subseteq P[i] \cup {p}, P2[d] \subseteq P[d] \cup {p},
         i \notin D => P2[d] \subseteq P[d]
  PROVE  Sound(N, O, D, C2, B, P2, F)
<1>1. Owners(O, D, C, B) /\ Counted(N, O, D, C, P) /\ Tree(O, D, C, F) /\ d \in Inums /\ i # 0
      /\ D \subseteq Inums /\ O \in [Inums -> {0} \cup Blocks]
  BY Sizes DEF Sound, Picture
<1>2. Owners(O, D, C2, B)
  BY <1>1, OwnersKept
<1>3. /\ Named(O, D, C2, d, s) = 0
      /\ \A e \in Inums, t \in 1..Slots :
           e # d \/ t # s => Named(O, D, C2, e, t) = Named(O, D, C, e, t)
  BY <1>1 DEF OneEntry
<1>4. \A b \in Blocks : C2[b].up = C[b].up
  BY DEF OneEntry
<1>5. i \in D => \A e \in Inums, t \in 1..Slots : Named(O, D, C, e, t) = i => e = d /\ t = s
  BY <1>1 DEF Tree, Hangs
<1>6. ASSUME NEW j \in Inums
      PROVE  N[j] >= Cardinality(NamesOf(O, D, C2, j)) + Cardinality(SubDirs(O, D, C2, j))
                     + Cardinality(P2[j]) + Due(j)
  <2>1. PICK a, b, c, a2, b2, c2, e :
          /\ a = Cardinality(NamesOf(O, D, C, j)) /\ a2 = Cardinality(NamesOf(O, D, C2, j))
          /\ b = Cardinality(SubDirs(O, D, C, j)) /\ b2 = Cardinality(SubDirs(O, D, C2, j))
          /\ c = Cardinality(P[j]) /\ c2 = Cardinality(P2[j]) /\ e = Due(j)
    OBVIOUS
  <2>2. /\ a \in Nat /\ b \in Nat /\ c \in Nat /\ a2 \in Nat /\ b2 \in Nat /\ c2 \in Nat
        /\ e \in 0..1 /\ N[j] \in Int
    BY <2>1, PictureFinite
  <2>3. IsFiniteSet(NamesOf(O, D, C, j)) /\ IsFiniteSet(SubDirs(O, D, C, j)) /\ IsFiniteSet(P[j])
    BY PictureFinite
  <2>4. NamesOf(O, D, C2, j) \subseteq NamesOf(O, D, C, j)
        /\ (j = i => NamesOf(O, D, C2, j) \subseteq NamesOf(O, D, C, j) \ {<<d, s>>}
                     /\ <<d, s>> \in NamesOf(O, D, C, j))
    <3>1. ASSUME NEW x \in NamesOf(O, D, C2, j) PROVE x \in NamesOf(O, D, C, j) /\ x # <<d, s>>
      <4>1. x \in Inums \X (1..Slots) /\ Named(O, D, C2, x[1], x[2]) = j /\ j # 0
        BY Sizes DEF NamesOf
      <4>2. x[1] \in Inums /\ x[2] \in 1..Slots /\ (x[1] # d \/ x[2] # s)
        BY <1>3, <4>1
      <4>3. QED BY <1>3, <4>1, <4>2 DEF NamesOf
    <3>2. <<d, s>> \in NamesOf(O, D, C, i)
      BY <1>1 DEF NamesOf
    <3>3. QED BY <3>1, <3>2
  <2>5. a2 <= a /\ (j = i => a2 <= a - 1)
    BY <2>1, <2>3, <2>4, SetSizes
  <2>6. SubDirs(O, D, C2, j) \subseteq SubDirs(O, D, C, j)
        /\ (j = d /\ i \in D => SubDirs(O, D, C2, j) \subseteq SubDirs(O, D, C, j) \ {i}
                                /\ i \in SubDirs(O, D, C, j))
    <3>1. ASSUME NEW x \in SubDirs(O, D, C2, j)
          PROVE  x \in SubDirs(O, D, C, j) /\ (j = d /\ i \in D => x # i)
      <4>1. PICK t \in 1..Slots : x \in D /\ Named(O, D, C2, j, t) = x
        BY DEF SubDirs
      <4>2. x # 0 /\ (j # d \/ t # s) /\ Named(O, D, C, j, t) = x
        BY <1>1, <1>3, <4>1, Sizes
      <4>3. QED BY <1>5, <4>1, <4>2 DEF SubDirs
    <3>2. j = d /\ i \in D => i \in SubDirs(O, D, C, j)
      BY DEF SubDirs
    <3>3. QED BY <3>1, <3>2
  <2>7. b2 <= b /\ (j = d /\ i \in D => b2 <= b - 1)
    BY <2>1, <2>3, <2>6, SetSizes
  <2>8. /\ c2 <= c + 1
        /\ j # i /\ j # d => c2 <= c
        /\ j = d /\ i \notin D => c2 <= c
    <3>1. P2[j] \subseteq P[j] \cup {p} /\ (j # i /\ j # d => P2[j] \subseteq P[j])
          /\ (j = d /\ i \notin D => P2[j] \subseteq P[j])
      OBVIOUS
    <3>2. QED BY <2>1, <2>3, <3>1, SetSizes
  <2>9. N[j] >= a + b + c + e
    BY <1>1, <2>1 DEF Counted
  <2>10. N[j] >= a2 + b2 + c2 + e
    BY <2>2, <2>5, <2>7, <2>8, <2>9
  <2>11. QED BY <2>1, <2>10
<1>7. ASSUME NEW e \in Inums, NEW t \in 1..Slots, NEW c, c = Named(O, D, C2, e, t), c # 0
      PROVE  Hangs(O, D, C2, F, e, t, c)
  <2>1. c = Named(O, D, C, e, t)
    BY <1>3, <1>7
  <2>2. Hangs(O, D, C, F, e, t, c)
    BY <1>1, <1>7, <2>1 DEF Tree
  <2>3. c \in D => C2[O[c]].up = C[O[c]].up
    BY <1>1, <1>4, <2>2 DEF Hangs
  <2>4. QED BY <1>3, <1>7, <2>2, <2>3 DEF Hangs
<1>8. \A e \in Inums, t \in 1..Slots :
        Named(O, D, C2, e, t) # 0 => Named(O, D, C2, e, t) = Named(O, D, C, e, t)
  BY <1>3
<1>9. NoCircle(O, D, C2)
  <2>1. NoCircle(O, D, C)
    BY DEF Sound
  <2>2. QED BY <1>8, <2>1, FewerCircles
<1>10. ASSUME NEW j \in F PROVE NamesNone(O, D, C2, j)
  <2>1. j \in Inums /\ NamesNone(O, D, C, j)
    BY DEF Picture, Sound
  <2>2. QED BY <1>8, <2>1 DEF NamesNone
<1>11. QED BY <1>2, <1>6, <1>7, <1>9, <1>10 DEF Sound, Counted, Tree

\* An entry for i is made; p has counted the links before.
LEMMA EntryMade ==
  ASSUME NEW N, NEW O, NEW D, NEW C, NEW C2, NEW B, NEW P, NEW P2, NEW F, NEW F2,
         Picture(N, O, D, C, B, P, F), Picture(N, O, D, C2, B, P2, F2), Sound(N, O, D, C, B, P, F),
         NEW d \in D, O[d] # 0, NEW s \in 1..Slots, NEW i \in Inums, OneEntry(O, D, C, C2, d, s, i),
         i # d, i # root, d \notin F, NamesNone(O, D, C, i), NEW p \in P[i],
         \A j \in Inums \ {i, d} : P2[j] \subseteq P[j],
         P2[i] \subseteq P[i] \ {p}, P2[d] \subseteq P[d],
         i \in D => /\ p \in P[d] /\ P2[d] \subseteq P[d] \ {p} /\ O[i] # 0 /\ C[O[i]].up = d
                    /\ \A e \in Inums, t \in 1..Slots : Named(O, D, C, e, t) # i,
         F2 \subseteq F \ {i}
  PROVE  Sound(N, O, D, C2, B, P2, F2)
<1>1. Owners(O, D, C, B) /\ Counted(N, O, D, C, P) /\ Tree(O, D, C, F) /\ d \in Inums /\ i # 0
      /\ D \subseteq Inums /\ O \in [Inums -> {0} \cup Blocks]
  BY Sizes DEF Sound, Picture
<1>2. Owners(O, D, C2, B)
  BY <1>1, OwnersKept
<1>3. /\ Named(O, D, C2, d, s) = i
      /\ \A e \in Inums, t \in 1..Slots :
           e # d \/ t # s => Named(O, D, C2, e, t) = Named(O, D, C, e, t)
  BY <1>1 DEF OneEntry
<1>4. \A b \in Blocks : C2[b].up = C[b].up
  BY DEF OneEntry
<1>6. ASSUME NEW j \in Inums
      PROVE  N[j] >= Cardinality(NamesOf(O, D, C2, j)) + Cardinality(SubDirs(O, D, C2, j))
                     + Cardinality(P2[j]) + Due(j)
  <2>1. PICK a, b, c, a2, b2, c2, e :
          /\ a = Cardinality(NamesOf(O, D, C, j)) /\ a2 = Cardinality(NamesOf(O, D, C2, j))
          /\ b = Cardinality(SubDirs(O, D, C, j)) /\ b2 = Cardinality(SubDirs(O, D, C2, j))
          /\ c = Cardinality(P[j]) /\ c2 = Cardinality(P2[j]) /\ e = Due(j)
    OBVIOUS
  <2>2. /\ a \in Nat /\ b \in Nat /\ c \in Nat /\ a2 \in Nat /\ b2 \in Nat /\ c2 \in Nat
        /\ e \in 0..1 /\ N[j] \in Int
    BY <2>1, PictureFinite
  <2>3. IsFiniteSet(NamesOf(O, D, C, j)) /\ IsFiniteSet(SubDirs(O, D, C, j)) /\ IsFiniteSet(P[j])
    BY PictureFinite
  <2>4. NamesOf(O, D, C2, j) \subseteq NamesOf(O, D, C, j) \cup {<<d, s>>}
        /\ (j # i => NamesOf(O, D, C2, j) \subseteq NamesOf(O, D, C, j))
    <3>1. ASSUME NEW x \in NamesOf(O, D, C2, j)
          PROVE  (x = <<d, s>> /\ j = i) \/ x \in NamesOf(O, D, C, j)
      <4>1. x \in Inums \X (1..Slots) /\ Named(O, D, C2, x[1], x[2]) = j /\ x = <<x[1], x[2]>>
        BY DEF NamesOf
      <4>2. CASE x[1] = d /\ x[2] = s
        BY <1>3, <4>1, <4>2
      <4>3. CASE x[1] # d \/ x[2] # s
        <5>1. Named(O, D, C, x[1], x[2]) = j
          BY <1>3, <4>1, <4>3
        <5>2. QED BY <4>1, <5>1 DEF NamesOf
      <4>4. QED BY <4>2, <4>3
    <3>2. QED BY <3>1
  <2>5. a2 <= a + 1 /\ (j # i => a2 <= a)
    BY <2>1, <2>3, <2>4, SetSizes
  <2>6. /\ j # d => SubDirs(O, D, C2, j) \subseteq SubDirs(O, D, C, j)
        /\ SubDirs(O, D, C2, j) \subseteq SubDirs(O, D, C, j) \cup {i}
        /\ i \notin D => SubDirs(O, D, C2, j) \subseteq SubDirs(O, D, C, j)
    <3>1. ASSUME NEW x \in SubDirs(O, D, C2, j)
          PROVE  x \in SubDirs(O, D, C, j) \/ (j = d /\ x = i /\ i \in D)
      <4>1. PICK t \in 1..Slots : x \in D /\ Named(O, D, C2, j, t) = x
        BY DEF SubDirs
      <4>2. CASE j = d /\ t = s
        BY <1>3, <4>1, <4>2
      <4>3. CASE j # d \/ t # s
        BY <1>3, <4>1, <4>3 DEF SubDirs
      <4>4. QED BY <4>2, <4>3
    <3>2. QED BY <3>1
  <2>7. b2 <= b + 1 /\ (j # d \/ i \notin D => b2 <= b)
    BY <2>1, <2>3, <2>6, SetSizes
  <2>8. /\ c2 <= c
        /\ j = i => c2 <= c - 1
        /\ j = d /\ i \in D => c2 <= c - 1
    <3>1. /\ P2[j] \subseteq P[j]
          /\ j = i => p \in P[j] /\ P2[j] \subseteq P[j] \ {p}
          /\ j = d /\ i \in D => p \in P[j] /\ P2[j] \subseteq P[j] \ {p}
      OBVIOUS
    <3>2. QED BY <2>1, <2>3, <3>1, SetSizes
  <2>9. N[j] >= a + b + c + e
    BY <1>1, <2>1 DEF Counted
  <2>10. N[j] >= a2 + b2 + c2 + e
    BY <2>2, <2>5, <2>7, <2>8, <2>9
  <2>11. QED BY <2>1, <2>10
<1>7. ASSUME NEW e \in Inums, NEW t \in 1..Slots, NEW c, c = Named(O, D, C2, e, t), c # 0
      PROVE  Hangs(O, D, C2, F2, e, t, c)
  <2>1. CASE e = d /\ t = s
    <3>1. c = i
      BY <1>3, <1>7, <2>1
    <3>2. i \in D => /\ O[i] # 0 /\ C2[O[i]].up = d
                     /\ \A x \in Inums, y \in 1..Slots : Named(O, D, C2, x, y) = i => x = d /\ y = s
      <4>1. SUFFICES ASSUME i \in D
                     PROVE  /\ O[i] # 0 /\ C2[O[i]].up = d
                            /\ \A x \in Inums, y \in 1..Slots :
                                 Named(O, D, C2, x, y) = i => x = d /\ y = s
        OBVIOUS
      <4>2. O[i] # 0 /\ C[O[i]].up = d /\ O[i] \in Blocks
        BY <1>1, <4>1
      <4>3. QED BY <1>3, <1>4, <4>1, <4>2
    <3>3. QED BY <2>1, <3>1, <3>2 DEF Hangs
  <2>2. CASE e # d \/ t # s
    <3>1. c = Named(O, D, C, e, t)
      BY <1>3, <1>7, <2>2
    <3>2. Hangs(O, D, C, F, e, t, c)
      BY <1>1, <1>7, <3>1 DEF Tree
    <3>3. c \in D => C2[O[c]].up = C[O[c]].up
      BY <1>1, <1>4, <3>2 DEF Hangs
    <3>4. c \in D => c # i
      BY <3>1
    <3>5. ASSUME c \in D, NEW x \in Inums, NEW y \in 1..Slots, Named(O, D, C2, x, y) = c
          PROVE  x = e /\ y = t
      <4>1. x # d \/ y # s
        BY <1>3, <3>4, <3>5
      <4>2. QED BY <1>3, <3>2, <3>5, <4>1 DEF Hangs
    <3>6. QED BY <3>2, <3>3, <3>5 DEF Hangs
  <2>3. QED BY <2>1, <2>2
<1>8. NoCircle(O, D, C2)
  <2>1. ASSUME NEW S \in SUBSET Inums, S # {}
        PROVE  \E c \in S : \A t \in 1..Slots : Named(O, D, C2, c, t) \notin S
    <3>1. CASE i \in S
      <4>1. \A t \in 1..Slots : Named(O, D, C2, i, t) = 0
        BY <1>3 DEF NamesNone
      <4>2. QED BY <3>1, <4>1, Sizes
    <3>2. CASE i \notin S
      <4>1. PICK c \in S : \A t \in 1..Slots : Named(O, D, C, c, t) \notin S
        BY <2>1 DEF Sound, NoCircle
      <4>2. \A t \in 1..Slots : Named(O, D, C2, c, t) \in {i, Named(O, D, C, c, t)}
        BY <1>3
      <4>3. QED BY <3>2, <4>1, <4>2
    <3>3. QED BY <3>1, <3>2
  <2>2. QED BY <2>1 DEF NoCircle
<1>9. ASSUME NEW j \in F2 PROVE NamesNone(O, D, C2, j)
  <2>1. j \in F /\ j \in Inums /\ j # d
    BY DEF Picture
  <2>2. NamesNone(O, D, C, j)
    BY <2>1 DEF Sound
  <2>3. QED BY <1>3, <2>1, <2>2 DEF NamesNone
<1>10. QED BY <1>2, <1>6, <1>7, <1>8, <1>9 DEF Sound, Counted, Tree

-----------------------------------------------------------------------------
(* What the functions of the inode cache do. *)

\* The first of a set of numbers is one of them.
LEMMA FirstFound ==
  ASSUME NEW S \in SUBSET Nat, S # {} PROVE First(S) \in S
<1>1. PICK x \in S : \A y \in S : <<y, x>> \notin OpToRel(<, Nat)
  BY NatLessThanWellFounded, WFMin, Zenon
<1>2. \A y \in S : ~(y < x)
  BY <1>1 DEF OpToRel
<1>3. \A y \in S : x <= y
  BY <1>2
<1>4. QED BY <1>3 DEF First

\* The fields of a slot of the cache.
LEMMA SlotIs ==
  ASSUME NEW m, CacheOK(m), NEW i \in Inums
  PROVE  /\ m[i].ref \in Int /\ m[i].busy \in BOOLEAN /\ m[i].valid \in BOOLEAN /\ m[i].ino \in Inode
         /\ m[i] = [ref |-> m[i].ref, busy |-> m[i].busy, valid |-> m[i].valid, ino |-> m[i].ino]
<1>1. PICK e \in Cached : e = m[i]
  BY DEF CacheOK
<1>2. QED BY <1>1 DEF Cached

LEMMA GotIs ==
  ASSUME NEW m, CacheOK(m), NEW i \in Inums PROVE GotRel(m, Igot(m, i), i)
<1>1. /\ m[i].ref \in Int /\ m[i].busy \in BOOLEAN /\ m[i].valid \in BOOLEAN /\ m[i].ino \in Inode
      /\ m[i] \in Cached
  BY SlotIs DEF CacheOK
<1>2. PICK v \in BOOLEAN : v = (m[i].valid /\ m[i].ref > 0)
  OBVIOUS
<1>3. PICK e : e = [m[i] EXCEPT !.ref = @ + 1, !.valid = v]
  OBVIOUS
<1>4. e \in Cached /\ e.ref = m[i].ref + 1 /\ e.busy = m[i].busy /\ e.valid = v /\ e.ino = m[i].ino
  <2>1. PICK r \in Int : r = m[i].ref + 1
    BY <1>1
  <2>2. e = [m[i] EXCEPT !.ref = r, !.valid = v]
    BY <1>3, <2>1
  <2>3. e \in Cached /\ e.ref = r /\ e.busy = m[i].busy /\ e.valid = v /\ e.ino = m[i].ino
    BY <1>1, <2>2 DEF Cached
  <2>4. QED BY <2>1, <2>3
<1>5. PICK g : g = Igot(m, i)
  OBVIOUS
<1>6. g = [m EXCEPT ![i] = e]
  BY <1>2, <1>3, <1>5 DEF Igot
<1>7. CacheOK(g) /\ g[i] = e /\ \A x \in Inums \ {i} : g[x] = m[x]
  BY <1>4, <1>6 DEF CacheOK
<1>8. ASSUME NEW x \in Inums PROVE GotRelAt(m, g, i, x)
  <2>1. CASE x = i
    BY <1>1, <1>2, <1>4, <1>7, <2>1 DEF GotRelAt
  <2>2. CASE x # i
    <3>1. g[x] = m[x] /\ m[x].valid \in BOOLEAN /\ m[x].busy \in BOOLEAN
      BY <1>7, <2>2, SlotIs
    <3>2. QED BY <2>2, <3>1 DEF GotRelAt
  <2>3. QED BY <2>1, <2>2
<1>9. QED BY <1>5, <1>7, <1>8 DEF GotRel

LEMMA LockedIs ==
  ASSUME DiskTypes, NEW m, CacheOK(m), NEW i \in Inums PROVE LockRel(m, Locked(m, i), i)
<1>1. /\ m[i].ref \in Int /\ m[i].busy \in BOOLEAN /\ m[i].valid \in BOOLEAN /\ m[i].ino \in Inode
      /\ m[i] \in Cached
  BY SlotIs DEF CacheOK
<1>2. PICK n \in Inode : n = IF m[i].valid THEN m[i].ino ELSE dino[i]
  BY <1>1 DEF DiskTypes
<1>3. PICK e : e = [m[i] EXCEPT !.busy = TRUE, !.valid = TRUE, !.ino = n]
  OBVIOUS
<1>4. e \in Cached /\ e.ref = m[i].ref /\ e.busy = TRUE /\ e.valid = TRUE /\ e.ino = n
  BY <1>1, <1>3 DEF Cached
<1>5. PICK g : g = Locked(m, i)
  OBVIOUS
<1>6. g = [m EXCEPT ![i] = e]
  BY <1>2, <1>3, <1>5 DEF Locked
<1>7. CacheOK(g) /\ g[i] = e /\ \A x \in Inums \ {i} : g[x] = m[x]
  BY <1>4, <1>6 DEF CacheOK
<1>8. ASSUME NEW x \in Inums PROVE LockRelAt(m, g, i, x)
  <2>1. CASE x = i
    BY <1>1, <1>2, <1>4, <1>7, <2>1 DEF LockRelAt
  <2>2. CASE x # i
    <3>1. g[x] = m[x] /\ m[x].valid \in BOOLEAN /\ m[x].busy \in BOOLEAN
      BY <1>7, <2>2, SlotIs
    <3>2. QED BY <2>2, <3>1 DEF LockRelAt
  <2>3. QED BY <2>1, <2>2
<1>9. QED BY <1>5, <1>7, <1>8 DEF LockRel

LEMMA UnlockedIs ==
  ASSUME NEW m, CacheOK(m), NEW i \in Inums PROVE UnlockRel(m, Unlocked(m, i), i)
<1>1. /\ m[i].ref \in Int /\ m[i].busy \in BOOLEAN /\ m[i].valid \in BOOLEAN /\ m[i].ino \in Inode
      /\ m[i] \in Cached
  BY SlotIs DEF CacheOK
<1>3. PICK e : e = [m[i] EXCEPT !.busy = FALSE]
  OBVIOUS
<1>4. e \in Cached /\ e.ref = m[i].ref /\ e.busy = FALSE /\ e.valid = m[i].valid /\ e.ino = m[i].ino
  BY <1>1, <1>3 DEF Cached
<1>5. PICK g : g = Unlocked(m, i)
  OBVIOUS
<1>6. g = [m EXCEPT ![i] = e]
  BY <1>3, <1>5 DEF Unlocked
<1>7. CacheOK(g) /\ g[i] = e /\ \A x \in Inums \ {i} : g[x] = m[x]
  BY <1>4, <1>6 DEF CacheOK
<1>8. ASSUME NEW x \in Inums PROVE UnlockRelAt(m, g, i, x)
  <2>1. CASE x = i
    BY <1>1, <1>4, <1>7, <2>1 DEF UnlockRelAt
  <2>2. CASE x # i
    <3>1. g[x] = m[x] /\ m[x].valid \in BOOLEAN /\ m[x].busy \in BOOLEAN
      BY <1>7, <2>2, SlotIs
    <3>2. QED BY <2>2, <3>1 DEF UnlockRelAt
  <2>3. QED BY <2>1, <2>2
<1>9. QED BY <1>5, <1>7, <1>8 DEF UnlockRel

LEMMA PutIs ==
  ASSUME NEW m, CacheOK(m), NEW i \in Inums PROVE PutRel(m, Put(m, i), i, Trunc(m, i))
<1>1. /\ m[i].ref \in Int /\ m[i].busy \in BOOLEAN /\ m[i].valid \in BOOLEAN /\ m[i].ino \in Inode
      /\ m[i] \in Cached
  BY SlotIs DEF CacheOK
<1>2. PICK t : t = Trunc(m, i)
  OBVIOUS
<1>3. t \in {0, i} /\ i # 0 /\ (t = i <=> IsLast(m, i))
      /\ (IsLast(m, i) <=> m[i].ref = 1 /\ m[i].valid /\ m[i].ino.nlink = 0)
  BY <1>2, Sizes DEF Trunc, IsLast
<1>4. PICK g : g = Put(m, i)
  OBVIOUS
<1>5. CASE t = i
  <2>1. PICK e : e = [m[i] EXCEPT !.busy = TRUE]
    OBVIOUS
  <2>2. e \in Cached /\ e.ref = m[i].ref /\ e.busy = TRUE /\ e.valid = m[i].valid /\ e.ino = m[i].ino
    BY <1>1, <2>1 DEF Cached
  <2>3. g = [m EXCEPT ![i] = e]
    BY <1>3, <1>4, <1>5, <2>1 DEF Put
  <2>4. CacheOK(g) /\ g[i] = e /\ \A x \in Inums \ {i} : g[x] = m[x]
    BY <2>2, <2>3 DEF CacheOK
  <2>5. ASSUME NEW x \in Inums PROVE PutRelAt(m, g, i, t, x)
    <3>1. CASE x = i
      BY <1>1, <1>3, <1>5, <2>2, <2>4, <3>1 DEF PutRelAt
    <3>2. CASE x # i
      BY <2>4, <3>2, SlotIs DEF PutRelAt
    <3>3. QED BY <3>1, <3>2
  <2>6. QED BY <1>2, <1>3, <1>4, <2>4, <2>5 DEF PutRel
<1>6. CASE t = 0
  <2>1. PICK e : e = [m[i] EXCEPT !.ref = @ - 1]
    OBVIOUS
  <2>2. e \in Cached /\ e.ref = m[i].ref - 1 /\ e.busy = m[i].busy /\ e.valid = m[i].valid
        /\ e.ino = m[i].ino
    BY <1>1, <2>1 DEF Cached
  <2>3. g = [m EXCEPT ![i] = e]
    BY <1>3, <1>4, <1>6, <2>1 DEF Put
  <2>4. CacheOK(g) /\ g[i] = e /\ \A x \in Inums \ {i} : g[x] = m[x]
    BY <2>2, <2>3 DEF CacheOK
  <2>5. ASSUME NEW x \in Inums PROVE PutRelAt(m, g, i, t, x)
    <3>1. CASE x = i
      BY <1>1, <1>3, <1>6, <2>2, <2>4, <3>1 DEF PutRelAt
    <3>2. CASE x # i
      BY <2>4, <3>2, SlotIs DEF PutRelAt
    <3>3. QED BY <3>1, <3>2
  <2>6. QED BY <1>2, <1>3, <1>4, <2>4, <2>5 DEF PutRel
<1>7. QED BY <1>3, <1>5, <1>6

LEMMA DroppedIs ==
  ASSUME NEW m, CacheOK(m), NEW i \in Inums PROVE DropRel(m, Dropped(m, i), i, DropTrunc(m, i))
<1>1. PICK u, g, t : u = Unlocked(m, i) /\ g = Dropped(m, i) /\ t = DropTrunc(m, i)
  OBVIOUS
<1>2. UnlockRel(m, u, i)
  BY <1>1, UnlockedIs
<1>3. PutRel(u, g, i, t)
  BY <1>1, <1>2, PutIs DEF UnlockRel, Dropped, DropTrunc
<1>4. u[i].ref = m[i].ref /\ u[i].valid = m[i].valid /\ u[i].ino = m[i].ino
  BY <1>2 DEF UnlockRel, UnlockRelAt
<1>5. CacheOK(g) /\ t \in {0, i} /\ (t = i <=> m[i].ref = 1 /\ m[i].valid /\ m[i].ino.nlink = 0)
  BY <1>3, <1>4 DEF PutRel
<1>6. ASSUME NEW x \in Inums PROVE DropRelAt(m, g, i, t, x)
  <2>1. UnlockRelAt(m, u, i, x) /\ PutRelAt(u, g, i, t, x) /\ m[x].busy \in BOOLEAN
    BY <1>2, <1>3, SlotIs DEF UnlockRel, PutRel
  <2>2. QED BY <2>1 DEF UnlockRelAt, PutRelAt, DropRelAt
<1>7. QED BY <1>1, <1>5, <1>6 DEF DropRel

LEMMA CopyIs ==
  ASSUME NEW m, CacheOK(m), NEW i \in Inums, NEW n \in Inode
  PROVE  InoRel(m, [m EXCEPT ![i].ino = n], i, n)
<1>1. /\ m[i].ref \in Int /\ m[i].busy \in BOOLEAN /\ m[i].valid \in BOOLEAN /\ m[i].ino \in Inode
      /\ m[i] \in Cached
  BY SlotIs DEF CacheOK
<1>3. PICK e : e = [m[i] EXCEPT !.ino = n]
  OBVIOUS
<1>4. e \in Cached /\ e.ref = m[i].ref /\ e.busy = m[i].busy /\ e.valid = m[i].valid /\ e.ino = n
  BY <1>1, <1>3 DEF Cached
<1>5. PICK g : g = [m EXCEPT ![i].ino = n]
  OBVIOUS
<1>6. g = [m EXCEPT ![i] = e]
  BY <1>3, <1>5 DEF CacheOK
<1>7. CacheOK(g) /\ g[i] = e /\ \A x \in Inums \ {i} : g[x] = m[x]
  BY <1>4, <1>6 DEF CacheOK
<1>8. ASSUME NEW x \in Inums PROVE InoRelAt(m, g, i, n, x)
  <2>1. CASE x = i
    BY <1>1, <1>4, <1>7, <2>1 DEF InoRelAt
  <2>2. CASE x # i
    <3>1. g[x] = m[x] /\ m[x].valid \in BOOLEAN /\ m[x].busy \in BOOLEAN
      BY <1>7, <2>2, SlotIs
    <3>2. QED BY <2>2, <3>1 DEF InoRelAt
  <2>3. QED BY <2>1, <2>2
<1>9. QED BY <1>5, <1>7, <1>8 DEF InoRel

-----------------------------------------------------------------------------
(* A step of process p: its locals afterwards. *)

LEMMA Settled ==
  ASSUME LocalTypes, NEW p \in Procs, NEW pl \in Places, NEW k \in Calls, NEW c \in Pointer,
         NEW d \in Pointer, NEW i \in Pointer, NEW f \in Pointer, NEW t \in Pointer,
         NEW st \in Stages, Becomes(p, pl, k, c, d, i, f, t, st)
  PROVE  LocalTypes' /\ Mine(p, pl, k, c, d, i, f, t, st) /\ OthersSame(p)
<1>1. pc' \in [Procs -> Places] /\ pc'[p] = pl /\ \A q \in Procs \ {p} : pc'[q] = pc[q]
  BY DEF LocalTypes, Becomes, Sets
<1>2. call' \in [Procs -> Calls] /\ call'[p] = k /\ \A q \in Procs \ {p} : call'[q] = call[q]
  BY DEF LocalTypes, Becomes, Sets
<1>3. cur' \in [Procs -> Pointer] /\ cur'[p] = c /\ \A q \in Procs \ {p} : cur'[q] = cur[q]
  BY DEF LocalTypes, Becomes, Sets
<1>4. dp' \in [Procs -> Pointer] /\ dp'[p] = d /\ \A q \in Procs \ {p} : dp'[q] = dp[q]
  BY DEF LocalTypes, Becomes, Sets
<1>5. ip' \in [Procs -> Pointer] /\ ip'[p] = i /\ \A q \in Procs \ {p} : ip'[q] = ip[q]
  BY DEF LocalTypes, Becomes, Sets
<1>6. fd' \in [Procs -> Pointer] /\ fd'[p] = f /\ \A q \in Procs \ {p} : fd'[q] = fd[q]
  BY DEF LocalTypes, Becomes, Sets
<1>7. putting' \in [Procs -> Pointer] /\ putting'[p] = t
      /\ \A q \in Procs \ {p} : putting'[q] = putting[q]
  BY DEF LocalTypes, Becomes, Sets
<1>8. stage' \in [Procs -> Stages] /\ stage'[p] = st /\ \A q \in Procs \ {p} : stage'[q] = stage[q]
  BY DEF LocalTypes, Becomes, Sets
<1>9. LocalTypes'
  BY <1>1, <1>2, <1>3, <1>4, <1>5, <1>6, <1>7, <1>8 DEF LocalTypes
<1>10. OthersSame(p)
  BY <1>1, <1>2, <1>3, <1>4, <1>5, <1>6, <1>7, <1>8 DEF OthersSame, SameFor
<1>11. Mine(p, pl, k, c, d, i, f, t, st)
  BY <1>1, <1>2, <1>3, <1>4, <1>5, <1>6, <1>7, <1>8 DEF Mine
<1>12. QED BY <1>9, <1>10, <1>11

\* Only p changes its locals, so the conditions on the others' stay.
LEMMA PhasesFollow ==
  ASSUME Phases, NEW p \in Procs, OthersSame(p), PhaseOf(p)' PROVE Phases'
<1>1. SUFFICES ASSUME NEW q \in Procs \ {p} PROVE PhaseOf(q)'
  BY DEF Phases
<1>2. SameFor(q) /\ PhaseOf(q)
  BY DEF OthersSame, Phases
<1>3. QED BY <1>2 DEF SameFor, PhaseOf

-----------------------------------------------------------------------------
(* Counting pointers. *)

\* One pointer of one process changes.
LEMMA OnePointer ==
  ASSUME NEW v, NEW v2, NEW p \in Procs, \A q \in Procs \ {p} : v2[q] = v[q], NEW i
  PROVE  /\ Cardinality(With(v, i)) \in Nat /\ Cardinality(With(v2, i)) \in Nat
         /\ Cardinality(With(v2, i)) = (Cardinality(With(v, i)) + Hit(v2[p], i)) - Hit(v[p], i)
         /\ Hit(v[p], i) <= Cardinality(With(v, i))
<1> DEFINE R == With(v, i) \ {p}
<1>1. With(v, i) \in SUBSET Procs /\ With(v2, i) \in SUBSET Procs /\ R \in SUBSET Procs
  BY DEF With
<1>2. IsFiniteSet(With(v, i)) /\ IsFiniteSet(With(v2, i)) /\ IsFiniteSet(R)
  BY <1>1, Sizes, FS_Subset
<1>3. With(v, i) = IF v[p] = i THEN R \cup {p} ELSE R
  BY DEF With
<1>4. With(v2, i) = IF v2[p] = i THEN R \cup {p} ELSE R
  BY DEF With
<1>5. p \notin R
  OBVIOUS
<1> HIDE DEF R
<1>6. Cardinality(R) \in Nat /\ Cardinality(R \cup {p}) = Cardinality(R) + 1
  BY <1>2, <1>5, FS_CardinalityType, FS_AddElement
<1>7. Cardinality(With(v, i)) = Cardinality(R) + Hit(v[p], i)
  BY <1>3, <1>6 DEF Hit
<1>8. Cardinality(With(v2, i)) = Cardinality(R) + Hit(v2[p], i)
  BY <1>4, <1>6 DEF Hit
<1>9. Hit(v[p], i) \in 0..1 /\ Hit(v2[p], i) \in 0..1
  BY DEF Hit
<1>10. QED BY <1>6, <1>7, <1>8, <1>9

LEMMA RefCountedIs == RefsCounted <=> \A i \in Inums : RefCounted(i)
  BY DEF RefsCounted, RefCounted, With

LEMMA CountFollows ==
  ASSUME NEW p \in Procs, OthersSame(p), NEW i \in Inums, RefCounted(i),
         mem'[i].ref = (mem[i].ref + Hits(p, i)') - Hits(p, i)
  PROVE  RefCounted(i)'
<1> DEFINE A(v) == Cardinality(With(v, i))
<1>1. /\ A(fd) \in Nat /\ A(fd') = (A(fd) + Hit(fd'[p], i)) - Hit(fd[p], i)
      /\ A(cur) \in Nat /\ A(cur') = (A(cur) + Hit(cur'[p], i)) - Hit(cur[p], i)
      /\ A(dp) \in Nat /\ A(dp') = (A(dp) + Hit(dp'[p], i)) - Hit(dp[p], i)
      /\ A(ip) \in Nat /\ A(ip') = (A(ip) + Hit(ip'[p], i)) - Hit(ip[p], i)
      /\ A(putting) \in Nat /\ A(putting') = (A(putting) + Hit(putting'[p], i)) - Hit(putting[p], i)
  <2>1. A(fd) \in Nat /\ A(fd') = (A(fd) + Hit(fd'[p], i)) - Hit(fd[p], i)
    BY OnePointer DEF OthersSame, SameFor
  <2>2. A(cur) \in Nat /\ A(cur') = (A(cur) + Hit(cur'[p], i)) - Hit(cur[p], i)
    BY OnePointer DEF OthersSame, SameFor
  <2>3. A(dp) \in Nat /\ A(dp') = (A(dp) + Hit(dp'[p], i)) - Hit(dp[p], i)
    BY OnePointer DEF OthersSame, SameFor
  <2>4. A(ip) \in Nat /\ A(ip') = (A(ip) + Hit(ip'[p], i)) - Hit(ip[p], i)
    BY OnePointer DEF OthersSame, SameFor
  <2>5. A(putting) \in Nat /\ A(putting') = (A(putting) + Hit(putting'[p], i)) - Hit(putting[p], i)
    BY OnePointer DEF OthersSame, SameFor
  <2>6. QED BY <2>1, <2>2, <2>3, <2>4, <2>5
<1>2. mem[i].ref = A(fd) + A(cur) + A(dp) + A(ip) + A(putting)
  BY DEF RefCounted
<1>3. /\ Hits(p, i) = Hit(fd[p], i) + Hit(cur[p], i) + Hit(dp[p], i) + Hit(ip[p], i)
                      + Hit(putting[p], i)
      /\ Hits(p, i)' = Hit(fd'[p], i) + Hit(cur'[p], i) + Hit(dp'[p], i) + Hit(ip'[p], i)
                       + Hit(putting'[p], i)
  BY DEF Hits, Hit
<1>4. RefCounted(i)' <=> mem'[i].ref = A(fd') + A(cur') + A(dp') + A(ip') + A(putting')
  BY DEF RefCounted, With
<1>5. \A v : Hit(v, i) \in Int
  BY DEF Hit
<1> HIDE DEF A
<1>6. QED BY <1>1, <1>2, <1>3, <1>4, <1>5

LEMMA BaseFollows ==
  ASSUME Base, NEW p \in Procs, OthersSame(p), LocalTypes', CacheTypes', DiskTypes',
         PhaseOf(p)', RefsMove(p)
  PROVE  Base'
<1>1. Phases'
  BY PhasesFollow DEF Base
<1>2. \A i \in Inums : RefCounted(i)'
  BY CountFollows, RefCountedIs DEF Base, RefsMove
<1>3. RefsCounted'
  BY <1>2 DEF RefsCounted, RefCounted, With
<1>4. QED BY <1>1, <1>3 DEF Base, Types

-----------------------------------------------------------------------------
(* What a step does to the cache: it gets inode s (new) and locks it (lk), *)
(* gets what s names (g), and leaves s as it is, unlocked or given up.     *)

LEMMA LookIs ==
  ASSUME DiskTypes, CacheTypes, NEW s \in Inums, NEW new \in BOOLEAN, NEW lk \in BOOLEAN, new => lk,
         NEW m, m = Looked(s, new, lk)
  PROVE  CacheOK(m) /\ \A x \in Inums : LookAt(m, s, new, lk, x)
<1>1. CacheOK(mem) /\ \A x \in Inums : mem[x].busy \in BOOLEAN /\ mem[x].valid \in BOOLEAN
                                       /\ mem[x].ref \in Int
  BY SlotIs DEF CacheOK, CacheTypes
<1>2. CASE new
  <2>1. PICK a : a = Igot(mem, s)
    OBVIOUS
  <2>2. GotRel(mem, a, s)
    BY <1>1, <2>1, GotIs
  <2>3. LockRel(a, m, s)
    BY <1>2, <2>1, <2>2, LockedIs DEF GotRel, Looked
  <2>4. ASSUME NEW x \in Inums PROVE LookAt(m, s, new, lk, x)
    <3>1. GotRelAt(mem, a, s, x) /\ LockRelAt(a, m, s, x) /\ lk
      BY <1>2, <2>2, <2>3 DEF GotRel, LockRel
    <3>2. CASE x = s
      BY <1>1, <1>2, <3>1, <3>2 DEF GotRelAt, LockRelAt, LookAt
    <3>3. CASE x # s
      BY <1>1, <1>2, <3>1, <3>3 DEF GotRelAt, LockRelAt, LookAt
    <3>4. QED BY <3>2, <3>3
  <2>5. QED BY <2>3, <2>4 DEF LockRel
<1>3. CASE ~new /\ lk
  <2>1. LockRel(mem, m, s)
    BY <1>1, <1>3, LockedIs DEF Looked
  <2>2. ASSUME NEW x \in Inums PROVE LookAt(m, s, new, lk, x)
    <3>1. LockRelAt(mem, m, s, x)
      BY <2>1 DEF LockRel
    <3>2. QED BY <1>1, <1>3, <3>1 DEF LockRelAt, LookAt
  <2>3. QED BY <2>1, <2>2 DEF LockRel
<1>4. CASE ~new /\ ~lk
  <2>1. m = mem
    BY <1>4 DEF Looked
  <2>2. ASSUME NEW x \in Inums PROVE LookAt(m, s, new, lk, x)
    BY <1>1, <1>4, <2>1 DEF LookAt
  <2>3. QED BY <1>1, <2>1, <2>2
<1>5. QED BY <1>2, <1>3, <1>4

LEMMA TakeIs ==
  ASSUME DiskTypes, CacheTypes, NEW s \in Inums, NEW new \in BOOLEAN, NEW lk \in BOOLEAN, new => lk,
         NEW g \in Pointer, NEW m, m = Taken(s, new, lk, g)
  PROVE  CacheOK(m) /\ \A x \in Inums : TakeAt(m, s, new, lk, g, x)
<1>1. PICK a : a = Looked(s, new, lk)
  OBVIOUS
<1>2. CacheOK(a) /\ \A x \in Inums : LookAt(a, s, new, lk, x)
  BY <1>1, LookIs
<1>3. \A x \in Inums : mem[x].ref \in Int /\ mem[x].valid \in BOOLEAN /\ mem[x].busy \in BOOLEAN
  BY SlotIs DEF CacheTypes, CacheOK
<1>4. \A x \in Inums : One(x = s /\ new) = (IF x = s /\ new THEN 1 ELSE 0)
      /\ One(new) = IF new THEN 1 ELSE 0
  BY DEF One
<1>5. CASE g = 0
  <2>1. m = a
    BY <1>1, <1>5 DEF Taken
  <2>2. ASSUME NEW x \in Inums PROVE TakeAt(m, s, new, lk, g, x)
    <3>1. LookAt(m, s, new, lk, x) /\ Hit(g, x) = 0 /\ x # g /\ g # s
      BY <1>2, <1>5, <2>1, Sizes DEF Hit
    <3>2. CASE x = s
      BY <1>3, <1>4, <3>1, <3>2 DEF LookAt, TakeAt
    <3>3. CASE x # s
      BY <1>3, <1>4, <3>1, <3>3 DEF LookAt, TakeAt
    <3>4. QED BY <3>2, <3>3
  <2>3. QED BY <1>2, <2>1, <2>2
<1>6. CASE g # 0
  <2>1. g \in Inums /\ m = Igot(a, g)
    BY <1>1, <1>6 DEF Taken, Pointer
  <2>2. GotRel(a, m, g)
    BY <1>2, <2>1, GotIs
  <2>3. ASSUME NEW x \in Inums PROVE TakeAt(m, s, new, lk, g, x)
    <3>1. LookAt(a, s, new, lk, x) /\ GotRelAt(a, m, g, x) /\ Hit(g, x) = IF x = g THEN 1 ELSE 0
      BY <1>2, <2>2 DEF Hit, GotRel
    <3>2. CASE x = s /\ x = g
      BY <1>3, <1>4, <3>1, <3>2 DEF LookAt, GotRelAt, TakeAt
    <3>3. CASE x = s /\ x # g
      BY <1>3, <1>4, <3>1, <3>3 DEF LookAt, GotRelAt, TakeAt
    <3>4. CASE x # s /\ x = g
      BY <1>3, <1>4, <3>1, <3>4 DEF LookAt, GotRelAt, TakeAt
    <3>5. CASE x # s /\ x # g
      BY <1>3, <1>4, <3>1, <3>5 DEF LookAt, GotRelAt, TakeAt
    <3>6. QED BY <3>2, <3>3, <3>4, <3>5
  <2>4. QED BY <2>2, <2>3 DEF GotRel
<1>7. QED BY <1>5, <1>6

LEMMA VisitIs ==
  ASSUME DiskTypes, CacheTypes, NEW s \in Inums, NEW new \in BOOLEAN, NEW lk \in BOOLEAN, new => lk,
         NEW g \in Pointer, NEW how \in {"hold", "unlock", "drop", "put"},
         NEW m, m = Taken(s, new, lk, g), mem' = Left(m, s, how), NEW t, t = LeftTrunc(m, s, how)
  PROVE  Visits(s, new, lk, g, how, t)
<1>1. CacheOK(m) /\ \A x \in Inums : TakeAt(m, s, new, lk, g, x)
  BY TakeIs
<1>2. \A x \in Inums : mem[x].ref \in Int /\ mem[x].valid \in BOOLEAN /\ mem[x].busy \in BOOLEAN
                       /\ m[x].ref \in Int /\ m[x].valid \in BOOLEAN /\ m[x].busy \in BOOLEAN
  BY <1>1, SlotIs DEF CacheTypes, CacheOK
<1>3. s # 0
  BY Sizes
<1>4. CASE how = "hold"
  <2>1. mem' = m /\ t = 0
    BY <1>4 DEF Left, LeftTrunc
  <2>2. ASSUME NEW x \in Inums PROVE VisitAt(s, new, lk, g, how, t, x)
    <3>1. TakeAt(mem', s, new, lk, g, x) /\ One(x = s /\ how \in {"drop", "put"} /\ t = 0) = 0
          /\ mem'[x].ref \in Int
      BY <1>1, <1>2, <1>4, <2>1 DEF One
    <3>2. QED BY <1>2, <1>4, <3>1 DEF TakeAt, VisitAt
  <2>3. QED BY <1>1, <2>1, <2>2 DEF Visits, CacheOK, CacheTypes
<1>5. CASE how = "unlock"
  <2>1. mem' = Unlocked(m, s) /\ t = 0
    BY <1>5 DEF Left, LeftTrunc
  <2>2. UnlockRel(m, mem', s)
    BY <1>1, <2>1, UnlockedIs
  <2>3. ASSUME NEW x \in Inums PROVE VisitAt(s, new, lk, g, how, t, x)
    <3>1. TakeAt(m, s, new, lk, g, x) /\ One(x = s /\ how \in {"drop", "put"} /\ t = 0) = 0
          /\ UnlockRelAt(m, mem', s, x)
      BY <1>1, <1>5, <2>2 DEF One, UnlockRel
    <3>2. mem'[x].ref = m[x].ref - One(x = s /\ how \in {"drop", "put"} /\ t = 0)
      BY <1>2, <3>1 DEF UnlockRelAt
    <3>3. QED BY <1>2, <1>5, <3>1, <3>2 DEF TakeAt, UnlockRelAt, VisitAt
  <2>4. QED BY <2>1, <2>2, <2>3 DEF Visits, CacheOK, CacheTypes, UnlockRel
<1>6. CASE how = "drop"
  <2>1. mem' = Dropped(m, s) /\ t = DropTrunc(m, s)
    BY <1>6 DEF Left, LeftTrunc
  <2>2. DropRel(m, mem', s, t)
    BY <1>1, <2>1, DroppedIs
  <2>3. ASSUME NEW x \in Inums PROVE VisitAt(s, new, lk, g, how, t, x)
    <3>1. TakeAt(m, s, new, lk, g, x) /\ DropRelAt(m, mem', s, t, x)
          /\ One(x = s /\ how \in {"drop", "put"} /\ t = 0) = IF x = s /\ t = 0 THEN 1 ELSE 0
      BY <1>1, <1>6, <2>2 DEF One, DropRel
    <3>2. mem'[x].ref = m[x].ref - One(x = s /\ how \in {"drop", "put"} /\ t = 0)
      BY <1>2, <3>1 DEF DropRelAt
    <3>3. QED BY <1>2, <1>6, <3>1, <3>2 DEF TakeAt, DropRelAt, VisitAt
  <2>4. t # 0 => mem'[s].ref = 1 /\ mem'[s].valid /\ mem'[s].ino.nlink = 0
    BY <1>3, <2>2 DEF DropRel, DropRelAt
  <2>5. QED BY <1>6, <2>2, <2>3, <2>4 DEF Visits, CacheOK, CacheTypes, DropRel
<1>7. CASE how = "put"
  <2>1. mem' = Put(m, s) /\ t = Trunc(m, s)
    BY <1>7 DEF Left, LeftTrunc
  <2>2. PutRel(m, mem', s, t)
    BY <1>1, <2>1, PutIs
  <2>3. ASSUME NEW x \in Inums PROVE VisitAt(s, new, lk, g, how, t, x)
    <3>1. TakeAt(m, s, new, lk, g, x) /\ PutRelAt(m, mem', s, t, x)
          /\ One(x = s /\ how \in {"drop", "put"} /\ t = 0) = IF x = s /\ t = 0 THEN 1 ELSE 0
      BY <1>1, <1>7, <2>2 DEF One, PutRel
    <3>2. mem'[x].ref = m[x].ref - One(x = s /\ how \in {"drop", "put"} /\ t = 0)
      BY <1>2, <3>1 DEF PutRelAt
    <3>3. QED BY <1>2, <1>7, <3>1, <3>2 DEF TakeAt, PutRelAt, VisitAt
  <2>4. t # 0 => mem'[s].ref = 1 /\ mem'[s].valid /\ mem'[s].ino.nlink = 0
    BY <1>3, <2>2 DEF PutRel, PutRelAt
  <2>5. QED BY <1>7, <2>2, <2>3, <2>4 DEF Visits, CacheOK, CacheTypes, PutRel
<1>8. QED BY <1>4, <1>5, <1>6, <1>7

-----------------------------------------------------------------------------
(* A step of process p that visits the cache. *)

LEMMA Pointed ==
  ASSUME Base, NEW p \in Procs
  PROVE  /\ cur[p] \in Pointer /\ dp[p] \in Pointer /\ ip[p] \in Pointer /\ fd[p] \in Pointer
         /\ putting[p] \in Pointer
         /\ (cur[p] # 0 => cur[p] \in Inums) /\ (dp[p] # 0 => dp[p] \in Inums)
         /\ (ip[p] # 0 => ip[p] \in Inums) /\ (fd[p] # 0 => fd[p] \in Inums)
         /\ (putting[p] # 0 => putting[p] \in Inums)
         /\ call[p] \in Calls /\ pc[p] \in Places /\ stage[p] \in Stages /\ PhaseOf(p)
<1>1. /\ cur[p] \in Pointer /\ dp[p] \in Pointer /\ ip[p] \in Pointer /\ fd[p] \in Pointer
      /\ putting[p] \in Pointer /\ call[p] \in Calls /\ pc[p] \in Places /\ stage[p] \in Stages
  BY DEF Base, Types, LocalTypes
<1>2. PhaseOf(p)
  BY DEF Base, Phases
<1>3. QED BY <1>1, <1>2 DEF Pointer

LEMMA StepIs ==
  ASSUME Base, NEW p \in Procs, NEW pl \in Places, NEW k \in Calls, NEW c \in Pointer,
         NEW d \in Pointer, NEW i \in Pointer, NEW f \in Pointer, NEW s \in Inums,
         NEW new \in BOOLEAN, NEW lk \in BOOLEAN, new => lk, NEW g \in Pointer,
         NEW how \in {"hold", "unlock", "drop", "put"}, NEW m, m = Taken(s, new, lk, g),
         mem' = Left(m, s, how), NEW t, t = LeftTrunc(m, s, how),
         Becomes(p, pl, k, c, d, i, f, t, "clear")
  PROVE  StepOf(p, pl, k, c, d, i, f, t, s, new, lk, g, how)
<1>1. Visits(s, new, lk, g, how, t)
  BY VisitIs DEF Base, Types
<1>2. t \in Pointer /\ "clear" \in Stages
  BY <1>1 DEF Visits, Pointer, Stages
<1>3. LocalTypes' /\ Mine(p, pl, k, c, d, i, f, t, "clear") /\ OthersSame(p)
  BY <1>2, Settled DEF Base, Types
<1>4. QED BY <1>1, <1>3 DEF StepOf

LEMMA PhaseFollows ==
  ASSUME NEW p, NEW pl, NEW k, NEW c, NEW d, NEW i, NEW f, NEW t,
         Mine(p, pl, k, c, d, i, f, t, "clear"), PhaseAt(pl, k, c, d, i, f)
  PROVE  PhaseOf(p)'
BY DEF Mine, PhaseAt, PhaseOf, IpSet, KindFits

\* What p points to afterwards.
LEMMA HitsAre ==
  ASSUME NEW p, putting[p] = 0, NEW pl, NEW k, NEW c, NEW d, NEW i, NEW f, NEW t,
         Mine(p, pl, k, c, d, i, f, t, "clear"), NEW x \in Inums
  PROVE  /\ Hits(p, x)' = Hit(f, x) + Hit(c, x) + Hit(d, x) + Hit(i, x) + Hit(t, x)
         /\ Hits(p, x) = Hit(fd[p], x) + Hit(cur[p], x) + Hit(dp[p], x) + Hit(ip[p], x)
         /\ \A v : Hit(v, x) \in Int
<1>1. Hit(0, x) = 0 /\ \A v : Hit(v, x) \in Int
  BY Sizes DEF Hit
<1>2. fd'[p] = f /\ cur'[p] = c /\ dp'[p] = d /\ ip'[p] = i /\ putting'[p] = t
  BY DEF Mine
<1>3. Hits(p, x)' = Hit(fd'[p], x) + Hit(cur'[p], x) + Hit(dp'[p], x) + Hit(ip'[p], x)
                    + Hit(putting'[p], x)
  BY DEF Hits, Hit
<1>4. Hits(p, x) = Hit(fd[p], x) + Hit(cur[p], x) + Hit(dp[p], x) + Hit(ip[p], x)
  BY <1>1 DEF Hits
<1>5. QED BY <1>1, <1>2, <1>3, <1>4

LEMMA StepBase ==
  ASSUME Base, NEW p \in Procs, NEW pl, NEW k, NEW c, NEW d, NEW i, NEW f, NEW t, NEW s \in Inums,
         NEW new, NEW lk, NEW g, NEW how, StepOf(p, pl, k, c, d, i, f, t, s, new, lk, g, how),
         how \in {"hold", "unlock", "drop", "put"},
         DiskTypes', putting[p] = 0, PhaseAt(pl, k, c, d, i, f),
         Balanced(p, c, d, i, f, s, new, g, how)
  PROVE  Base'
<1>1. Mine(p, pl, k, c, d, i, f, t, "clear") /\ OthersSame(p) /\ LocalTypes'
      /\ Visits(s, new, lk, g, how, t)
  BY DEF StepOf
<1>2. CacheTypes' /\ t \in {0, s} /\ (how \in {"hold", "unlock"} => t = 0)
  BY <1>1 DEF Visits
<1>3. PhaseOf(p)'
  BY <1>1, PhaseFollows
<1>4. ASSUME NEW x \in Inums PROVE mem'[x].ref = (mem[x].ref + Hits(p, x)') - Hits(p, x)
  <2>1. PICK a, b, z : /\ a = One(x = s /\ new) /\ b = One(x = s /\ how \in {"drop", "put"})
                       /\ z = One(x = s /\ how \in {"drop", "put"} /\ t = 0)
    OBVIOUS
  <2>2. a \in Int /\ b \in Int /\ z \in Int /\ mem[x].ref \in Int
    <3>1. CacheOK(mem)
      BY DEF Base, Types, CacheTypes, CacheOK
    <3>2. mem[x].ref \in Int
      BY <3>1, SlotIs
    <3>3. QED BY <2>1, <3>2 DEF One
  <2>3. Hit(t, x) = b - z
    <3>1. CASE t = 0
      BY <2>1, <3>1, Sizes DEF One, Hit
    <3>2. CASE t # 0
      <4>1. t = s /\ how \in {"drop", "put"}
        BY <1>2, <3>2
      <4>2. QED BY <2>1, <3>2, <4>1 DEF One, Hit
    <3>3. QED BY <3>1, <3>2
  <2>4. mem'[x].ref = (mem[x].ref + a + Hit(g, x)) - z
    BY <1>1, <2>1 DEF Visits, VisitAt
  <2>5. /\ Hits(p, x)' = Hit(f, x) + Hit(c, x) + Hit(d, x) + Hit(i, x) + Hit(t, x)
        /\ Hits(p, x) = Hit(fd[p], x) + Hit(cur[p], x) + Hit(dp[p], x) + Hit(ip[p], x)
        /\ \A v : Hit(v, x) \in Int
    BY <1>1, HitsAre
  <2>6. a + Hit(g, x) + Hit(fd[p], x) + Hit(cur[p], x) + Hit(dp[p], x) + Hit(ip[p], x)
        = Hit(f, x) + Hit(c, x) + Hit(d, x) + Hit(i, x) + b
    BY <2>1 DEF Balanced, BalancedAt
  <2>7. QED BY <2>2, <2>3, <2>4, <2>5, <2>6
<1>5. RefsMove(p)
  BY <1>4 DEF RefsMove
<1>6. QED BY <1>1, <1>2, <1>3, <1>5, BaseFollows

LEMMA MoveIs ==
  ASSUME Base, NEW p \in Procs, NEW pl \in Places, NEW k \in Calls, NEW c \in Pointer,
         NEW d \in Pointer, NEW i \in Pointer, NEW f \in Pointer, NEW s \in Inums,
         NEW new \in BOOLEAN, NEW lk \in BOOLEAN, new => lk, NEW g \in Pointer,
         NEW how \in {"hold", "unlock", "drop", "put"}, NEW m, m = Taken(s, new, lk, g),
         mem' = Left(m, s, how), NEW t, t = LeftTrunc(m, s, how),
         Becomes(p, pl, k, c, d, i, f, t, "clear"), UNCHANGED diskVars,
         putting[p] = 0, PhaseAt(pl, k, c, d, i, f), Balanced(p, c, d, i, f, s, new, g, how)
  PROVE  MoveOf(p, pl, k, c, d, i, f, t, s, new, lk, g, how) /\ Base'
<1>1. StepOf(p, pl, k, c, d, i, f, t, s, new, lk, g, how)
  BY StepIs, SMTT(20)
<1>2. DiskTypes'
  BY DEF diskVars, Base, Types, DiskTypes
<1>3. QED BY <1>1, <1>2, StepBase DEF MoveOf

LEMMA Locals ==
  ASSUME Base, NEW p \in Procs, putting[p] = 0
  PROVE  /\ stage[p] = "clear"
         /\ pc[p] \notin Walks => cur[p] = 0
         /\ pc[p] \in UsesDp => dp[p] \in Inums
         /\ pc[p] \notin UsesDp => dp[p] = 0
         /\ pc[p] \in UsesIp => ip[p] \in Inums
         /\ pc[p] \notin UsesIp \cup {"walkp"} => ip[p] = 0
         /\ pc[p] = "walkp" /\ call[p].kind = "link" => ip[p] \in Inums
         /\ pc[p] = "walkp" /\ call[p].kind # "link" => ip[p] = 0
         /\ call[p].kind \in {"open", "creat"} => fd[p] = 0
         /\ pc[p] \notin {"idle", "w_upd"} => call[p].path \in Paths /\ call[p].new \in Paths
         /\ KindFits(call[p].kind, pc[p])
         /\ cur[p] \in Pointer /\ dp[p] \in Pointer /\ ip[p] \in Pointer /\ fd[p] \in Pointer
         /\ call[p] \in Calls /\ pc[p] \in Places
<1>1. /\ cur[p] \in Pointer /\ dp[p] \in Pointer /\ ip[p] \in Pointer /\ fd[p] \in Pointer
      /\ (dp[p] # 0 => dp[p] \in Inums) /\ (ip[p] # 0 => ip[p] \in Inums)
      /\ call[p] \in Calls /\ pc[p] \in Places /\ PhaseOf(p)
  BY Pointed
<1>2. pc[p] = "walkp" => pc[p] \notin UsesIp
  BY DEF UsesIp, Making, Links
<1>3. QED BY <1>1, <1>2 DEF PhaseOf, IpSet

LEMMA EndIs ==
  ASSUME NEW p \in Procs, NEW f, End(p, f), NEW t, stage[p] = "clear",
         Later(p, t) \/ (t = 0 /\ putting[p] = 0 /\ UNCHANGED putVars)
  PROVE  /\ Becomes(p, "idle", NoCall, 0, 0, 0, f, t, "clear") /\ PhaseAt("idle", NoCall, 0, 0, 0, f)
         /\ "idle" \in Places /\ NoCall \in Calls /\ 0 \in Pointer
<1>1. Becomes(p, "idle", NoCall, 0, 0, 0, f, t, "clear")
  BY DEF End, Later, Becomes, Sets, Resume, putVars
<1>2. "idle" \in Places /\ NoCall \in Calls /\ 0 \in Pointer
  BY DEF Places, NoCall, Calls, CallPaths, Pointer
<1>3. PhaseAt("idle", NoCall, 0, 0, 0, f)
  BY DEF PhaseAt, IpSet, KindFits, NoCall, UsesIp, UsesDp, Making, Links, Creates, Unlinks
<1>4. QED BY <1>1, <1>2, <1>3

LEMMA OpenLockMoves ==
  ASSUME Base, NEW p \in Procs, OpenLock(p)
  PROVE  /\ Base'
         /\ \/ MoveOf(p, "idle", NoCall, 0, 0, 0, ip[p], 0, ip[p], FALSE, TRUE, 0, "unlock")
            \/ \E t : MoveOf(p, "idle", NoCall, 0, 0, 0, fd[p], t, ip[p], FALSE, TRUE, 0, "drop")
<1>1. pc[p] = "o_lock" /\ putting[p] = 0
  BY DEF OpenLock, Ready
<1>2. /\ ip[p] \in Inums /\ ip[p] \in Pointer /\ dp[p] = 0 /\ cur[p] = 0 /\ stage[p] = "clear"
      /\ fd[p] = 0 /\ fd[p] \in Pointer
  BY <1>1, Locals DEF UsesIp, UsesDp, Making, Walks, KindFits, Pointer
<1>3. PICK i, m : i = ip[p] /\ m = Locked(mem, i)
  OBVIOUS
<1>4. UNCHANGED diskVars
  BY DEF OpenLock
<1>5. m = Taken(i, FALSE, TRUE, 0)
  BY <1>3 DEF Taken, Looked
<1>6. CASE mem' = Unlocked(m, i) /\ End(p, i) /\ UNCHANGED putVars
  <2>1. mem' = Left(m, i, "unlock") /\ 0 = LeftTrunc(m, i, "unlock")
    BY <1>6 DEF Left, LeftTrunc
  <2>2. /\ Becomes(p, "idle", NoCall, 0, 0, 0, i, 0, "clear") /\ PhaseAt("idle", NoCall, 0, 0, 0, i)
        /\ "idle" \in Places /\ NoCall \in Calls /\ 0 \in Pointer
    BY <1>1, <1>2, <1>6, EndIs
  <2>3. Balanced(p, 0, 0, 0, i, i, FALSE, 0, "unlock")
    BY <1>2, <1>3, Sizes DEF Balanced, BalancedAt, One, Hit
  <2>4. MoveOf(p, "idle", NoCall, 0, 0, 0, i, 0, i, FALSE, TRUE, 0, "unlock") /\ Base'
    BY <1>1, <1>2, <1>3, <1>4, <1>5, <2>1, <2>2, <2>3, MoveIs
  <2>5. QED BY <1>3, <2>4
<1>7. CASE mem' = Dropped(m, i) /\ Later(p, DropTrunc(m, i)) /\ End(p, fd[p])
  <2>1. PICK t : mem' = Left(m, i, "drop") /\ t = LeftTrunc(m, i, "drop") /\ End(p, fd[p]) /\ Later(p, t)
    BY <1>7 DEF Left, LeftTrunc
  <2>2. /\ Becomes(p, "idle", NoCall, 0, 0, 0, fd[p], t, "clear")
        /\ PhaseAt("idle", NoCall, 0, 0, 0, fd[p])
        /\ "idle" \in Places /\ NoCall \in Calls /\ 0 \in Pointer
    BY <1>1, <1>2, <2>1, EndIs
  <2>3. Balanced(p, 0, 0, 0, fd[p], i, FALSE, 0, "drop")
    BY <1>2, <1>3, Sizes DEF Balanced, BalancedAt, One, Hit
  <2>4. MoveOf(p, "idle", NoCall, 0, 0, 0, fd[p], t, i, FALSE, TRUE, 0, "drop") /\ Base'
    BY <1>1, <1>2, <1>3, <1>4, <1>5, <2>1, <2>2, <2>3, MoveIs
  <2>5. QED BY <1>3, <2>4
<1>8. QED BY <1>3, <1>6, <1>7 DEF OpenLock, Opened

LEMMA CloseMoves ==
  ASSUME Base, NEW p \in Procs, Close(p)
  PROVE  /\ Base'
         /\ \E t : MoveOf(p, "idle", call[p], 0, 0, 0, 0, t, fd[p], FALSE, FALSE, 0, "put")
<1>1. pc[p] = "idle" /\ putting[p] = 0 /\ fd[p] # 0
  BY DEF Close, Ready
<1>2. /\ fd[p] \in Inums /\ dp[p] = 0 /\ ip[p] = 0 /\ cur[p] = 0 /\ stage[p] = "clear"
      /\ call[p] \in Calls /\ 0 \in Pointer /\ "idle" \in Places
      /\ KindFits(call[p].kind, "idle") /\ ~(call[p].kind \in {"open", "creat"})
  <2>1. pc[p] \notin Walks /\ pc[p] \notin UsesDp /\ pc[p] \notin UsesIp \cup {"walkp"}
    BY <1>1 DEF UsesIp, UsesDp, Making, Walks, Links
  <2>2. QED BY <1>1, <2>1, Locals, Pointed DEF Pointer, Places
<1>3. PICK m, t : /\ m = Taken(fd[p], FALSE, FALSE, 0) /\ t = LeftTrunc(m, fd[p], "put")
                  /\ mem' = Left(m, fd[p], "put") /\ t = Trunc(mem, fd[p])
  BY DEF Close, Left, LeftTrunc, Taken, Looked
<1>4. Becomes(p, "idle", call[p], 0, 0, 0, 0, t, "clear")
  BY <1>1, <1>2, <1>3 DEF Close, Later, Becomes, Sets
<1>5. PhaseAt("idle", call[p], 0, 0, 0, 0)
  BY <1>2 DEF PhaseAt, IpSet, UsesIp, UsesDp, Making, Links
<1>6. Balanced(p, 0, 0, 0, 0, fd[p], FALSE, 0, "put")
  BY <1>2, Sizes DEF Balanced, BalancedAt, One, Hit
<1>7. UNCHANGED diskVars
  BY DEF Close
<1>8. MoveOf(p, "idle", call[p], 0, 0, 0, 0, t, fd[p], FALSE, FALSE, 0, "put") /\ Base'
  BY <1>1, <1>2, <1>3, <1>4, <1>5, <1>6, <1>7, MoveIs
<1>9. QED BY <1>8

\* A call ends and gives up ip or dp, whose lock it has, takes, or does without.
LEMMA LinkEndMoves ==
  ASSUME Base, NEW p \in Procs, LinkEnd(p)
  PROVE  /\ Base'
         /\ \E t : MoveOf(p, "idle", NoCall, 0, 0, 0, fd[p], t, ip[p], FALSE, FALSE, 0, "put")
<1>1. pc[p] = "l_end" /\ putting[p] = 0
  BY DEF LinkEnd, Ready
<1>2. /\ ip[p] \in Inums /\ dp[p] = 0 /\ cur[p] = 0 /\ stage[p] = "clear" /\ fd[p] \in Pointer
  BY <1>1, Locals DEF UsesIp, UsesDp, Making, Walks, Links
<1>3. PICK m, t : /\ m = Taken(ip[p], FALSE, FALSE, 0) /\ t = LeftTrunc(m, ip[p], "put")
                  /\ mem' = Left(m, ip[p], "put") /\ t = Trunc(mem, ip[p])
  BY DEF LinkEnd, Left, LeftTrunc, Taken, Looked
<1>4. /\ Becomes(p, "idle", NoCall, 0, 0, 0, fd[p], t, "clear") /\ PhaseAt("idle", NoCall, 0, 0, 0, fd[p])
      /\ "idle" \in Places /\ NoCall \in Calls /\ 0 \in Pointer
  BY <1>1, <1>2, <1>3, EndIs DEF LinkEnd
<1>5. Balanced(p, 0, 0, 0, fd[p], ip[p], FALSE, 0, "put")
  BY <1>2, Sizes DEF Balanced, BalancedAt, One, Hit
<1>6. UNCHANGED diskVars
  BY DEF LinkEnd
<1>7. MoveOf(p, "idle", NoCall, 0, 0, 0, fd[p], t, ip[p], FALSE, FALSE, 0, "put") /\ Base'
  BY <1>1, <1>2, <1>3, <1>4, <1>5, <1>6, MoveIs, Zenon
<1>8. QED BY <1>7

-----------------------------------------------------------------------------
(* What a directory names. *)

LEMMA EntryIs ==
  ASSUME DiskTypes, NEW m, CacheOK(m), NEW i \in Inums, NEW n, Where(m, i, n) # {}
  PROVE  /\ Entry(m, i, n) \in Inums /\ m[i].ino.blk \in Blocks
         /\ First(Where(m, i, n)) \in Where(m, i, n) /\ First(Where(m, i, n)) \in 1..Slots
         /\ content[m[i].ino.blk].ent[First(Where(m, i, n))] \in Names \X Inums
<1>1. PICK b : b = m[i].ino.blk
  OBVIOUS
<1>2. m[i].ino \in Inode
  BY SlotIs
<1>3. b \in {0} \cup Blocks
  BY <1>1, <1>2 DEF Inode
<1>4. b # 0 /\ Where(m, i, n) = {s \in 1..Slots : content[b].ent[s] # NoEnt
                                                 /\ content[b].ent[s][1] = n}
  BY <1>1 DEF Where, Ino
<1>5. PICK S : S = Where(m, i, n)
  OBVIOUS
<1>6. S \in SUBSET Nat /\ S # {}
  BY <1>4, <1>5, Sizes
<1>7. PICK s : s = First(S)
  OBVIOUS
<1>8. s \in S
  BY <1>6, <1>7, FirstFound
<1>9. s \in 1..Slots /\ content[b].ent[s] # NoEnt
  BY <1>4, <1>5, <1>8
<1>10. PICK x \in DirBlock : x = content[b]
  BY <1>3, <1>4 DEF DiskTypes
<1>11. x.ent[s] \in {NoEnt} \cup (Names \X Inums)
  BY <1>9 DEF DirBlock
<1>12. content[b].ent[s] \in Names \X Inums
  BY <1>9, <1>10, <1>11
<1>13. Entry(m, i, n) = content[b].ent[s][2]
  BY <1>1, <1>5, <1>7 DEF Entry, Ino
<1>14. content[b].ent[s][2] \in Inums
  BY <1>12
<1>15. QED BY <1>1, <1>3, <1>4, <1>5, <1>7, <1>8, <1>9, <1>12, <1>13, <1>14, Zenon

LEMMA LookedOK ==
  ASSUME Base, NEW s \in Inums, NEW new \in BOOLEAN, NEW lk \in BOOLEAN, new => lk
  PROVE  CacheOK(Looked(s, new, lk))
BY LookIs DEF Base, Types

-----------------------------------------------------------------------------
(* The steps of create that write nothing. *)

LEMMA CreateLockMoves ==
  ASSUME Base, NEW p \in Procs, CreateLock(p)
  PROVE  /\ Base'
         /\ \/ /\ MoveOf(p, "c_alloc", call[p], 0, dp[p], 0, fd[p], 0, dp[p], FALSE, TRUE, 0, "hold")
               /\ Where(Locked(mem, dp[p]), dp[p], NameOf(p)) = {}
            \/ \E g, t :
               /\ g \in Inums
               /\ Finds(Locked(mem, dp[p]), dp[p], NameOf(p), g)
                  \/ Ino(Locked(mem, dp[p]), dp[p]).type # "dir"
               /\ g = Entry(Locked(mem, dp[p]), dp[p], NameOf(p))
               /\ MoveOf(p, "c_exist", call[p], 0, 0, g, fd[p], t, dp[p], FALSE, TRUE, g, "drop")
<1>1. pc[p] = "c_lock" /\ putting[p] = 0
  BY DEF CreateLock, Ready
<1>2. /\ dp[p] \in Inums /\ dp[p] \in Pointer /\ ip[p] = 0 /\ cur[p] = 0 /\ stage[p] = "clear"
      /\ fd[p] \in Pointer /\ call[p] \in Calls /\ 0 \in Pointer /\ call[p].kind \in {"creat", "mkdir"}
      /\ (call[p].kind \in {"open", "creat"} => fd[p] = 0)
      /\ call[p].path \in Paths /\ call[p].new \in Paths
  BY <1>1, Locals DEF UsesIp, UsesDp, Making, Walks, Links, KindFits, Creates, Pointer
<1>3. PICK d, L, n : d = dp[p] /\ L = Locked(mem, d) /\ n = NameOf(p)
  OBVIOUS
<1>4. UNCHANGED diskVars
  BY DEF CreateLock
<1>5. CASE Where(L, d, n) = {}
  <2>1. /\ L = Taken(d, FALSE, TRUE, 0) /\ mem' = Left(L, d, "hold") /\ 0 = LeftTrunc(L, d, "hold")
    BY <1>3, <1>5 DEF CreateLock, Left, LeftTrunc, Taken, Looked
  <2>2. Becomes(p, "c_alloc", call[p], 0, d, 0, fd[p], 0, "clear")
    BY <1>1, <1>2, <1>3, <1>5 DEF CreateLock, Resume, Becomes, Sets, putVars
  <2>3. PhaseAt("c_alloc", call[p], 0, d, 0, fd[p]) /\ "c_alloc" \in Places
    BY <1>2, <1>3, Sizes
    DEF PhaseAt, IpSet, KindFits, UsesIp, UsesDp, Making, Links, Creates, Unlinks, Places
  <2>4. Balanced(p, 0, d, 0, fd[p], d, FALSE, 0, "hold")
    BY <1>2, <1>3, Sizes DEF Balanced, BalancedAt, One, Hit
  <2>5. MoveOf(p, "c_alloc", call[p], 0, d, 0, fd[p], 0, d, FALSE, TRUE, 0, "hold") /\ Base'
    BY <1>1, <1>2, <1>3, <1>4, <2>1, <2>2, <2>3, <2>4, MoveIs
  <2>6. QED BY <1>3, <1>5, <2>5
<1>6. CASE Where(L, d, n) # {}
  <2>1. CacheOK(L)
    BY <1>2, <1>3, LockedIs DEF LockRel, Base, Types, CacheTypes, CacheOK
  <2>2. PICK g \in Inums : g = Entry(L, d, n)
    BY <1>2, <1>3, <1>6, <2>1, EntryIs DEF Base, Types
  <2>3. PICK m, t : /\ m = Taken(d, FALSE, TRUE, g) /\ t = LeftTrunc(m, d, "drop")
                    /\ mem' = Left(m, d, "drop") /\ Later(p, t)
    BY <1>3, <1>6, <2>2, Sizes
    DEF CreateLock, Left, LeftTrunc, Taken, Looked, DropParent
  <2>4. Becomes(p, "c_exist", call[p], 0, 0, g, fd[p], t, "clear")
    BY <1>1, <1>2, <1>3, <1>6, <2>2, <2>3 DEF CreateLock, Later, Resume, Becomes, Sets
  <2>5. PhaseAt("c_exist", call[p], 0, 0, g, fd[p]) /\ "c_exist" \in Places /\ g \in Pointer
    BY <1>2, Sizes
    DEF PhaseAt, IpSet, KindFits, UsesIp, UsesDp, Making, Links, Creates, Unlinks, Places, Pointer
  <2>6. Balanced(p, 0, 0, g, fd[p], d, FALSE, g, "drop")
    BY <1>2, <1>3, Sizes DEF Balanced, BalancedAt, One, Hit
  <2>7. MoveOf(p, "c_exist", call[p], 0, 0, g, fd[p], t, d, FALSE, TRUE, g, "drop") /\ Base'
    BY <1>1, <1>2, <1>3, <1>4, <2>3, <2>4, <2>5, <2>6, MoveIs
  <2>8. Finds(L, d, n, g) \/ Ino(L, d).type # "dir"
    BY <1>6, <2>2 DEF Finds
  <2>9. QED BY <1>3, <2>2, <2>7, <2>8
<1>7. QED BY <1>5, <1>6

LEMMA CreateExistsMoves ==
  ASSUME Base, NEW p \in Procs, CreateExists(p)
  PROVE  /\ Base'
         /\ \/ MoveOf(p, "idle", NoCall, 0, 0, 0, ip[p], 0, ip[p], FALSE, TRUE, 0, "unlock")
            \/ \E t : MoveOf(p, "idle", NoCall, 0, 0, 0, fd[p], t, ip[p], FALSE, TRUE, 0, "drop")
<1>1. pc[p] = "c_exist" /\ putting[p] = 0
  BY DEF CreateExists, Ready
<1>2. /\ ip[p] \in Inums /\ ip[p] \in Pointer /\ dp[p] = 0 /\ cur[p] = 0 /\ stage[p] = "clear"
      /\ fd[p] \in Pointer /\ (call[p].kind = "creat" => fd[p] = 0)
  BY <1>1, Locals DEF UsesIp, UsesDp, Making, Walks, Links, Pointer
<1>3. PICK i, m : i = ip[p] /\ m = Locked(mem, i)
  OBVIOUS
<1>4. UNCHANGED diskVars
  BY DEF CreateExists
<1>5. m = Taken(i, FALSE, TRUE, 0)
  BY <1>3 DEF Taken, Looked
<1>6. CASE call[p].kind = "creat" /\ mem' = Unlocked(m, i) /\ End(p, i) /\ UNCHANGED putVars
  <2>1. mem' = Left(m, i, "unlock") /\ 0 = LeftTrunc(m, i, "unlock") /\ End(p, i) /\ UNCHANGED putVars
    BY <1>6 DEF Left, LeftTrunc
  <2>2. /\ Becomes(p, "idle", NoCall, 0, 0, 0, i, 0, "clear") /\ PhaseAt("idle", NoCall, 0, 0, 0, i)
        /\ "idle" \in Places /\ NoCall \in Calls /\ 0 \in Pointer
    BY <1>1, <1>2, <2>1, EndIs
  <2>3. Balanced(p, 0, 0, 0, i, i, FALSE, 0, "unlock")
    BY <1>2, <1>3, <1>6, Sizes DEF Balanced, BalancedAt, One, Hit
  <2>4. MoveOf(p, "idle", NoCall, 0, 0, 0, i, 0, i, FALSE, TRUE, 0, "unlock") /\ Base'
    BY <1>1, <1>2, <1>3, <1>4, <1>5, <2>1, <2>2, <2>3, MoveIs
  <2>5. QED BY <1>3, <2>4
<1>7. CASE mem' = Dropped(m, i) /\ Later(p, DropTrunc(m, i)) /\ End(p, fd[p])
  <2>1. PICK t : mem' = Left(m, i, "drop") /\ t = LeftTrunc(m, i, "drop") /\ End(p, fd[p]) /\ Later(p, t)
    BY <1>7 DEF Left, LeftTrunc
  <2>2. /\ Becomes(p, "idle", NoCall, 0, 0, 0, fd[p], t, "clear")
        /\ PhaseAt("idle", NoCall, 0, 0, 0, fd[p])
        /\ "idle" \in Places /\ NoCall \in Calls /\ 0 \in Pointer
    BY <1>1, <1>2, <2>1, EndIs
  <2>3. Balanced(p, 0, 0, 0, fd[p], i, FALSE, 0, "drop")
    BY <1>2, <1>3, Sizes DEF Balanced, BalancedAt, One, Hit
  <2>4. MoveOf(p, "idle", NoCall, 0, 0, 0, fd[p], t, i, FALSE, TRUE, 0, "drop") /\ Base'
    BY <1>1, <1>2, <1>3, <1>4, <1>5, <2>1, <2>2, <2>3, MoveIs
  <2>5. QED BY <1>3, <2>4
<1>8. QED BY <1>3, <1>6, <1>7 DEF CreateExists, Opened

LEMMA CreateEndMoves ==
  ASSUME Base, NEW p \in Procs, CreateEnd(p)
  PROVE  /\ Base'
         /\ \/ MoveOf(p, "idle", NoCall, 0, 0, 0, ip[p], 0, ip[p], FALSE, FALSE, 0, "unlock")
            \/ \E t : MoveOf(p, "idle", NoCall, 0, 0, 0, fd[p], t, ip[p], FALSE, FALSE, 0, "drop")
<1>1. pc[p] = "c_end" /\ putting[p] = 0
  BY DEF CreateEnd, Ready
<1>2. /\ ip[p] \in Inums /\ ip[p] \in Pointer /\ dp[p] = 0 /\ cur[p] = 0 /\ stage[p] = "clear"
      /\ fd[p] \in Pointer /\ (call[p].kind = "creat" => fd[p] = 0)
  BY <1>1, Locals DEF UsesIp, UsesDp, Making, Walks, Links, Pointer
<1>3. PICK i, m : i = ip[p] /\ m = mem
  OBVIOUS
<1>4. UNCHANGED diskVars
  BY DEF CreateEnd
<1>5. m = Taken(i, FALSE, FALSE, 0)
  BY <1>3 DEF Taken, Looked
<1>6. CASE call[p].kind = "creat" /\ mem' = Unlocked(m, i) /\ End(p, i) /\ UNCHANGED putVars
  <2>1. mem' = Left(m, i, "unlock") /\ 0 = LeftTrunc(m, i, "unlock") /\ End(p, i) /\ UNCHANGED putVars
    BY <1>6 DEF Left, LeftTrunc
  <2>2. /\ Becomes(p, "idle", NoCall, 0, 0, 0, i, 0, "clear") /\ PhaseAt("idle", NoCall, 0, 0, 0, i)
        /\ "idle" \in Places /\ NoCall \in Calls /\ 0 \in Pointer
    BY <1>1, <1>2, <2>1, EndIs
  <2>3. Balanced(p, 0, 0, 0, i, i, FALSE, 0, "unlock")
    BY <1>2, <1>3, <1>6, Sizes DEF Balanced, BalancedAt, One, Hit
  <2>4. MoveOf(p, "idle", NoCall, 0, 0, 0, i, 0, i, FALSE, FALSE, 0, "unlock") /\ Base'
    BY <1>1, <1>2, <1>3, <1>4, <1>5, <2>1, <2>2, <2>3, MoveIs
  <2>5. QED BY <1>3, <2>4
<1>7. CASE mem' = Dropped(m, i) /\ Later(p, DropTrunc(m, i)) /\ End(p, fd[p])
  <2>1. PICK t : mem' = Left(m, i, "drop") /\ t = LeftTrunc(m, i, "drop") /\ End(p, fd[p]) /\ Later(p, t)
    BY <1>7 DEF Left, LeftTrunc
  <2>2. /\ Becomes(p, "idle", NoCall, 0, 0, 0, fd[p], t, "clear")
        /\ PhaseAt("idle", NoCall, 0, 0, 0, fd[p])
        /\ "idle" \in Places /\ NoCall \in Calls /\ 0 \in Pointer
    BY <1>1, <1>2, <2>1, EndIs
  <2>3. Balanced(p, 0, 0, 0, fd[p], i, FALSE, 0, "drop")
    BY <1>2, <1>3, Sizes DEF Balanced, BalancedAt, One, Hit
  <2>4. MoveOf(p, "idle", NoCall, 0, 0, 0, fd[p], t, i, FALSE, FALSE, 0, "drop") /\ Base'
    BY <1>1, <1>2, <1>3, <1>4, <1>5, <2>1, <2>2, <2>3, MoveIs
  <2>5. QED BY <1>3, <2>4
<1>8. QED BY <1>3, <1>6, <1>7 DEF CreateEnd, Opened

-----------------------------------------------------------------------------
(* The steps of link and unlink that write nothing. *)

LEMMA LinkOldMoves ==
  ASSUME Base, NEW p \in Procs, LinkOld(p), Ino(Locked(mem, ip[p]), ip[p]).type = "dir"
  PROVE  /\ Base'
         /\ \E t : MoveOf(p, "idle", NoCall, 0, 0, 0, fd[p], t, ip[p], FALSE, TRUE, 0, "drop")
<1>1. pc[p] = "l_old" /\ putting[p] = 0
  BY DEF LinkOld, Ready
<1>2. /\ ip[p] \in Inums /\ ip[p] \in Pointer /\ dp[p] = 0 /\ cur[p] = 0 /\ stage[p] = "clear"
      /\ fd[p] \in Pointer
  BY <1>1, Locals DEF UsesIp, UsesDp, Making, Walks, Links, Pointer
<1>3. PICK i, m : i = ip[p] /\ m = Locked(mem, i)
  OBVIOUS
<1>4. UNCHANGED diskVars
  BY DEF LinkOld, diskVars
<1>5. m = Taken(i, FALSE, TRUE, 0)
  BY <1>3 DEF Taken, Looked
<1>6. PICK t : mem' = Left(m, i, "drop") /\ t = LeftTrunc(m, i, "drop") /\ End(p, fd[p]) /\ Later(p, t)
  BY <1>3 DEF LinkOld, Left, LeftTrunc
<1>7. /\ Becomes(p, "idle", NoCall, 0, 0, 0, fd[p], t, "clear") /\ PhaseAt("idle", NoCall, 0, 0, 0, fd[p])
      /\ "idle" \in Places /\ NoCall \in Calls /\ 0 \in Pointer
  BY <1>1, <1>2, <1>6, EndIs
<1>8. Balanced(p, 0, 0, 0, fd[p], i, FALSE, 0, "drop")
  BY <1>2, <1>3, Sizes DEF Balanced, BalancedAt, One, Hit
<1>9. MoveOf(p, "idle", NoCall, 0, 0, 0, fd[p], t, i, FALSE, TRUE, 0, "drop") /\ Base'
  BY <1>1, <1>2, <1>3, <1>4, <1>5, <1>6, <1>7, <1>8, MoveIs
<1>10. QED BY <1>3, <1>9

\* What is known at a place of link that has dp and ip.
LEMMA LinkLocals ==
  ASSUME Base, NEW p \in Procs, putting[p] = 0, pc[p] \in {"l_new", "l_link", "l_size"}
  PROVE  /\ dp[p] \in Inums /\ ip[p] \in Inums /\ dp[p] \in Pointer /\ ip[p] \in Pointer
         /\ cur[p] = 0 /\ stage[p] = "clear" /\ fd[p] \in Pointer /\ 0 \in Pointer
         /\ call[p] \in Calls /\ call[p].kind = "link" /\ call[p].path \in Paths
         /\ call[p].new \in Paths
BY Locals DEF UsesIp, UsesDp, Making, Walks, Links, KindFits, Pointer

LEMMA LinkPhases ==
  ASSUME NEW k, k.kind = "link", k.path \in Paths, k.new \in Paths, NEW i \in Inums, NEW f
  PROVE  /\ \A d \in Inums, pl \in {"l_link", "l_size"} : PhaseAt(pl, k, 0, d, i, f)
         /\ PhaseAt("l_bad", k, 0, 0, i, f) /\ PhaseAt("l_end", k, 0, 0, i, f)
         /\ PhaseAt("walkp", k, 0, 0, i, f)
         /\ {"l_link", "l_size", "l_bad", "l_end", "walkp"} \subseteq Places
BY Sizes DEF PhaseAt, IpSet, KindFits, UsesIp, UsesDp, Making, Links, Creates, Unlinks, Places, Walks

LEMMA LinkNewMoves ==
  ASSUME Base, NEW p \in Procs, LinkNew(p)
  PROVE  /\ Base'
         /\ \E t : MoveOf(p, "l_bad", call[p], 0, 0, ip[p], fd[p], t, dp[p], FALSE, TRUE, 0, "drop")
<1>1. pc[p] = "l_new" /\ putting[p] = 0
  BY DEF LinkNew, Ready
<1>2. /\ dp[p] \in Inums /\ ip[p] \in Inums /\ dp[p] \in Pointer /\ ip[p] \in Pointer
      /\ cur[p] = 0 /\ stage[p] = "clear" /\ fd[p] \in Pointer /\ 0 \in Pointer
      /\ call[p] \in Calls /\ call[p].kind = "link" /\ call[p].path \in Paths
      /\ call[p].new \in Paths
  BY <1>1, LinkLocals
<1>3. PICK d, m : d = dp[p] /\ m = Locked(mem, d)
  OBVIOUS
<1>4. UNCHANGED diskVars
  BY DEF LinkNew
<1>5. m = Taken(d, FALSE, TRUE, 0)
  BY <1>3 DEF Taken, Looked
<1>6. PICK t : mem' = Left(m, d, "drop") /\ t = LeftTrunc(m, d, "drop") /\ Later(p, t)
  BY <1>3 DEF LinkNew, Left, LeftTrunc
<1>7. Becomes(p, "l_bad", call[p], 0, 0, ip[p], fd[p], t, "clear")
  BY <1>1, <1>2, <1>6 DEF LinkNew, Later, Becomes, Sets, Resume
<1>8. PhaseAt("l_bad", call[p], 0, 0, ip[p], fd[p]) /\ "l_bad" \in Places
  BY <1>2, LinkPhases
<1>9. Balanced(p, 0, 0, ip[p], fd[p], d, FALSE, 0, "drop")
  BY <1>2, <1>3, Sizes DEF Balanced, BalancedAt, One, Hit
<1>10. MoveOf(p, "l_bad", call[p], 0, 0, ip[p], fd[p], t, d, FALSE, TRUE, 0, "drop") /\ Base'
  BY <1>1, <1>2, <1>3, <1>4, <1>5, <1>6, <1>7, <1>8, <1>9, MoveIs
<1>11. QED BY <1>3, <1>10

LEMMA LinkNewLockMoves ==
  ASSUME Base, NEW p \in Procs, LinkNewLock(p)
  PROVE  /\ MoveOf(p, "l_link", call[p], 0, dp[p], ip[p], fd[p], 0, dp[p], FALSE, TRUE, 0, "hold")
         /\ Base'
<1>1. pc[p] = "l_new" /\ putting[p] = 0
  BY DEF LinkNewLock, Ready
<1>2. /\ dp[p] \in Inums /\ ip[p] \in Inums /\ dp[p] \in Pointer /\ ip[p] \in Pointer
      /\ cur[p] = 0 /\ stage[p] = "clear" /\ fd[p] \in Pointer /\ 0 \in Pointer
      /\ call[p] \in Calls /\ call[p].kind = "link" /\ call[p].path \in Paths
      /\ call[p].new \in Paths
  BY <1>1, LinkLocals
<1>3. PICK d, m : d = dp[p] /\ m = Locked(mem, d)
  OBVIOUS
<1>4. UNCHANGED diskVars
  BY DEF LinkNewLock
<1>5. m = Taken(d, FALSE, TRUE, 0) /\ mem' = Left(m, d, "hold") /\ 0 = LeftTrunc(m, d, "hold")
  BY <1>3 DEF LinkNewLock, Taken, Looked, Left, LeftTrunc
<1>6. Becomes(p, "l_link", call[p], 0, d, ip[p], fd[p], 0, "clear")
  BY <1>1, <1>2, <1>3 DEF LinkNewLock, Becomes, Sets, Resume, locals, putVars
<1>7. PhaseAt("l_link", call[p], 0, d, ip[p], fd[p]) /\ "l_link" \in Places
  BY <1>2, <1>3, LinkPhases
<1>8. Balanced(p, 0, d, ip[p], fd[p], d, FALSE, 0, "hold")
  BY <1>2, <1>3, Sizes DEF Balanced, BalancedAt, One, Hit
<1>9. MoveOf(p, "l_link", call[p], 0, d, ip[p], fd[p], 0, d, FALSE, TRUE, 0, "hold") /\ Base'
  BY <1>1, <1>2, <1>3, <1>4, <1>5, <1>6, <1>7, <1>8, MoveIs
<1>10. QED BY <1>3, <1>9

LEMMA UnlinkLocals ==
  ASSUME Base, NEW p \in Procs, putting[p] = 0, pc[p] \in {"u_lock", "u_ip", "u_fail", "u_dp"}
  PROVE  /\ dp[p] \in Inums /\ dp[p] \in Pointer /\ (pc[p] \in {"u_ip", "u_dp"} => ip[p] \in Inums)
         /\ (pc[p] \in {"u_lock", "u_fail"} => ip[p] = 0)
         /\ ip[p] \in Pointer
         /\ cur[p] = 0 /\ stage[p] = "clear" /\ fd[p] \in Pointer /\ 0 \in Pointer
         /\ call[p] \in Calls /\ call[p].kind = "unlink" /\ call[p].path \in Paths
         /\ call[p].new \in Paths
BY Locals DEF UsesIp, UsesDp, Making, Walks, Links, KindFits, Unlinks, Pointer

LEMMA UnlinkPhases ==
  ASSUME NEW k, k.kind = "unlink", k.path \in Paths, k.new \in Paths, NEW d \in Inums, NEW f
  PROVE  /\ PhaseAt("u_fail", k, 0, d, 0, f)
         /\ \A i \in Inums : PhaseAt("u_ip", k, 0, d, i, f) /\ PhaseAt("u_dp", k, 0, d, i, f)
                             /\ PhaseAt("u_nlink", k, 0, 0, i, f)
         /\ {"u_ip", "u_fail", "u_dp", "u_nlink"} \subseteq Places
BY Sizes DEF PhaseAt, IpSet, KindFits, UsesIp, UsesDp, Making, Links, Creates, Unlinks, Places, Walks

LEMMA UnlinkLookupMoves ==
  ASSUME Base, NEW p \in Procs, UnlinkLookup(p)
  PROVE  /\ Base'
         /\ \/ \E t : MoveOf(p, "idle", NoCall, 0, 0, 0, fd[p], t, dp[p], FALSE, TRUE, 0, "drop")
            \/ \E g \in Inums :
               /\ Where(Locked(mem, dp[p]), dp[p], NameOf(p)) # {}
               /\ g = Entry(Locked(mem, dp[p]), dp[p], NameOf(p))
               /\ MoveOf(p, "u_ip", call[p], 0, dp[p], g, fd[p], 0, dp[p], FALSE, TRUE, g, "hold")
<1>1. pc[p] = "u_lock" /\ putting[p] = 0
  BY DEF UnlinkLookup, Ready
<1>2. /\ dp[p] \in Inums /\ dp[p] \in Pointer /\ ip[p] = 0
      /\ cur[p] = 0 /\ stage[p] = "clear" /\ fd[p] \in Pointer /\ 0 \in Pointer
      /\ call[p] \in Calls /\ call[p].kind = "unlink" /\ call[p].path \in Paths
      /\ call[p].new \in Paths
  BY <1>1, UnlinkLocals
<1>3. PICK d, L, n : d = dp[p] /\ L = Locked(mem, d) /\ n = NameOf(p)
  OBVIOUS
<1>4. UNCHANGED diskVars
  BY DEF UnlinkLookup
<1>5. CASE Where(L, d, n) = {}
  <2>1. L = Taken(d, FALSE, TRUE, 0)
    BY <1>3 DEF Taken, Looked
  <2>2. PICK t : mem' = Left(L, d, "drop") /\ t = LeftTrunc(L, d, "drop") /\ End(p, fd[p]) /\ Later(p, t)
    BY <1>3, <1>5 DEF UnlinkLookup, Left, LeftTrunc
  <2>3. /\ Becomes(p, "idle", NoCall, 0, 0, 0, fd[p], t, "clear")
        /\ PhaseAt("idle", NoCall, 0, 0, 0, fd[p])
        /\ "idle" \in Places /\ NoCall \in Calls /\ 0 \in Pointer
    BY <1>1, <1>2, <2>2, EndIs
  <2>4. Balanced(p, 0, 0, 0, fd[p], d, FALSE, 0, "drop")
    BY <1>2, <1>3, Sizes DEF Balanced, BalancedAt, One, Hit
  <2>5. MoveOf(p, "idle", NoCall, 0, 0, 0, fd[p], t, d, FALSE, TRUE, 0, "drop") /\ Base'
    BY <1>1, <1>2, <1>3, <1>4, <2>1, <2>2, <2>3, <2>4, MoveIs
  <2>6. QED BY <1>3, <2>5
<1>6. CASE Where(L, d, n) # {}
  <2>1. CacheOK(L)
    BY <1>2, <1>3, LockedIs DEF LockRel, Base, Types, CacheTypes, CacheOK
  <2>2. PICK g \in Inums : g = Entry(L, d, n)
    BY <1>2, <1>3, <1>6, <2>1, EntryIs DEF Base, Types
  <2>3. PICK m : /\ m = Taken(d, FALSE, TRUE, g) /\ 0 = LeftTrunc(m, d, "hold")
                 /\ mem' = Left(m, d, "hold")
    BY <1>3, <1>6, <2>2, Sizes DEF UnlinkLookup, Left, LeftTrunc, Taken, Looked
  <2>4. Becomes(p, "u_ip", call[p], 0, d, g, fd[p], 0, "clear")
    BY <1>1, <1>2, <1>3, <1>6, <2>2 DEF UnlinkLookup, Resume, Becomes, Sets, putVars
  <2>5. PhaseAt("u_ip", call[p], 0, d, g, fd[p]) /\ "u_ip" \in Places /\ g \in Pointer
    BY <1>2, <1>3, UnlinkPhases DEF Pointer
  <2>6. Balanced(p, 0, d, g, fd[p], d, FALSE, g, "hold")
    BY <1>2, <1>3, Sizes DEF Balanced, BalancedAt, One, Hit
  <2>7. MoveOf(p, "u_ip", call[p], 0, d, g, fd[p], 0, d, FALSE, TRUE, g, "hold") /\ Base'
    BY <1>1, <1>2, <1>3, <1>4, <2>3, <2>4, <2>5, <2>6, MoveIs
  <2>8. QED BY <1>3, <1>6, <2>2, <2>7
<1>7. QED BY <1>5, <1>6

LEMMA UnlinkEntryMoves ==
  ASSUME Base, NEW p \in Procs, UnlinkEntry(p), Ino(Locked(mem, ip[p]), ip[p]).type = "dir",
         ~Empty(Locked(mem, ip[p]), ip[p])
  PROVE  /\ Base'
         /\ \E t : MoveOf(p, "u_fail", call[p], 0, dp[p], 0, fd[p], t, ip[p], FALSE, TRUE, 0, "drop")
<1>1. pc[p] = "u_ip" /\ putting[p] = 0
  BY DEF UnlinkEntry, Ready
<1>2. /\ dp[p] \in Inums /\ dp[p] \in Pointer /\ ip[p] \in Inums /\ ip[p] \in Pointer
      /\ cur[p] = 0 /\ stage[p] = "clear" /\ fd[p] \in Pointer /\ 0 \in Pointer
      /\ call[p] \in Calls /\ call[p].kind = "unlink" /\ call[p].path \in Paths
      /\ call[p].new \in Paths
  BY <1>1, UnlinkLocals
<1>3. PICK i, m : i = ip[p] /\ m = Locked(mem, i)
  OBVIOUS
<1>4. UNCHANGED diskVars
  BY DEF UnlinkEntry, diskVars
<1>5. m = Taken(i, FALSE, TRUE, 0)
  BY <1>3 DEF Taken, Looked
<1>6. PICK t : mem' = Left(m, i, "drop") /\ t = LeftTrunc(m, i, "drop") /\ Later(p, t)
  BY <1>3 DEF UnlinkEntry, Left, LeftTrunc
<1>7. Becomes(p, "u_fail", call[p], 0, dp[p], 0, fd[p], t, "clear")
  BY <1>1, <1>2, <1>3, <1>6 DEF UnlinkEntry, Later, Becomes, Sets, Resume
<1>8. PhaseAt("u_fail", call[p], 0, dp[p], 0, fd[p]) /\ "u_fail" \in Places
  BY <1>2, UnlinkPhases
<1>9. Balanced(p, 0, dp[p], 0, fd[p], i, FALSE, 0, "drop")
  BY <1>2, <1>3, Sizes DEF Balanced, BalancedAt, One, Hit
<1>10. MoveOf(p, "u_fail", call[p], 0, dp[p], 0, fd[p], t, i, FALSE, TRUE, 0, "drop") /\ Base'
  BY <1>1, <1>2, <1>3, <1>4, <1>5, <1>6, <1>7, <1>8, <1>9, MoveIs
<1>11. QED BY <1>3, <1>10

LEMMA UnlinkFailMoves ==
  ASSUME Base, NEW p \in Procs, UnlinkFail(p)
  PROVE  /\ Base'
         /\ \E t : MoveOf(p, "idle", NoCall, 0, 0, 0, fd[p], t, dp[p], FALSE, FALSE, 0, "drop")
<1>1. pc[p] = "u_fail" /\ putting[p] = 0
  BY DEF UnlinkFail, Ready
<1>2. /\ dp[p] \in Inums /\ ip[p] = 0 /\ cur[p] = 0 /\ stage[p] = "clear" /\ fd[p] \in Pointer
  BY <1>1, UnlinkLocals
<1>3. PICK d, m : d = dp[p] /\ m = mem
  OBVIOUS
<1>4. UNCHANGED diskVars
  BY DEF UnlinkFail
<1>5. m = Taken(d, FALSE, FALSE, 0)
  BY <1>3 DEF Taken, Looked
<1>6. PICK t : mem' = Left(m, d, "drop") /\ t = LeftTrunc(m, d, "drop") /\ End(p, fd[p]) /\ Later(p, t)
  BY <1>3 DEF UnlinkFail, Left, LeftTrunc
<1>7. /\ Becomes(p, "idle", NoCall, 0, 0, 0, fd[p], t, "clear") /\ PhaseAt("idle", NoCall, 0, 0, 0, fd[p])
      /\ "idle" \in Places /\ NoCall \in Calls /\ 0 \in Pointer
  BY <1>1, <1>2, <1>6, EndIs
<1>8. Balanced(p, 0, 0, 0, fd[p], d, FALSE, 0, "drop")
  BY <1>2, <1>3, Sizes DEF Balanced, BalancedAt, One, Hit
<1>9. MoveOf(p, "idle", NoCall, 0, 0, 0, fd[p], t, d, FALSE, FALSE, 0, "drop") /\ Base'
  BY <1>1, <1>2, <1>3, <1>4, <1>5, <1>6, <1>7, <1>8, MoveIs
<1>10. QED BY <1>3, <1>9

-----------------------------------------------------------------------------
(* One turn of namex, at inode s, which is new when s is the root. *)

LEMMA WalkStarts ==
  ASSUME Base, NEW p \in Procs, Walk(p), NEW s, s = (IF cur[p] = 0 THEN root ELSE cur[p]),
         NEW new, new = (cur[p] = 0)
  PROVE  WalkFrom(p, s, new)
<1>1. pc[p] \in Walks /\ putting[p] = 0
  BY DEF Walk, Ready, Walks
<1>2. pc[p] \notin {"idle", "w_upd"} /\ pc[p] \notin UsesDp /\ pc[p] \notin UsesIp
  BY <1>1 DEF Walks, UsesDp, UsesIp, Making, Links
<1>3. /\ dp[p] = 0 /\ stage[p] = "clear" /\ fd[p] \in Pointer /\ ip[p] \in Pointer
      /\ call[p] \in Calls /\ call[p].path \in Paths /\ call[p].new \in Paths
      /\ KindFits(call[p].kind, pc[p]) /\ pc[p] \in Places
      /\ (pc[p] = "walkp" => (call[p].kind = "link" <=> ip[p] # 0))
      /\ (pc[p] = "walk" => ip[p] = 0)
      /\ (call[p].kind \in {"open", "creat"} => fd[p] = 0)
  BY <1>1, <1>2, Locals, Sizes
<1>4. cur[p] # 0 => cur[p] \in Inums
  BY Pointed
<1>5. s \in Inums /\ s \in Pointer /\ new \in BOOLEAN /\ 0 \in Pointer
  BY <1>4, Sizes DEF Pointer
<1>6. QED BY <1>1, <1>3, <1>5 DEF WalkFrom, KindFits

LEMMA WalkIs ==
  ASSUME NEW p \in Procs, NEW s, NEW new, WalkFrom(p, s, new), NEW pl \in Places, NEW k \in Calls,
         NEW c \in Pointer, NEW d \in Pointer, NEW i \in Pointer, NEW g \in Pointer,
         NEW how \in {"unlock", "drop"}, NEW m, m = Taken(s, new, TRUE, g), mem' = Left(m, s, how),
         NEW t, t = LeftTrunc(m, s, how), Becomes(p, pl, k, c, d, i, fd[p], t, "clear"),
         UNCHANGED diskVars, PhaseAt(pl, k, c, d, i, fd[p]),
         Balanced(p, c, d, i, fd[p], s, new, g, how)
  PROVE  MoveOf(p, pl, k, c, d, i, fd[p], t, s, new, TRUE, g, how) /\ Base'
<1>1. Base /\ putting[p] = 0 /\ s \in Inums /\ new \in BOOLEAN /\ fd[p] \in Pointer
  BY DEF WalkFrom
<1>2. how \in {"hold", "unlock", "drop", "put"}
  OBVIOUS
<1>3. Visits(s, new, TRUE, g, how, t)
  BY <1>1, <1>2, VisitIs DEF Base, Types
<1>4. t \in Pointer /\ "clear" \in Stages
  BY <1>1, <1>3 DEF Visits, Pointer, Stages
<1>5. LocalTypes' /\ Mine(p, pl, k, c, d, i, fd[p], t, "clear") /\ OthersSame(p)
  BY <1>1, <1>4, Settled DEF Base, Types
<1>6. StepOf(p, pl, k, c, d, i, fd[p], t, s, new, TRUE, g, how)
  BY <1>3, <1>5 DEF StepOf
<1>7. DiskTypes'
  BY <1>1 DEF diskVars, Base, Types, DiskTypes
<1>8. Base'
  BY <1>1, <1>2, <1>6, <1>7, StepBase
<1>9. QED BY <1>6, <1>8 DEF MoveOf

LEMMA WalkFails ==
  ASSUME NEW p \in Procs, NEW s, NEW new, WalkFrom(p, s, new), NEW m, m = Looked(s, new, TRUE),
         mem' = Dropped(m, s), NEW t, t = DropTrunc(m, s), Later(p, t), Nowhere(p), UNCHANGED diskVars
  PROVE  WalkMove(p, s, new) /\ Base'
<1>1. /\ Base /\ putting[p] = 0 /\ s \in Inums /\ s \in Pointer /\ new \in BOOLEAN /\ 0 \in Pointer
      /\ (new => cur[p] = 0) /\ (~new => cur[p] = s)
      /\ dp[p] = 0 /\ stage[p] = "clear" /\ fd[p] \in Pointer /\ ip[p] \in Pointer
      /\ call[p] \in Calls /\ call[p].path \in Paths /\ call[p].new \in Paths
  BY DEF WalkFrom
<1>2. m = Taken(s, new, TRUE, 0) /\ mem' = Left(m, s, "drop") /\ t = LeftTrunc(m, s, "drop")
  BY DEF Taken, Left, LeftTrunc
<1>3. CASE ~(call[p].kind = "link" /\ pc[p] = "walkp")
  <2>1. ip[p] = 0
    BY <1>3 DEF WalkFrom, Walks
  <2>2. /\ Becomes(p, "idle", NoCall, 0, 0, 0, fd[p], t, "clear")
        /\ PhaseAt("idle", NoCall, 0, 0, 0, fd[p])
        /\ "idle" \in Places /\ NoCall \in Calls /\ 0 \in Pointer
    BY <1>1, <1>3, EndIs DEF Nowhere
  <2>3. Balanced(p, 0, 0, 0, fd[p], s, new, 0, "drop")
    <3>1. CASE new
      BY <1>1, <2>1, <3>1, Sizes DEF Balanced, BalancedAt, One, Hit
    <3>2. CASE ~new
      BY <1>1, <2>1, <3>2, Sizes DEF Balanced, BalancedAt, One, Hit
    <3>3. QED BY <3>1, <3>2
  <2>4. MoveOf(p, "idle", NoCall, 0, 0, 0, fd[p], t, s, new, TRUE, 0, "drop") /\ Base'
    BY <1>1, <1>2, <2>2, <2>3, WalkIs
  <2>5. QED BY <1>3, <2>4 DEF WalkMove
<1>4. CASE call[p].kind = "link" /\ pc[p] = "walkp"
  <2>1. ip[p] # 0 /\ ip[p] \in Inums
    BY <1>1, <1>4 DEF WalkFrom, Pointer
  <2>2. Becomes(p, "l_bad", call[p], 0, 0, ip[p], fd[p], t, "clear")
    BY <1>1, <1>4 DEF Nowhere, Later, Becomes, Sets, Resume
  <2>3. PhaseAt("l_bad", call[p], 0, 0, ip[p], fd[p]) /\ "l_bad" \in Places
    BY <1>1, <1>4, <2>1, LinkPhases
  <2>4. Balanced(p, 0, 0, ip[p], fd[p], s, new, 0, "drop")
    <3>1. CASE new
      BY <1>1, <2>1, <3>1, Sizes DEF Balanced, BalancedAt, One, Hit
    <3>2. CASE ~new
      BY <1>1, <2>1, <3>2, Sizes DEF Balanced, BalancedAt, One, Hit
    <3>3. QED BY <3>1, <3>2
  <2>5. MoveOf(p, "l_bad", call[p], 0, 0, ip[p], fd[p], t, s, new, TRUE, 0, "drop") /\ Base'
    BY <1>1, <1>2, <2>2, <2>3, <2>4, WalkIs
  <2>6. QED BY <1>4, <2>5 DEF WalkMove
<1>5. QED BY <1>3, <1>4

LEMMA StartPhases ==
  ASSUME NEW p \in Procs, NEW s, NEW new, WalkFrom(p, s, new), NEW g \in Inums
  PROVE  /\ Start(p) \in Places
         /\ pc[p] = "walkp" => PhaseAt(Start(p), call[p], 0, s, ip[p], fd[p])
         /\ pc[p] = "walk" => PhaseAt(Start(p), call[p], 0, 0, g, fd[p])
         /\ PhaseAt(pc[p], call[p], g, 0, ip[p], fd[p])
<1>1. /\ pc[p] \in {"walk", "walkp"} /\ s # 0 /\ g # 0
      /\ call[p].path \in Paths /\ call[p].new \in Paths
      /\ (call[p].kind \in {"open", "creat"} => fd[p] = 0)
  BY Sizes DEF WalkFrom, Walks
<1>2. CASE pc[p] = "walkp"
  <2>1. call[p].kind \in {"creat", "mkdir", "unlink", "link"} /\ (call[p].kind = "link" <=> ip[p] # 0)
    BY <1>2 DEF WalkFrom
  <2>2. PICK pl : pl = Start(p)
    OBVIOUS
  <2>3. \/ pl = "c_lock" /\ call[p].kind \in {"creat", "mkdir"}
        \/ pl = "u_lock" /\ call[p].kind = "unlink"
        \/ pl = "l_new" /\ call[p].kind = "link"
    BY <1>2, <2>1, <2>2 DEF Start
  <2>4. pl \in Places /\ PhaseAt(pl, call[p], 0, s, ip[p], fd[p])
    BY <1>1, <2>1, <2>3
    DEF PhaseAt, IpSet, KindFits, UsesIp, UsesDp, Making, Links, Creates, Unlinks, Places
  <2>5. PhaseAt("walkp", call[p], g, 0, ip[p], fd[p])
    BY <1>1, <2>1
    DEF PhaseAt, IpSet, KindFits, UsesIp, UsesDp, Making, Links, Creates, Unlinks, Walks
  <2>6. QED BY <1>2, <2>2, <2>4, <2>5
<1>3. CASE pc[p] = "walk"
  <2>1. call[p].kind \in {"open", "link"} /\ ip[p] = 0
    BY <1>3 DEF WalkFrom
  <2>2. PICK pl : pl = Start(p)
    OBVIOUS
  <2>3. \/ pl = "o_lock" /\ call[p].kind = "open"
        \/ pl = "l_old" /\ call[p].kind = "link"
    BY <1>3, <2>1, <2>2 DEF Start
  <2>4. pl \in Places /\ PhaseAt(pl, call[p], 0, 0, g, fd[p])
    BY <1>1, <2>1, <2>3
    DEF PhaseAt, IpSet, KindFits, UsesIp, UsesDp, Making, Links, Creates, Unlinks, Places
  <2>5. PhaseAt("walk", call[p], g, 0, 0, fd[p])
    BY <1>1, <2>1
    DEF PhaseAt, IpSet, KindFits, UsesIp, UsesDp, Making, Links, Creates, Unlinks, Walks
  <2>6. QED BY <1>3, <2>1, <2>2, <2>4, <2>5
<1>4. QED BY <1>1, <1>2, <1>3

LEMMA WalkStops ==
  ASSUME NEW p \in Procs, NEW s, NEW new, WalkFrom(p, s, new), NEW m, m = Looked(s, new, TRUE),
         Ino(m, s).type = "dir", pc[p] = "walkp", mem' = Unlocked(m, s),
         dp' = [dp EXCEPT ![p] = s], cur' = [cur EXCEPT ![p] = 0], Resume(p, Start(p)),
         UNCHANGED <<call, rest, ip, fd, putVars>>, UNCHANGED diskVars
  PROVE  WalkMove(p, s, new) /\ Base'
<1>1. /\ Base /\ putting[p] = 0 /\ s \in Inums /\ s \in Pointer /\ new \in BOOLEAN /\ 0 \in Pointer
      /\ (new => cur[p] = 0) /\ (~new => cur[p] = s)
      /\ dp[p] = 0 /\ stage[p] = "clear" /\ fd[p] \in Pointer /\ ip[p] \in Pointer
      /\ call[p] \in Calls
  BY DEF WalkFrom
<1>2. m = Taken(s, new, TRUE, 0) /\ mem' = Left(m, s, "unlock") /\ 0 = LeftTrunc(m, s, "unlock")
  BY DEF Taken, Left, LeftTrunc
<1>3. PICK pl \in Places : pl = Start(p) /\ PhaseAt(pl, call[p], 0, s, ip[p], fd[p])
  BY <1>1, StartPhases
<1>4. Becomes(p, pl, call[p], 0, s, ip[p], fd[p], 0, "clear")
  BY <1>1, <1>3 DEF Becomes, Sets, Resume, putVars
<1>5. Balanced(p, 0, s, ip[p], fd[p], s, new, 0, "unlock")
  <2>1. CASE new
    BY <1>1, <2>1, Sizes DEF Balanced, BalancedAt, One, Hit
  <2>2. CASE ~new
    BY <1>1, <2>2, Sizes DEF Balanced, BalancedAt, One, Hit
  <2>3. QED BY <2>1, <2>2
<1>6. MoveOf(p, pl, call[p], 0, s, ip[p], fd[p], 0, s, new, TRUE, 0, "unlock") /\ Base'
  BY <1>1, <1>2, <1>3, <1>4, <1>5, WalkIs
<1>7. QED BY <1>3, <1>6 DEF WalkMove

LEMMA WalkGoes ==
  ASSUME NEW p \in Procs, NEW s, NEW new, WalkFrom(p, s, new), NEW g \in Inums, NEW n,
         Finds(Looked(s, new, TRUE), s, n, g), NEW m, m = Taken(s, new, TRUE, g),
         mem' = Dropped(m, s), NEW t, t = DropTrunc(m, s), Later(p, t),
         \/ ip' = [ip EXCEPT ![p] = g] /\ cur' = [cur EXCEPT ![p] = 0] /\ Resume(p, Start(p))
            /\ pc[p] = "walk"
         \/ cur' = [cur EXCEPT ![p] = g] /\ UNCHANGED <<ip, pc>>,
         UNCHANGED <<call, dp, fd>>, UNCHANGED diskVars
  PROVE  WalkMove(p, s, new) /\ Base'
<1>1. /\ Base /\ putting[p] = 0 /\ s \in Inums /\ s \in Pointer /\ new \in BOOLEAN /\ 0 \in Pointer
      /\ (new => cur[p] = 0) /\ (~new => cur[p] = s)
      /\ dp[p] = 0 /\ stage[p] = "clear" /\ fd[p] \in Pointer /\ ip[p] \in Pointer
      /\ call[p] \in Calls /\ g \in Pointer /\ pc[p] \in Places
  BY DEF WalkFrom, Pointer
<1>2. mem' = Left(m, s, "drop") /\ t = LeftTrunc(m, s, "drop")
  BY DEF Left, LeftTrunc
<1>3. CASE /\ ip' = [ip EXCEPT ![p] = g] /\ cur' = [cur EXCEPT ![p] = 0] /\ Resume(p, Start(p))
           /\ pc[p] = "walk"
  <2>1. PICK pl \in Places : pl = Start(p) /\ PhaseAt(pl, call[p], 0, 0, g, fd[p]) /\ ip[p] = 0
    BY <1>1, <1>3, StartPhases DEF WalkFrom
  <2>2. Becomes(p, pl, call[p], 0, 0, g, fd[p], t, "clear")
    BY <1>1, <1>3, <2>1 DEF Becomes, Sets, Resume, Later
  <2>3. Balanced(p, 0, 0, g, fd[p], s, new, g, "drop")
    <3>1. CASE new
      BY <1>1, <2>1, <3>1, Sizes DEF Balanced, BalancedAt, One, Hit
    <3>2. CASE ~new
      BY <1>1, <2>1, <3>2, Sizes DEF Balanced, BalancedAt, One, Hit
    <3>3. QED BY <3>1, <3>2
  <2>4. MoveOf(p, pl, call[p], 0, 0, g, fd[p], t, s, new, TRUE, g, "drop") /\ Base'
    BY <1>1, <1>2, <2>1, <2>2, <2>3, WalkIs
  <2>5. QED BY <1>3, <2>1, <2>4 DEF WalkMove
<1>4. CASE cur' = [cur EXCEPT ![p] = g] /\ UNCHANGED <<ip, pc>>
  <2>1. PhaseAt(pc[p], call[p], g, 0, ip[p], fd[p])
    BY StartPhases
  <2>2. Becomes(p, pc[p], call[p], g, 0, ip[p], fd[p], t, "clear")
    BY <1>1, <1>4 DEF Becomes, Sets, Later
  <2>3. Balanced(p, g, 0, ip[p], fd[p], s, new, g, "drop")
    <3>1. CASE new
      BY <1>1, <3>1, Sizes DEF Balanced, BalancedAt, One, Hit
    <3>2. CASE ~new
      BY <1>1, <3>2, Sizes DEF Balanced, BalancedAt, One, Hit
    <3>3. QED BY <3>1, <3>2
  <2>4. MoveOf(p, pc[p], call[p], g, 0, ip[p], fd[p], t, s, new, TRUE, g, "drop") /\ Base'
    BY <1>1, <1>2, <2>1, <2>2, <2>3, WalkIs
  <2>5. QED BY <2>4 DEF WalkMove
<1>5. QED BY <1>3, <1>4

LEMMA WalkMoves ==
  ASSUME Base, NEW p \in Procs, Walk(p), NEW s, s = (IF cur[p] = 0 THEN root ELSE cur[p]),
         NEW new, new = (cur[p] = 0)
  PROVE  WalkMove(p, s, new) /\ Base'
<1>1. WalkFrom(p, s, new)
  BY WalkStarts
<1>2. PICK m, n : m = Looked(s, new, TRUE) /\ n = Head(rest[p])
  OBVIOUS
<1>3. m = Locked(IF cur[p] = 0 THEN Igot(mem, s) ELSE mem, s)
  BY <1>2 DEF Looked
<1>4. UNCHANGED diskVars
  BY DEF Walk
<1>5. \/ mem' = Dropped(m, s) /\ Later(p, DropTrunc(m, s)) /\ Nowhere(p)
      \/ /\ Ino(m, s).type = "dir" /\ pc[p] = "walkp" /\ mem' = Unlocked(m, s)
         /\ dp' = [dp EXCEPT ![p] = s] /\ cur' = [cur EXCEPT ![p] = 0]
         /\ Resume(p, Start(p)) /\ UNCHANGED <<call, rest, ip, fd, putVars>>
      \/ /\ Ino(m, s).type = "dir" /\ Where(m, s, n) # {}
         /\ ~(pc[p] = "walkp" /\ Len(rest[p]) = 1)
         /\ LET next == Entry(m, s, n)
                got  == Igot(m, next) IN
            /\ mem' = Dropped(got, s) /\ Later(p, DropTrunc(got, s))
            /\ IF Len(rest[p]) = 1
                 THEN /\ ip' = [ip EXCEPT ![p] = next]
                      /\ cur' = [cur EXCEPT ![p] = 0] /\ Resume(p, Start(p))
                 ELSE cur' = [cur EXCEPT ![p] = next] /\ UNCHANGED <<ip, pc>>
         /\ UNCHANGED <<call, dp, fd>>
  BY <1>2, <1>3 DEF Walk
<1>6. CASE mem' = Dropped(m, s) /\ Later(p, DropTrunc(m, s)) /\ Nowhere(p)
  BY <1>1, <1>2, <1>4, <1>6, WalkFails
<1>7. CASE /\ Ino(m, s).type = "dir" /\ pc[p] = "walkp" /\ mem' = Unlocked(m, s)
           /\ dp' = [dp EXCEPT ![p] = s] /\ cur' = [cur EXCEPT ![p] = 0]
           /\ Resume(p, Start(p)) /\ UNCHANGED <<call, rest, ip, fd, putVars>>
  BY <1>1, <1>2, <1>4, <1>7, WalkStops
<1>8. CASE /\ Ino(m, s).type = "dir" /\ Where(m, s, n) # {}
           /\ ~(pc[p] = "walkp" /\ Len(rest[p]) = 1)
           /\ LET next == Entry(m, s, n)
                  got  == Igot(m, next) IN
              /\ mem' = Dropped(got, s) /\ Later(p, DropTrunc(got, s))
              /\ IF Len(rest[p]) = 1
                   THEN /\ ip' = [ip EXCEPT ![p] = next]
                        /\ cur' = [cur EXCEPT ![p] = 0] /\ Resume(p, Start(p))
                   ELSE cur' = [cur EXCEPT ![p] = next] /\ UNCHANGED <<ip, pc>>
           /\ UNCHANGED <<call, dp, fd>>
  <2>1. s \in Inums /\ new \in BOOLEAN /\ pc[p] \in {"walk", "walkp"}
    BY <1>1 DEF WalkFrom, Walks
  <2>2. CacheOK(m)
    BY <1>2, <2>1, LookedOK
  <2>3. PICK g \in Inums : g = Entry(m, s, n)
    BY <1>8, <2>1, <2>2, EntryIs DEF Base, Types
  <2>4. PICK h, t : h = Taken(s, new, TRUE, g) /\ t = DropTrunc(h, s) /\ mem' = Dropped(h, s)
                    /\ Later(p, t)
    BY <1>2, <1>8, <2>3, Sizes DEF Taken
  <2>5. \/ ip' = [ip EXCEPT ![p] = g] /\ cur' = [cur EXCEPT ![p] = 0] /\ Resume(p, Start(p))
           /\ pc[p] = "walk"
        \/ cur' = [cur EXCEPT ![p] = g] /\ UNCHANGED <<ip, pc>>
    BY <1>8, <2>1, <2>3
  <2>6. Finds(Looked(s, new, TRUE), s, n, g) /\ UNCHANGED <<call, dp, fd>>
    BY <1>2, <1>8, <2>3 DEF Finds
  <2>7. QED BY <1>1, <1>4, <2>4, <2>5, <2>6, WalkGoes
<1>9. QED BY <1>5, <1>6, <1>7, <1>8

-----------------------------------------------------------------------------
(* A step that writes the copy of inode e, which p has locked or locks (lk), *)
(* so that it is n, and leaves inode s as it is, unlocked or given up.     *)

LEMMA WrittenIs ==
  ASSUME DiskTypes, CacheTypes, NEW e \in Inums, NEW lk \in BOOLEAN, NEW n \in Inode,
         NEW m0, m0 = (IF lk THEN Locked(mem, e) ELSE mem), NEW m, m = CopySet(m0, e, n)
  PROVE  CacheOK(m) /\ \A x \in Inums : WrittenAt(m, e, lk, n, x)
<1>1. m0 = Looked(e, FALSE, lk)
  BY DEF Looked
<1>2. CacheOK(m0) /\ \A x \in Inums : LookAt(m0, e, FALSE, lk, x)
  BY <1>1, LookIs
<1>3. InoRel(m0, m, e, n)
  BY <1>2, CopyIs DEF CopySet
<1>4. ASSUME NEW x \in Inums PROVE WrittenAt(m, e, lk, n, x)
  <2>1. LookAt(m0, e, FALSE, lk, x) /\ InoRelAt(m0, m, e, n, x)
    BY <1>2, <1>3 DEF InoRel
  <2>2. m0[x].ref = mem[x].ref /\ (x # e => m0[x].ino = mem[x].ino)
    BY <2>1 DEF LookAt
  <2>3. QED BY <2>1, <2>2 DEF LookAt, InoRelAt, WrittenAt
<1>5. QED BY <1>3, <1>4 DEF InoRel

LEMMA EditIs ==
  ASSUME DiskTypes, CacheTypes, NEW e \in Inums, NEW lk \in BOOLEAN, NEW n \in Inode,
         NEW s \in Inums, NEW how \in {"hold", "unlock", "drop"},
         NEW m0, m0 = (IF lk THEN Locked(mem, e) ELSE mem), NEW m, m = CopySet(m0, e, n),
         mem' = Left(m, s, how), NEW t, t = LeftTrunc(m, s, how)
  PROVE  Edits(e, lk, n, s, how, t)
<1>1. CacheOK(m) /\ \A x \in Inums : WrittenAt(m, e, lk, n, x)
  BY WrittenIs
<1>2. \A x \in Inums : mem[x].ref \in Int /\ mem[x].valid \in BOOLEAN /\ mem[x].busy \in BOOLEAN
                       /\ m[x].ref \in Int /\ m[x].valid \in BOOLEAN /\ m[x].busy \in BOOLEAN
  BY <1>1, SlotIs DEF CacheTypes, CacheOK
<1>3. s # 0
  BY Sizes
<1>4. CASE how = "hold"
  <2>1. mem' = m /\ t = 0
    BY <1>4 DEF Left, LeftTrunc
  <2>2. ASSUME NEW x \in Inums PROVE EditAt(e, lk, n, s, how, t, x)
    <3>1. WrittenAt(mem', e, lk, n, x)
      BY <1>1, <2>1
    <3>2. QED BY <1>4, <3>1 DEF WrittenAt, EditAt
  <2>3. QED BY <1>1, <2>1, <2>2 DEF Edits, CacheOK, CacheTypes
<1>5. CASE how = "unlock"
  <2>1. mem' = Unlocked(m, s) /\ t = 0
    BY <1>5 DEF Left, LeftTrunc
  <2>2. UnlockRel(m, mem', s)
    BY <1>1, <2>1, UnlockedIs
  <2>3. ASSUME NEW x \in Inums PROVE EditAt(e, lk, n, s, how, t, x)
    <3>1. WrittenAt(m, e, lk, n, x) /\ UnlockRelAt(m, mem', s, x)
      BY <1>1, <2>2 DEF UnlockRel
    <3>2. QED BY <1>2, <1>5, <3>1 DEF WrittenAt, UnlockRelAt, EditAt
  <2>4. QED BY <2>1, <2>2, <2>3 DEF Edits, CacheOK, CacheTypes, UnlockRel
<1>6. CASE how = "drop"
  <2>1. mem' = Dropped(m, s) /\ t = DropTrunc(m, s)
    BY <1>6 DEF Left, LeftTrunc
  <2>2. DropRel(m, mem', s, t)
    BY <1>1, <2>1, DroppedIs
  <2>3. ASSUME NEW x \in Inums PROVE EditAt(e, lk, n, s, how, t, x)
    <3>1. WrittenAt(m, e, lk, n, x) /\ DropRelAt(m, mem', s, t, x)
      BY <1>1, <2>2 DEF DropRel
    <3>2. mem'[x].ref = IF x = s /\ t = 0 THEN mem[x].ref - 1 ELSE mem[x].ref
      BY <3>1 DEF WrittenAt, DropRelAt
    <3>3. QED BY <1>2, <1>6, <3>1, <3>2 DEF WrittenAt, DropRelAt, EditAt
  <2>4. t # 0 => mem'[s].ref = 1 /\ mem'[s].valid /\ mem'[s].ino.nlink = 0
    BY <1>3, <2>2 DEF DropRel, DropRelAt
  <2>5. QED BY <1>6, <2>2, <2>3, <2>4 DEF Edits, CacheOK, CacheTypes, DropRel
<1>7. QED BY <1>4, <1>5, <1>6

LEMMA EditBase ==
  ASSUME Base, NEW p \in Procs, NEW pl, NEW k, NEW c, NEW d, NEW i, NEW f, NEW t, NEW e, NEW lk,
         NEW n, NEW s \in Inums, NEW how, EditOf(p, pl, k, c, d, i, f, t, e, lk, n, s, how),
         how \in {"hold", "unlock", "drop"}, DiskTypes', putting[p] = 0,
         PhaseAt(pl, k, c, d, i, f), Balanced(p, c, d, i, f, s, FALSE, 0, how)
  PROVE  Base'
<1>1. Mine(p, pl, k, c, d, i, f, t, "clear") /\ OthersSame(p) /\ LocalTypes'
      /\ Edits(e, lk, n, s, how, t)
  BY DEF EditOf
<1>2. CacheTypes' /\ t \in {0, s} /\ (how \in {"hold", "unlock"} => t = 0)
  BY <1>1 DEF Edits
<1>3. PhaseOf(p)'
  BY <1>1, PhaseFollows
<1>4. ASSUME NEW x \in Inums PROVE mem'[x].ref = (mem[x].ref + Hits(p, x)') - Hits(p, x)
  <2>1. PICK b, z : /\ b = One(x = s /\ how \in {"drop", "put"})
                    /\ z = IF x = s /\ how = "drop" /\ t = 0 THEN 1 ELSE 0
    OBVIOUS
  <2>2. b \in Int /\ z \in Int /\ mem[x].ref \in Int
    <3>1. CacheOK(mem)
      BY DEF Base, Types, CacheTypes, CacheOK
    <3>2. mem[x].ref \in Int
      BY <3>1, SlotIs
    <3>3. QED BY <2>1, <3>2 DEF One
  <2>3. Hit(t, x) = b - z
    <3>1. CASE t = 0
      <4>1. Hit(t, x) = 0
        BY <3>1, Sizes DEF Hit
      <4>2. b = z
        BY <2>1, <3>1 DEF One
      <4>3. QED BY <2>2, <4>1, <4>2
    <3>2. CASE t # 0
      <4>1. t = s /\ how = "drop" /\ z = 0
        BY <1>2, <2>1, <3>2
      <4>2. b = IF x = s THEN 1 ELSE 0
        BY <2>1, <4>1 DEF One
      <4>3. QED BY <4>1, <4>2 DEF Hit
    <3>3. QED BY <3>1, <3>2
  <2>4. mem'[x].ref = mem[x].ref - z
    BY <1>1, <2>1, <2>2 DEF Edits, EditAt
  <2>5. /\ Hits(p, x)' = Hit(f, x) + Hit(c, x) + Hit(d, x) + Hit(i, x) + Hit(t, x)
        /\ Hits(p, x) = Hit(fd[p], x) + Hit(cur[p], x) + Hit(dp[p], x) + Hit(ip[p], x)
        /\ \A v : Hit(v, x) \in Int
    BY <1>1, HitsAre
  <2>6. Hit(fd[p], x) + Hit(cur[p], x) + Hit(dp[p], x) + Hit(ip[p], x)
        = Hit(f, x) + Hit(c, x) + Hit(d, x) + Hit(i, x) + b
    <3>1. One(x = s /\ FALSE) = 0 /\ Hit(0, x) = 0
      BY Sizes DEF One, Hit
    <3>2. One(x = s /\ FALSE) + Hit(0, x) + Hit(fd[p], x) + Hit(cur[p], x) + Hit(dp[p], x) + Hit(ip[p], x)
        = Hit(f, x) + Hit(c, x) + Hit(d, x) + Hit(i, x) + b
      BY <2>1 DEF Balanced, BalancedAt
    <3>3. QED BY <2>2, <2>5, <3>1, <3>2
  <2>7. QED BY <2>2, <2>3, <2>4, <2>5, <2>6
<1>5. RefsMove(p)
  BY <1>4 DEF RefsMove
<1>6. QED BY <1>1, <1>2, <1>3, <1>5, BaseFollows

LEMMA EditStep ==
  ASSUME Base, NEW p \in Procs, NEW pl \in Places, NEW k \in Calls, NEW c \in Pointer,
         NEW d \in Pointer, NEW i \in Pointer, NEW f \in Pointer, NEW e \in Inums,
         NEW lk \in BOOLEAN, NEW n \in Inode, NEW s \in Inums, NEW how \in {"hold", "unlock", "drop"},
         NEW m, m = CopySet(IF lk THEN Locked(mem, e) ELSE mem, e, n),
         mem' = Left(m, s, how), NEW t, t = LeftTrunc(m, s, how),
         Becomes(p, pl, k, c, d, i, f, t, "clear"), DiskTypes', putting[p] = 0,
         PhaseAt(pl, k, c, d, i, f), Balanced(p, c, d, i, f, s, FALSE, 0, how)
  PROVE  EditOf(p, pl, k, c, d, i, f, t, e, lk, n, s, how) /\ Base'
<1>1. Edits(e, lk, n, s, how, t)
  BY EditIs DEF Base, Types
<1>2. t \in Pointer /\ "clear" \in Stages
  BY <1>1 DEF Edits, Pointer, Stages
<1>3. LocalTypes' /\ Mine(p, pl, k, c, d, i, f, t, "clear") /\ OthersSame(p)
  BY <1>2, Settled DEF Base, Types
<1>4. EditOf(p, pl, k, c, d, i, f, t, e, lk, n, s, how)
  BY <1>1, <1>3 DEF EditOf
<1>5. QED BY <1>4, EditBase

-----------------------------------------------------------------------------
(* The first write to a file. *)

LEMMA InodeIs ==
  ASSUME Base, NEW i \in Inums
  PROVE  /\ mem[i].ino \in Inode /\ dino[i] \in Inode /\ mem[i] \in Cached
         /\ Locked(mem, i)[i].ino \in Inode
         /\ Locked(mem, i)[i].ino = (IF mem[i].valid THEN mem[i].ino ELSE dino[i])
<1>1. CacheOK(mem) /\ DiskTypes /\ dino[i] \in Inode /\ mem[i] \in Cached
  BY DEF Base, Types, CacheTypes, CacheOK, DiskTypes
<1>2. mem[i].ino \in Inode /\ mem[i].valid \in BOOLEAN
  BY <1>1, SlotIs
<1>3. LockRelAt(mem, Locked(mem, i), i, i)
  BY <1>1, LockedIs DEF LockRel
<1>4. Locked(mem, i)[i].ino = (IF mem[i].valid THEN mem[i].ino ELSE dino[i])
  BY <1>2, <1>3 DEF LockRelAt
<1>5. QED BY <1>1, <1>2, <1>4

LEMMA SomeBlock ==
  ASSUME Unused # {} PROVE First(Unused) \in Unused /\ First(Unused) \in Blocks
<1>1. Unused \in SUBSET Nat /\ Unused \subseteq Blocks
  BY InodesAssumption DEF Unused
<1>2. First(Unused) \in Unused
  BY <1>1, FirstFound
<1>3. QED BY <1>1, <1>2

LEMMA DinoIs ==
  ASSUME DiskTypes, NEW i \in Inums, NEW n \in Inode, Iupdate(i, n)
  PROVE  dino' \in [Inums -> Inode] /\ DinoSet(i, n)
BY DEF DiskTypes, Iupdate, DinoSet

LEMMA FieldsSet ==
  ASSUME NEW n \in Inode
  PROVE  /\ \A v \in Int : [n EXCEPT !.nlink = v] \in Inode
         /\ \A v \in Nat : [n EXCEPT !.size = v] \in Inode
         /\ \A v \in {0} \cup Blocks : [n EXCEPT !.blk = v] \in Inode
         /\ n.nlink \in Int /\ n.size \in Nat /\ n.blk \in {0} \cup Blocks /\ n.type \in InodeTypes
         /\ n.nlink + 1 \in Int /\ n.nlink - 1 \in Int /\ n.size + 1 \in Nat
<1>1. n.nlink \in Int /\ n.size \in Nat /\ n.blk \in {0} \cup Blocks /\ n.type \in InodeTypes
  BY DEF Inode
<1>2. n.nlink + 1 \in Int /\ n.nlink - 1 \in Int /\ n.size + 1 \in Nat
  BY <1>1
<1>3. ASSUME NEW v \in Int PROVE [n EXCEPT !.nlink = v] \in Inode
  BY DEF Inode
<1>4. ASSUME NEW v \in Nat PROVE [n EXCEPT !.size = v] \in Inode
  BY DEF Inode
<1>5. ASSUME NEW v \in {0} \cup Blocks PROVE [n EXCEPT !.blk = v] \in Inode
  BY DEF Inode
<1>6. QED BY <1>1, <1>2, <1>3, <1>4, <1>5

LEMMA WriteBlockEdits ==
  ASSUME Base, NEW p \in Procs, WriteBlock(p)
  PROVE  /\ Base' /\ pc[p] = "idle" /\ putting[p] = 0 /\ fd[p] \in Inums
         /\ cur[p] = 0 /\ dp[p] = 0 /\ ip[p] = 0 /\ ~mem[fd[p]].busy /\ UNCHANGED <<dino, content>>
         /\ \E n \in Inode, b \in Unused :
              /\ b \in Blocks /\ bitmap' = bitmap \cup {b}
              /\ Locked(mem, fd[p])[fd[p]].ino.type = "file"
              /\ Locked(mem, fd[p])[fd[p]].ino.blk = 0
              /\ n = [Locked(mem, fd[p])[fd[p]].ino EXCEPT !.blk = b]
              /\ EditOf(p, "w_upd", call[p], 0, 0, 0, fd[p], 0, fd[p], TRUE, n, fd[p], "hold")
<1>1. pc[p] = "idle" /\ putting[p] = 0 /\ fd[p] # 0 /\ ~mem[fd[p]].busy /\ Unused # {}
  BY DEF WriteBlock, Ready, Free
<1>2. /\ fd[p] \in Inums /\ dp[p] = 0 /\ ip[p] = 0 /\ cur[p] = 0 /\ stage[p] = "clear"
      /\ call[p] \in Calls /\ 0 \in Pointer /\ fd[p] \in Pointer /\ "w_upd" \in Places
      /\ KindFits(call[p].kind, "idle") /\ ~(call[p].kind \in {"open", "creat"})
  <2>1. pc[p] \notin Walks /\ pc[p] \notin UsesDp /\ pc[p] \notin UsesIp \cup {"walkp"}
    BY <1>1 DEF UsesIp, UsesDp, Making, Walks, Links
  <2>2. QED BY <1>1, <2>1, Locals, Pointed DEF Pointer, Places
<1>3. PICK s, b, m0 : s = fd[p] /\ b = First(Unused) /\ m0 = Locked(mem, s)
  OBVIOUS
<1>4. b \in Unused /\ b \in Blocks /\ m0[s].ino \in Inode
  BY <1>1, <1>2, <1>3, SomeBlock, InodeIs
<1>5. PICK n : n = [m0[s].ino EXCEPT !.blk = b]
  OBVIOUS
<1>6. n \in Inode
  BY <1>4, <1>5, FieldsSet
<1>7. PICK m : m = CopySet(IF TRUE THEN Locked(mem, s) ELSE mem, s, n)
  OBVIOUS
<1>8. mem' = m
  BY <1>3, <1>5, <1>7 DEF WriteBlock, CopySet, Ino
<1>9. mem' = Left(m, s, "hold") /\ 0 = LeftTrunc(m, s, "hold")
  BY <1>8 DEF Left, LeftTrunc
<1>10. Becomes(p, "w_upd", call[p], 0, 0, 0, s, 0, "clear")
  BY <1>1, <1>2, <1>3 DEF WriteBlock, Becomes, Sets, Resume, locals, putVars
<1>11. PhaseAt("w_upd", call[p], 0, 0, 0, s)
  BY <1>1, <1>2, <1>3
  DEF PhaseAt, IpSet, KindFits, UsesIp, UsesDp, Making, Links, Creates, Unlinks
<1>12. Balanced(p, 0, 0, 0, s, s, FALSE, 0, "hold")
  BY <1>2, <1>3, Sizes DEF Balanced, BalancedAt, One, Hit
<1>13. bitmap' = bitmap \cup {b} /\ UNCHANGED <<dino, content>>
  BY <1>3 DEF WriteBlock
<1>14. DiskTypes'
  BY <1>4, <1>13 DEF Base, Types, DiskTypes
<1>15. EditOf(p, "w_upd", call[p], 0, 0, 0, s, 0, s, TRUE, n, s, "hold") /\ Base'
  BY <1>1, <1>2, <1>3, <1>6, <1>7, <1>9, <1>10, <1>11, <1>12, <1>14, EditStep
<1>16. m0[s].ino.type = "file" /\ m0[s].ino.blk = 0
  BY <1>3 DEF WriteBlock, Ino
<1>17. QED BY <1>1, <1>2, <1>3, <1>4, <1>5, <1>6, <1>13, <1>15, <1>16

LEMMA WriteUpdateEdits ==
  ASSUME Base, NEW p \in Procs, WriteUpdate(p)
  PROVE  /\ Base' /\ pc[p] = "w_upd" /\ putting[p] = 0 /\ fd[p] \in Inums
         /\ cur[p] = 0 /\ dp[p] = 0 /\ ip[p] = 0 /\ UNCHANGED <<bitmap, content>>
         /\ \E n \in Inode :
              /\ n = [mem[fd[p]].ino EXCEPT !.size = 1] /\ DinoSet(fd[p], n)
              /\ EditOf(p, "idle", call[p], 0, 0, 0, fd[p], 0, fd[p], FALSE, n, fd[p], "unlock")
<1>1. pc[p] = "w_upd" /\ putting[p] = 0
  BY DEF WriteUpdate, Ready
<1>2. /\ fd[p] \in Inums /\ dp[p] = 0 /\ ip[p] = 0 /\ cur[p] = 0 /\ stage[p] = "clear"
      /\ call[p] \in Calls /\ 0 \in Pointer /\ fd[p] \in Pointer /\ "idle" \in Places
      /\ KindFits(call[p].kind, "idle") /\ ~(call[p].kind \in {"open", "creat"})
  <2>1. pc[p] \notin Walks /\ pc[p] \notin UsesDp /\ pc[p] \notin UsesIp \cup {"walkp"}
    BY <1>1 DEF UsesIp, UsesDp, Making, Walks, Links
  <2>2. fd[p] # 0 /\ fd[p] \in Inums
    BY <1>1, Pointed DEF PhaseOf
  <2>3. KindFits(call[p].kind, "idle")
    BY DEF KindFits, Creates, Making, Links, Unlinks
  <2>4. QED BY <1>1, <2>1, <2>2, <2>3, Locals, Sizes DEF Pointer, Places
<1>3. PICK s : s = fd[p]
  OBVIOUS
<1>4. mem[s].ino \in Inode
  BY <1>2, <1>3, InodeIs
<1>5. PICK n : n = [mem[s].ino EXCEPT !.size = 1]
  OBVIOUS
<1>6. n \in Inode
  BY <1>4, <1>5, FieldsSet
<1>7. PICK m : m = CopySet(IF FALSE THEN Locked(mem, s) ELSE mem, s, n)
  OBVIOUS
<1>8. m = [mem EXCEPT ![s].ino.size = 1]
  BY <1>5, <1>7 DEF CopySet
<1>9. m[s].ino = n
  BY <1>2, <1>3, <1>7 DEF CopySet, Base, Types, CacheTypes, Cached
<1>10. mem' = Left(m, s, "unlock") /\ 0 = LeftTrunc(m, s, "unlock")
  BY <1>3, <1>8 DEF Left, LeftTrunc, WriteUpdate
<1>11. Iupdate(s, n)
  BY <1>3, <1>8, <1>9 DEF WriteUpdate, Ino
<1>12. dino' \in [Inums -> Inode] /\ DinoSet(s, n)
  BY <1>2, <1>3, <1>6, <1>11, DinoIs DEF Base, Types
<1>13. Becomes(p, "idle", call[p], 0, 0, 0, s, 0, "clear")
  BY <1>1, <1>2, <1>3 DEF WriteUpdate, Becomes, Sets, Resume, locals, putVars
<1>14. PhaseAt("idle", call[p], 0, 0, 0, s)
  BY <1>1, <1>2, <1>3
  DEF PhaseAt, IpSet, KindFits, UsesIp, UsesDp, Making, Links, Creates, Unlinks
<1>15. Balanced(p, 0, 0, 0, s, s, FALSE, 0, "unlock")
  BY <1>2, <1>3, Sizes DEF Balanced, BalancedAt, One, Hit
<1>16. UNCHANGED <<bitmap, content>>
  BY DEF WriteUpdate
<1>17. DiskTypes'
  BY <1>12, <1>16 DEF Base, Types, DiskTypes
<1>18. EditOf(p, "idle", call[p], 0, 0, 0, s, 0, s, FALSE, n, s, "unlock") /\ Base'
  BY <1>1, <1>2, <1>3, <1>6, <1>7, <1>10, <1>13, <1>14, <1>15, <1>17, EditStep
<1>19. QED BY <1>1, <1>2, <1>3, <1>5, <1>6, <1>12, <1>16, <1>18

-----------------------------------------------------------------------------
(* create: the new inode. *)

LEMMA CopyMade ==
  ASSUME Base, NEW i \in Inums, NEW n \in Inode, NEW m,
         m = CopySet(mem, i, n) \/ m = CopySet(Locked(mem, i), i, n)
  PROVE  m[i].ino = n
<1>1. CASE m = CopySet(mem, i, n)
  <2>1. CacheOK(m) /\ WrittenAt(m, i, FALSE, n, i)
    BY <1>1, WrittenIs DEF Base, Types
  <2>2. QED BY <2>1 DEF WrittenAt
<1>2. CASE m = CopySet(Locked(mem, i), i, n)
  <2>1. CacheOK(m) /\ WrittenAt(m, i, TRUE, n, i)
    BY <1>2, WrittenIs DEF Base, Types
  <2>2. QED BY <2>1 DEF WrittenAt
<1>3. QED BY <1>1, <1>2

LEMMA LinkedDrops ==
  ASSUME NEW p \in Procs, NEW m, NEW pl, Linked(p, m, pl), stage[p] = "clear", cur[p] = 0
  PROVE  \E t : /\ mem' = Left(m, dp[p], "drop") /\ t = LeftTrunc(m, dp[p], "drop")
                /\ Becomes(p, pl, call[p], 0, 0, ip[p], fd[p], t, "clear")
<1>1. PICK t : t = DropTrunc(m, dp[p])
  OBVIOUS
<1>2. mem' = Left(m, dp[p], "drop") /\ t = LeftTrunc(m, dp[p], "drop")
  BY <1>1 DEF Linked, Left, LeftTrunc
<1>3. Becomes(p, pl, call[p], 0, 0, ip[p], fd[p], t, "clear")
  BY <1>1 DEF Linked, Later, Becomes, Sets, Resume
<1>4. QED BY <1>2, <1>3

LEMMA MakingIs ==
  ASSUME Base, NEW p \in Procs, putting[p] = 0, pc[p] \in Making \cup {"c_alloc", "c_size"}
  PROVE  MakingAt(p)
<1>1. pc[p] \in UsesDp /\ pc[p] \notin Walks /\ pc[p] \in Creates /\ pc[p] \notin {"idle", "w_upd"}
      /\ (pc[p] = "c_alloc" => pc[p] \notin UsesIp \cup {"walkp"})
  BY DEF UsesDp, UsesIp, Walks, Creates, Making, Links
<1>2. cur[p] = 0 /\ dp[p] \in Inums /\ stage[p] = "clear" /\ call[p] \in Calls
      /\ fd[p] \in Pointer /\ ip[p] \in Pointer
      /\ call[p].path \in Paths /\ call[p].new \in Paths /\ KindFits(call[p].kind, pc[p])
      /\ (call[p].kind \in {"open", "creat"} => fd[p] = 0)
      /\ (pc[p] \in UsesIp => ip[p] \in Inums) /\ (pc[p] = "c_alloc" => ip[p] = 0)
  BY <1>1, Locals
<1>3. QED BY <1>1, <1>2 DEF MakingAt, KindFits, Pointer

\* The places that a call which makes an inode goes to.
LEMMA MakingGoes ==
  ASSUME NEW k, k.kind \in {"creat", "mkdir"}, k.path \in Paths, k.new \in Paths,
         NEW d \in Inums, NEW i \in Inums, NEW f, k.kind \in {"open", "creat"} => f = 0
  PROVE  /\ \A pl \in {"c_lockip", "c_link", "c_size"} : PhaseAt(pl, k, 0, d, i, f)
         /\ PhaseAt("c_end", k, 0, 0, i, f)
         /\ k.kind = "mkdir" =>
              \A pl \in {"c_parent", "c_balloc", "c_dot", "c_dotdot"} : PhaseAt(pl, k, 0, d, i, f)
         /\ {"c_lockip", "c_link", "c_size", "c_end", "c_parent", "c_balloc", "c_dot", "c_dotdot"}
              \subseteq Places
BY Sizes DEF PhaseAt, IpSet, KindFits, UsesIp, UsesDp, Making, Links, Creates, Unlinks, Places, Walks

LEMMA CreateAllocSteps ==
  ASSUME Base, NEW p \in Procs, CreateAlloc(p)
  PROVE  /\ Base' /\ pc[p] = "c_alloc" /\ putting[p] = 0 /\ MakingAt(p)
         /\ UNCHANGED <<bitmap, content>>
         /\ \E i \in Inums, n \in Inode :
              /\ dino[i].type = "free" /\ DinoSet(i, n)
              /\ n.type = (IF call[p].kind = "mkdir" THEN "dir" ELSE "file")
              /\ n.nlink = 0 /\ n.blk = 0
              /\ StepOf(p, "c_lockip", call[p], 0, dp[p], i, fd[p], 0, dp[p], FALSE, FALSE, i, "hold")
<1>1. pc[p] = "c_alloc" /\ putting[p] = 0 /\ FreeInums # {}
  BY DEF CreateAlloc, Ready
<1>2. MakingAt(p) /\ ip[p] = 0
  BY <1>1, MakingIs DEF MakingAt
<1>3. PICK i, ty, d : i = First(FreeInums) /\ d = dp[p]
                      /\ ty = IF call[p].kind = "mkdir" THEN "dir" ELSE "file"
  OBVIOUS
<1>4. i \in Inums /\ dino[i].type = "free" /\ i \in Pointer /\ i # 0 /\ d \in Inums
  <2>1. FreeInums \in SUBSET Nat
    BY InodesAssumption DEF FreeInums
  <2>2. i \in FreeInums
    BY <1>1, <1>3, <2>1, FirstFound
  <2>3. QED BY <1>2, <1>3, <2>2, Sizes DEF FreeInums, Pointer, MakingAt
<1>5. PICK n : n = [FreeInode EXCEPT !.type = ty]
  OBVIOUS
<1>6. n \in Inode /\ n.type = ty /\ n.nlink = 0 /\ n.blk = 0
  BY <1>3, <1>5 DEF FreeInode, Inode, InodeTypes
<1>7. Iupdate(i, n) /\ mem' = Igot(mem, i) /\ UNCHANGED <<bitmap, content>>
  BY <1>3, <1>5 DEF CreateAlloc
<1>8. dino' \in [Inums -> Inode] /\ DinoSet(i, n)
  BY <1>4, <1>6, <1>7, DinoIs DEF Base, Types
<1>9. DiskTypes'
  BY <1>7, <1>8 DEF Base, Types, DiskTypes
<1>10. PICK m : m = Taken(d, FALSE, FALSE, i)
  OBVIOUS
<1>11. mem' = Left(m, d, "hold") /\ 0 = LeftTrunc(m, d, "hold")
  BY <1>4, <1>7, <1>10 DEF Taken, Looked, Left, LeftTrunc
<1>12. Becomes(p, "c_lockip", call[p], 0, d, i, fd[p], 0, "clear")
  BY <1>1, <1>2, <1>3 DEF CreateAlloc, Becomes, Sets, Resume, putVars, MakingAt
<1>13. PhaseAt("c_lockip", call[p], 0, d, i, fd[p]) /\ "c_lockip" \in Places
  BY <1>2, <1>4, MakingGoes DEF MakingAt
<1>14. Balanced(p, 0, d, i, fd[p], d, FALSE, i, "hold")
  BY <1>2, <1>3, <1>4, Sizes DEF Balanced, BalancedAt, One, Hit, MakingAt
<1>15. StepOf(p, "c_lockip", call[p], 0, d, i, fd[p], 0, d, FALSE, FALSE, i, "hold")
  BY <1>2, <1>3, <1>4, <1>10, <1>11, <1>12, <1>13, StepIs DEF MakingAt
<1>16. Base'
  BY <1>1, <1>4, <1>9, <1>13, <1>14, <1>15, StepBase
<1>17. QED BY <1>1, <1>2, <1>3, <1>4, <1>6, <1>7, <1>8, <1>15, <1>16

LEMMA CreateLink1Edits ==
  ASSUME Base, NEW p \in Procs, CreateLink1(p)
  PROVE  /\ Base' /\ pc[p] = "c_lockip" /\ putting[p] = 0 /\ MakingAt(p) /\ ip[p] \in Inums
         /\ ~mem[ip[p]].busy /\ UNCHANGED <<bitmap, content>>
         /\ \E n, pl :
              /\ n \in Inode
              /\ n = [Locked(mem, ip[p])[ip[p]].ino EXCEPT !.nlink = 1] /\ DinoSet(ip[p], n)
              /\ pl = (IF call[p].kind = "mkdir" THEN "c_parent" ELSE "c_link")
              /\ EditOf(p, pl, call[p], 0, dp[p], ip[p], fd[p], 0, ip[p], TRUE, n, ip[p], "hold")
<1>1. pc[p] = "c_lockip" /\ putting[p] = 0 /\ ~mem[ip[p]].busy
  BY DEF CreateLink1, Ready, Free
<1>2. MakingAt(p) /\ ip[p] \in Inums
  BY <1>1, MakingIs DEF MakingAt, Making, UsesIp
<1>3. PICK i, d, m0 : i = ip[p] /\ d = dp[p] /\ m0 = Locked(mem, i)
  OBVIOUS
<1>4. m0[i].ino \in Inode
  BY <1>2, <1>3, InodeIs
<1>5. PICK n : n = [m0[i].ino EXCEPT !.nlink = 1]
  OBVIOUS
<1>6. n \in Inode
  BY <1>4, <1>5, FieldsSet
<1>7. PICK m : m = CopySet(IF TRUE THEN Locked(mem, i) ELSE mem, i, n)
  OBVIOUS
<1>8. mem' = m /\ Iupdate(i, m[i].ino)
  BY <1>3, <1>5, <1>7 DEF CreateLink1, CopySet, Ino
<1>9. m[i].ino = n
  BY <1>2, <1>3, <1>6, <1>7, CopyMade
<1>10. dino' \in [Inums -> Inode] /\ DinoSet(i, n)
  BY <1>2, <1>3, <1>6, <1>8, <1>9, DinoIs DEF Base, Types
<1>11. mem' = Left(m, i, "hold") /\ 0 = LeftTrunc(m, i, "hold")
  BY <1>8 DEF Left, LeftTrunc
<1>12. PICK pl : pl = IF call[p].kind = "mkdir" THEN "c_parent" ELSE "c_link"
  OBVIOUS
<1>13. PhaseAt(pl, call[p], 0, d, i, fd[p]) /\ pl \in Places
  BY <1>2, <1>3, <1>12, MakingGoes DEF MakingAt
<1>14. Becomes(p, pl, call[p], 0, d, i, fd[p], 0, "clear")
  BY <1>1, <1>2, <1>3, <1>12 DEF CreateLink1, Becomes, Sets, Resume, locals, putVars, MakingAt
<1>15. Balanced(p, 0, d, i, fd[p], i, FALSE, 0, "hold")
  BY <1>2, <1>3, Sizes DEF Balanced, BalancedAt, One, Hit, MakingAt
<1>16. UNCHANGED <<bitmap, content>>
  BY DEF CreateLink1
<1>17. DiskTypes'
  BY <1>10, <1>16 DEF Base, Types, DiskTypes
<1>18. EditOf(p, pl, call[p], 0, d, i, fd[p], 0, i, TRUE, n, i, "hold") /\ Base'
  BY <1>1, <1>2, <1>3, <1>6, <1>7, <1>11, <1>13, <1>14, <1>15, <1>17, EditStep, ZenonT(40) DEF MakingAt
<1>19. QED BY <1>1, <1>2, <1>3, <1>5, <1>6, <1>10, <1>12, <1>16, <1>18

-----------------------------------------------------------------------------
(* mkdir: the link of the parent, then . and .. of the new directory. *)

LEMMA CreateParentEdits ==
  ASSUME Base, NEW p \in Procs, CreateParent(p)
  PROVE  /\ Base' /\ pc[p] = "c_parent" /\ putting[p] = 0 /\ MakingAt(p) /\ ip[p] \in Inums
         /\ UNCHANGED <<bitmap, content>>
         /\ \E n \in Inode :
              /\ n = [mem[dp[p]].ino EXCEPT !.nlink = mem[dp[p]].ino.nlink + 1] /\ DinoSet(dp[p], n)
              /\ EditOf(p, "c_balloc", call[p], 0, dp[p], ip[p], fd[p], 0, dp[p], FALSE, n, dp[p],
                        "hold")
<1>1. pc[p] = "c_parent" /\ putting[p] = 0
  BY DEF CreateParent, Ready
<1>2. MakingAt(p) /\ ip[p] \in Inums
  BY <1>1, MakingIs DEF MakingAt, Making, UsesIp
<1>3. PICK i, d : i = ip[p] /\ d = dp[p]
  OBVIOUS
<1>4. mem[d].ino \in Inode /\ d \in Inums
  BY <1>2, <1>3, InodeIs DEF MakingAt
<1>5. PICK n, v : n = [mem[d].ino EXCEPT !.nlink = v] /\ v = mem[d].ino.nlink + 1
  OBVIOUS
<1>6. n \in Inode
  BY <1>4, <1>5, FieldsSet
<1>7. PICK m : m = CopySet(IF FALSE THEN Locked(mem, d) ELSE mem, d, n)
  OBVIOUS
<1>8. mem' = m /\ Iupdate(d, mem'[d].ino)
  BY <1>3, <1>5, <1>7 DEF CreateParent, CopySet, Ino
<1>9. m[d].ino = n
  BY <1>4, <1>6, <1>7, CopyMade
<1>10. dino' \in [Inums -> Inode] /\ DinoSet(d, n)
  BY <1>4, <1>6, <1>8, <1>9, DinoIs DEF Base, Types
<1>11. mem' = Left(m, d, "hold") /\ 0 = LeftTrunc(m, d, "hold")
  BY <1>8 DEF Left, LeftTrunc
<1>13. PhaseAt("c_balloc", call[p], 0, d, i, fd[p]) /\ "c_balloc" \in Places
  BY <1>1, <1>2, <1>3, MakingGoes, SMTT(20) DEF MakingAt
<1>14. Becomes(p, "c_balloc", call[p], 0, d, i, fd[p], 0, "clear")
  BY <1>1, <1>2, <1>3 DEF CreateParent, Becomes, Sets, Resume, locals, putVars, MakingAt
<1>15. Balanced(p, 0, d, i, fd[p], d, FALSE, 0, "hold")
  BY <1>2, <1>3, Sizes DEF Balanced, BalancedAt, One, Hit, MakingAt
<1>16. UNCHANGED <<bitmap, content>>
  BY DEF CreateParent
<1>17. DiskTypes'
  BY <1>10, <1>16 DEF Base, Types, DiskTypes
<1>18. EditOf(p, "c_balloc", call[p], 0, d, i, fd[p], 0, d, FALSE, n, d, "hold") /\ Base'
  BY <1>1, <1>2, <1>3, <1>4, <1>6, <1>7, <1>11, <1>13, <1>14, <1>15, <1>17, EditStep, ZenonT(40) DEF MakingAt
<1>19. QED BY <1>1, <1>2, <1>3, <1>5, <1>6, <1>10, <1>16, <1>18

\* The .. of block b is d; the entries stay.
LEMMA UpWritten ==
  ASSUME NEW C \in [Blocks -> DirBlock], NEW b, NEW d \in Inums
  PROVE  /\ UpSet(C, b, d) \in [Blocks -> DirBlock]
         /\ b \in Blocks => UpSet(C, b, d)[b].up = d /\ UpSet(C, b, d)[b].ent = C[b].ent
         /\ \A a \in Blocks \ {b} : UpSet(C, b, d)[a] = C[a]
<1>1. CASE b \in Blocks
  <2>1. PICK e : e = [C[b] EXCEPT !.up = d]
    OBVIOUS
  <2>2. e \in DirBlock /\ e.up = d /\ e.ent = C[b].ent
    BY <1>1, <2>1 DEF DirBlock
  <2>3. UpSet(C, b, d) = [C EXCEPT ![b] = e]
    BY <2>1 DEF UpSet
  <2>4. QED BY <1>1, <2>2, <2>3
<1>2. CASE b \notin Blocks
  <2>1. UpSet(C, b, d) \in [Blocks -> DirBlock] /\ \A a \in Blocks \ {b} : UpSet(C, b, d)[a] = C[a]
    BY <1>2 DEF UpSet
  <2>2. QED BY <1>2, <2>1
<1>3. QED BY <1>1, <1>2

\* A step that keeps the cache and the pointers of a call that makes an inode.
LEMMA DotsStay ==
  ASSUME Base, NEW p \in Procs, putting[p] = 0, MakingAt(p), ip[p] \in Inums,
         NEW pl \in {"c_dotdot", "c_link"}, pl = "c_dotdot" => call[p].kind = "mkdir",
         Resume(p, pl), UNCHANGED mem, UNCHANGED <<locals, putVars>>, DiskTypes'
  PROVE  /\ StepOf(p, pl, call[p], 0, dp[p], ip[p], fd[p], 0, ip[p], FALSE, FALSE, 0, "hold")
         /\ Base'
<1>1. PICK i, d : i = ip[p] /\ d = dp[p]
  OBVIOUS
<1>2. i \in Inums /\ d \in Inums /\ i \in Pointer /\ d \in Pointer
  BY <1>1 DEF MakingAt
<1>3. PICK m : m = Taken(i, FALSE, FALSE, 0)
  OBVIOUS
<1>4. mem' = Left(m, i, "hold") /\ 0 = LeftTrunc(m, i, "hold")
  BY <1>3 DEF Taken, Looked, Left, LeftTrunc
<1>5. Becomes(p, pl, call[p], 0, d, i, fd[p], 0, "clear")
  BY <1>1 DEF Becomes, Sets, Resume, locals, putVars, MakingAt
<1>6. PhaseAt(pl, call[p], 0, d, i, fd[p]) /\ pl \in Places
  BY <1>1, <1>2, MakingGoes DEF MakingAt
<1>7. Balanced(p, 0, d, i, fd[p], i, FALSE, 0, "hold")
  BY <1>1, <1>2, Sizes DEF Balanced, BalancedAt, One, Hit, MakingAt
<1>8. StepOf(p, pl, call[p], 0, d, i, fd[p], 0, i, FALSE, FALSE, 0, "hold")
  BY <1>2, <1>3, <1>4, <1>5, <1>6, StepIs DEF MakingAt
<1>9. Base'
  BY <1>2, <1>6, <1>7, <1>8, StepBase
<1>10. QED BY <1>1, <1>8, <1>9

LEMMA CreateDotsSteps ==
  ASSUME Base, NEW p \in Procs, CreateDots(p)
  PROVE  /\ (DotsBlock(p) \/ DotsInode(p) \/ DotsParent(p)) /\ Base'
         /\ putting[p] = 0 /\ MakingAt(p) /\ ip[p] \in Inums
<1>1. pc[p] \in {"c_balloc", "c_dot", "c_dotdot"} /\ putting[p] = 0
  BY DEF CreateDots, Ready
<1>2. MakingAt(p) /\ ip[p] \in Inums
  BY <1>1, MakingIs DEF MakingAt, Making, UsesIp
<1>3. PICK i, d : i = ip[p] /\ d = dp[p]
  OBVIOUS
<1>4. i \in Inums /\ d \in Inums /\ mem[i].ino \in Inode
  BY <1>2, <1>3, InodeIs DEF MakingAt
<1>5. CASE pc[p] = "c_balloc"
  <2>1. PICK b : b = First(Unused)
    OBVIOUS
  <2>2. /\ Unused # {} /\ bitmap' = bitmap \cup {b} /\ mem' = [mem EXCEPT ![i].ino.blk = b]
        /\ Resume(p, "c_dot") /\ UNCHANGED <<dino, content>> /\ UNCHANGED <<locals, putVars>>
    BY <1>3, <1>5, <2>1 DEF CreateDots, Ready
  <2>3. b \in Unused /\ b \in Blocks
    BY <2>1, <2>2, SomeBlock
  <2>4. PICK n : n = [mem[i].ino EXCEPT !.blk = b]
    OBVIOUS
  <2>5. n \in Inode
    BY <1>4, <2>3, <2>4, FieldsSet
  <2>6. PICK m : m = CopySet(IF FALSE THEN Locked(mem, i) ELSE mem, i, n)
    OBVIOUS
  <2>7. mem' = m
    BY <2>2, <2>4, <2>6 DEF CopySet
  <2>8. mem' = Left(m, i, "hold") /\ 0 = LeftTrunc(m, i, "hold")
    BY <2>7 DEF Left, LeftTrunc
  <2>9. PhaseAt("c_dot", call[p], 0, d, i, fd[p]) /\ "c_dot" \in Places
    BY <1>2, <1>3, <1>5, MakingGoes DEF MakingAt
  <2>10. Becomes(p, "c_dot", call[p], 0, d, i, fd[p], 0, "clear")
    BY <1>1, <1>2, <1>3, <2>2 DEF Becomes, Sets, Resume, locals, putVars, MakingAt
  <2>11. Balanced(p, 0, d, i, fd[p], i, FALSE, 0, "hold")
    BY <1>2, <1>3, Sizes DEF Balanced, BalancedAt, One, Hit, MakingAt
  <2>12. DiskTypes'
    BY <2>2, <2>3 DEF Base, Types, DiskTypes
  <2>13. EditOf(p, "c_dot", call[p], 0, d, i, fd[p], 0, i, FALSE, n, i, "hold") /\ Base'
    BY <1>1, <1>2, <1>3, <1>4, <2>5, <2>6, <2>8, <2>9, <2>10, <2>11, <2>12, EditStep, ZenonT(40) DEF MakingAt
  <2>14. DotsBlock(p)
    BY <1>3, <1>5, <2>2, <2>3, <2>4, <2>5, <2>13 DEF DotsBlock
  <2>15. QED BY <1>1, <1>2, <2>13, <2>14
<1>6. CASE pc[p] = "c_dot"
  <2>1. /\ Iupdate(i, mem[i].ino) /\ Resume(p, "c_dotdot") /\ UNCHANGED <<bitmap, content>>
        /\ UNCHANGED mem /\ UNCHANGED <<locals, putVars>>
    BY <1>3, <1>6 DEF CreateDots, Ready, Ino
  <2>2. dino' \in [Inums -> Inode] /\ DinoSet(i, mem[i].ino)
    BY <1>4, <2>1, DinoIs DEF Base, Types
  <2>3. DiskTypes'
    BY <2>1, <2>2 DEF Base, Types, DiskTypes
  <2>4. call[p].kind = "mkdir"
    BY <1>2, <1>6 DEF MakingAt
  <2>5. /\ StepOf(p, "c_dotdot", call[p], 0, dp[p], ip[p], fd[p], 0, ip[p], FALSE, FALSE, 0, "hold")
        /\ Base'
    BY <1>1, <1>2, <2>1, <2>3, <2>4, DotsStay
  <2>6. DotsInode(p)
    BY <1>3, <1>6, <2>1, <2>2, <2>5 DEF DotsInode
  <2>7. QED BY <1>1, <1>2, <2>5, <2>6
<1>7. CASE pc[p] = "c_dotdot"
  <2>1. /\ content' = UpSet(content, mem[i].ino.blk, d) /\ Resume(p, "c_link") /\ UNCHANGED <<bitmap, dino>>
        /\ UNCHANGED mem /\ UNCHANGED <<locals, putVars>>
    BY <1>3, <1>7 DEF CreateDots, Ready, Ino, UpSet
  <2>2. content' \in [Blocks -> DirBlock]
    BY <1>4, <2>1, UpWritten DEF Base, Types, DiskTypes
  <2>3. DiskTypes'
    BY <2>1, <2>2 DEF Base, Types, DiskTypes
  <2>4. /\ StepOf(p, "c_link", call[p], 0, dp[p], ip[p], fd[p], 0, ip[p], FALSE, FALSE, 0, "hold")
        /\ Base'
    BY <1>1, <1>2, <2>1, <2>3, DotsStay
  <2>5. DotsParent(p)
    BY <1>3, <1>7, <2>1, <2>4 DEF DotsParent
  <2>6. QED BY <1>1, <1>2, <2>4, <2>5
<1>8. QED BY <1>1, <1>5, <1>6, <1>7

-----------------------------------------------------------------------------
(* dirlink: an entry is written, and the directory may grow. *)

LEMMA NameIs ==
  ASSUME NEW p, call[p].path \in Paths, call[p].new \in Paths
  PROVE  NameOf(p) \in Names
<1>1. PICK q \in Paths : q = IF call[p].kind = "link" THEN call[p].new ELSE call[p].path
  OBVIOUS
<1>2. q \in Seq(Names) /\ q # <<>>
  BY InodesAssumption
<1>3. Len(q) \in 1..Len(q)
  BY <1>2
<1>4. q[Len(q)] \in Names
  BY <1>2, <1>3
<1>5. QED BY <1>1, <1>4 DEF NameOf, LastName

LEMMA Written ==
  ASSUME NEW C \in [Blocks -> DirBlock], NEW b, NEW s, NEW v \in Item, NEW C2, Writes(C, C2, b, s, v)
  PROVE  C2 \in [Blocks -> DirBlock]
<1>1. CASE b \in Blocks
  <2>1. PICK x \in DirBlock : x = C[b]
    BY <1>1
  <2>2. x.up \in {0} \cup Inums /\ x.ent \in [1..Slots -> Item]
    BY DEF DirBlock, Item
  <2>3. PICK f : f = [x.ent EXCEPT ![s] = v]
    OBVIOUS
  <2>4. f \in [1..Slots -> Item]
    BY <2>2, <2>3
  <2>5. PICK y : y = [x EXCEPT !.ent = f]
    OBVIOUS
  <2>6. y \in DirBlock
    BY <2>2, <2>4, <2>5 DEF DirBlock, Item
  <2>7. C2 = [C EXCEPT ![b] = y]
    BY <2>1, <2>3, <2>5 DEF Writes
  <2>8. QED BY <2>6, <2>7
<1>2. CASE b \notin Blocks
  BY <1>2 DEF Writes
<1>3. QED BY <1>1, <1>2

LEMMA SlotForIs ==
  ASSUME Base, NEW d \in Inums, NEW b, SlotFor(d, b) <= Slots
  PROVE  SlotFor(d, b) \in 1..Slots
<1>1. PICK z \in Nat : z = mem[d].ino.size
  BY InodeIs, FieldsSet
<1>2. PICK empty : empty = {s \in 1..Ino(mem, d).size : content[b].ent[s] = NoEnt}
  OBVIOUS
<1>3. empty \in SUBSET Nat /\ empty \subseteq 1..z
  BY <1>1, <1>2 DEF Ino
<1>4. SlotFor(d, b) = IF empty = {} THEN z + 1 ELSE First(empty)
  BY <1>1, <1>2 DEF SlotFor, Ino
<1>5. CASE empty = {}
  BY <1>1, <1>4, <1>5, Sizes
<1>6. CASE empty # {}
  <2>1. First(empty) \in 1..z
    BY <1>3, <1>6, FirstFound
  <2>2. QED BY <1>1, <1>4, <1>6, <2>1, Sizes
<1>7. QED BY <1>5, <1>6

LEMMA LinkingIs ==
  ASSUME Base, NEW p \in Procs, putting[p] = 0, pc[p] \in {"c_link", "l_link", "c_size", "l_size"}
  PROVE  /\ LinkingAt(p)
         /\ pc[p] \in {"c_link", "l_link"} =>
              PhaseAt(LinkMakes(p), call[p], 0, dp[p], ip[p], fd[p]) /\ LinkMakes(p) \in Places
         /\ \A pl : pl = (IF pc[p] \in {"c_link", "c_size"} THEN "c_end" ELSE "l_end") =>
              PhaseAt(pl, call[p], 0, 0, ip[p], fd[p]) /\ pl \in Places
<1>1. CASE pc[p] \in {"c_link", "c_size"}
  <2>1. MakingAt(p) /\ ip[p] \in Inums /\ ip[p] \in Pointer
    BY <1>1, MakingIs DEF MakingAt, Making, UsesIp
  <2>2. /\ PhaseAt("c_size", call[p], 0, dp[p], ip[p], fd[p]) /\ "c_size" \in Places
        /\ PhaseAt("c_end", call[p], 0, 0, ip[p], fd[p]) /\ "c_end" \in Places
    BY <2>1, MakingGoes DEF MakingAt
  <2>3. QED BY <1>1, <2>1, <2>2 DEF MakingAt, LinkingAt, LinkMakes
<1>2. CASE pc[p] \in {"l_link", "l_size"}
  <2>1. /\ dp[p] \in Inums /\ ip[p] \in Inums /\ dp[p] \in Pointer /\ ip[p] \in Pointer
        /\ cur[p] = 0 /\ stage[p] = "clear" /\ fd[p] \in Pointer /\ 0 \in Pointer
        /\ call[p] \in Calls /\ call[p].kind = "link" /\ call[p].path \in Paths
        /\ call[p].new \in Paths
    BY <1>2, LinkLocals
  <2>2. /\ PhaseAt("l_size", call[p], 0, dp[p], ip[p], fd[p]) /\ "l_size" \in Places
        /\ PhaseAt("l_end", call[p], 0, 0, ip[p], fd[p]) /\ "l_end" \in Places
    BY <2>1, LinkPhases
  <2>3. QED BY <1>2, <2>1, <2>2 DEF LinkingAt, LinkMakes
<1>3. QED BY <1>1, <1>2

LEMMA DirlinkSteps ==
  ASSUME Base, NEW p \in Procs, CreateDirlink(p) \/ LinkDirlink(p)
  PROVE  DirlinkStep(p) /\ Base' /\ putting[p] = 0 /\ LinkingAt(p)
<1>1. pc[p] \in {"c_link", "l_link"} /\ putting[p] = 0
  BY DEF CreateDirlink, LinkDirlink, Ready
<1>2. LinkingAt(p)
  BY <1>1, LinkingIs
<1>3. PICK i, d, mk, en : i = ip[p] /\ d = dp[p] /\ mk = LinkMakes(p) /\ en = LinkEnds(p)
  OBVIOUS
<1>4. i \in Inums /\ d \in Inums /\ d \in Pointer /\ i \in Pointer
  BY <1>2, <1>3 DEF LinkingAt
<1>5. PICK s, b : b = mem[d].ino.blk /\ s = SlotFor(d, b)
  OBVIOUS
<1>6. WriteEntry(d, NameOf(p), i) /\ UNCHANGED <<dino, bitmap>>
  BY <1>3 DEF CreateDirlink, LinkDirlink
<1>7. s <= Slots /\ Writes(content, content', b, s, <<NameOf(p), i>>)
  BY <1>5, <1>6 DEF WriteEntry, Ino, Writes
<1>8. s \in 1..Slots
  BY <1>4, <1>5, <1>7, SlotForIs
<1>9. NameOf(p) \in Names
  BY <1>2, NameIs DEF LinkingAt
<1>10. <<NameOf(p), i>> \in Item
  BY <1>4, <1>9 DEF Item
<1>11. content' \in [Blocks -> DirBlock]
  BY <1>7, <1>10, Written DEF Base, Types, DiskTypes
<1>12. DiskTypes'
  BY <1>6, <1>11 DEF Base, Types, DiskTypes
<1>13. \/ Resume(p, mk) /\ UNCHANGED <<mem, locals, putVars>>
       \/ Linked(p, mem, en)
  BY <1>1, <1>3 DEF CreateDirlink, LinkDirlink, LinkMakes, LinkEnds, Ready
<1>14. CASE Resume(p, mk) /\ UNCHANGED <<mem, locals, putVars>>
  <2>1. PICK m : m = Taken(d, FALSE, FALSE, 0)
    OBVIOUS
  <2>2. mem' = Left(m, d, "hold") /\ 0 = LeftTrunc(m, d, "hold")
    BY <1>14, <2>1 DEF Taken, Looked, Left, LeftTrunc
  <2>3. Becomes(p, mk, call[p], 0, d, i, fd[p], 0, "clear")
    BY <1>1, <1>2, <1>3, <1>14 DEF Becomes, Sets, Resume, locals, putVars, LinkingAt
  <2>4. PhaseAt(mk, call[p], 0, d, i, fd[p]) /\ mk \in Places
    BY <1>1, <1>3, LinkingIs
  <2>5. Balanced(p, 0, d, i, fd[p], d, FALSE, 0, "hold")
    BY <1>2, <1>3, Sizes DEF Balanced, BalancedAt, One, Hit, LinkingAt
  <2>6. StepOf(p, mk, call[p], 0, d, i, fd[p], 0, d, FALSE, FALSE, 0, "hold")
    BY <1>2, <1>4, <2>1, <2>2, <2>3, <2>4, StepIs DEF LinkingAt
  <2>7. Base'
    BY <1>1, <1>4, <1>12, <2>4, <2>5, <2>6, StepBase
  <2>8. DirlinkStep(p)
    BY <1>1, <1>3, <1>5, <1>6, <1>7, <1>8, <1>9, <2>6 DEF DirlinkStep
  <2>9. QED BY <1>1, <1>2, <2>7, <2>8
<1>15. CASE Linked(p, mem, en)
  <2>1. PICK t : /\ mem' = Left(mem, d, "drop") /\ t = LeftTrunc(mem, d, "drop")
                 /\ Becomes(p, en, call[p], 0, 0, i, fd[p], t, "clear")
    BY <1>2, <1>3, <1>15, LinkedDrops DEF LinkingAt
  <2>2. PICK m : m = Taken(d, FALSE, FALSE, 0)
    OBVIOUS
  <2>3. mem' = Left(m, d, "drop") /\ t = LeftTrunc(m, d, "drop")
    BY <2>1, <2>2 DEF Taken, Looked
  <2>4. PhaseAt(en, call[p], 0, 0, i, fd[p]) /\ en \in Places
    BY <1>1, <1>3, LinkingIs DEF LinkEnds
  <2>5. Balanced(p, 0, 0, i, fd[p], d, FALSE, 0, "drop")
    BY <1>2, <1>3, Sizes DEF Balanced, BalancedAt, One, Hit, LinkingAt
  <2>6. StepOf(p, en, call[p], 0, 0, i, fd[p], t, d, FALSE, FALSE, 0, "drop")
    BY <1>2, <1>4, <2>1, <2>2, <2>3, <2>4, StepIs DEF LinkingAt
  <2>7. Base'
    BY <1>1, <1>4, <1>12, <2>4, <2>5, <2>6, StepBase
  <2>8. DirlinkStep(p)
    BY <1>1, <1>3, <1>5, <1>6, <1>7, <1>8, <1>9, <2>6 DEF DirlinkStep
  <2>9. QED BY <1>1, <1>2, <2>7, <2>8
<1>16. QED BY <1>13, <1>14, <1>15

LEMMA ExtendEdits ==
  ASSUME Base, NEW p \in Procs, CreateExtend(p) \/ LinkExtend(p)
  PROVE  ExtendEdit(p) /\ Base' /\ putting[p] = 0 /\ LinkingAt(p)
<1>1. pc[p] \in {"c_size", "l_size"} /\ putting[p] = 0
  BY DEF CreateExtend, LinkExtend, Ready
<1>2. LinkingAt(p)
  BY <1>1, LinkingIs
<1>3. PICK i, d, en : /\ i = ip[p] /\ d = dp[p]
                      /\ en = IF pc[p] = "c_size" THEN "c_end" ELSE "l_end"
  OBVIOUS
<1>4. i \in Inums /\ d \in Inums /\ d \in Pointer /\ i \in Pointer /\ mem[d].ino \in Inode
  BY <1>2, <1>3, InodeIs DEF LinkingAt
<1>5. PICK v, n : v = mem[d].ino.size + 1 /\ n = [mem[d].ino EXCEPT !.size = v]
  OBVIOUS
<1>6. n \in Inode
  BY <1>4, <1>5, FieldsSet
<1>7. PICK m : m = CopySet(IF FALSE THEN Locked(mem, d) ELSE mem, d, n)
  OBVIOUS
<1>8. PICK m2 : m2 = [mem EXCEPT ![d].ino.size = @ + 1]
  OBVIOUS
<1>9. m2 = m
  BY <1>5, <1>7, <1>8 DEF CopySet
<1>10. Iupdate(d, m[d].ino) /\ Linked(p, m, en) /\ UNCHANGED <<bitmap, content>>
  BY <1>1, <1>3, <1>8, <1>9 DEF CreateExtend, LinkExtend, Ino, Ready
<1>11. m[d].ino = n
  BY <1>4, <1>6, <1>7, CopyMade
<1>12. dino' \in [Inums -> Inode] /\ DinoSet(d, n)
  BY <1>4, <1>6, <1>10, <1>11, DinoIs DEF Base, Types
<1>13. DiskTypes'
  BY <1>10, <1>12 DEF Base, Types, DiskTypes
<1>14. PICK t : /\ mem' = Left(m, d, "drop") /\ t = LeftTrunc(m, d, "drop")
                /\ Becomes(p, en, call[p], 0, 0, i, fd[p], t, "clear")
  BY <1>2, <1>3, <1>10, LinkedDrops DEF LinkingAt
<1>15. PhaseAt(en, call[p], 0, 0, i, fd[p]) /\ en \in Places
  BY <1>1, <1>3, LinkingIs
<1>16. Balanced(p, 0, 0, i, fd[p], d, FALSE, 0, "drop")
  BY <1>2, <1>3, Sizes DEF Balanced, BalancedAt, One, Hit, LinkingAt
<1>17. EditOf(p, en, call[p], 0, 0, i, fd[p], t, d, FALSE, n, d, "drop") /\ Base'
  BY <1>1, <1>2, <1>4, <1>6, <1>7, <1>13, <1>14, <1>15, <1>16, EditStep DEF LinkingAt
<1>18. ExtendEdit(p)
  BY <1>1, <1>3, <1>5, <1>6, <1>10, <1>12, <1>17 DEF ExtendEdit
<1>19. QED BY <1>1, <1>2, <1>17, <1>18

-----------------------------------------------------------------------------
(* link and unlink: the counts, and the entry that goes. *)

LEMMA LinkOldEdits ==
  ASSUME Base, NEW p \in Procs, LinkOld(p), Ino(Locked(mem, ip[p]), ip[p]).type # "dir"
  PROVE  /\ Base' /\ pc[p] = "l_old" /\ putting[p] = 0 /\ ip[p] \in Inums /\ dp[p] = 0 /\ cur[p] = 0
         /\ call[p].kind = "link" /\ ~mem[ip[p]].busy /\ UNCHANGED <<bitmap, content>>
         /\ Locked(mem, ip[p])[ip[p]].ino.type # "dir"
         /\ \E n, v :
              /\ n \in Inode
              /\ v = Locked(mem, ip[p])[ip[p]].ino.nlink + 1
              /\ n = [Locked(mem, ip[p])[ip[p]].ino EXCEPT !.nlink = v] /\ DinoSet(ip[p], n)
              /\ EditOf(p, "walkp", call[p], 0, 0, ip[p], fd[p], 0, ip[p], TRUE, n, ip[p], "unlock")
<1>1. pc[p] = "l_old" /\ putting[p] = 0 /\ ~mem[ip[p]].busy
  BY DEF LinkOld, Ready, Free
<1>2. /\ ip[p] \in Inums /\ ip[p] \in Pointer /\ dp[p] = 0 /\ cur[p] = 0 /\ stage[p] = "clear"
      /\ fd[p] \in Pointer /\ 0 \in Pointer /\ call[p] \in Calls /\ call[p].kind = "link"
      /\ call[p].path \in Paths /\ call[p].new \in Paths
  BY <1>1, Locals DEF UsesIp, UsesDp, Making, Walks, Links, Pointer, KindFits
<1>3. PICK i, m0 : i = ip[p] /\ m0 = Locked(mem, i)
  OBVIOUS
<1>4. m0[i].ino \in Inode /\ CacheOK(m0) /\ m0[i].ino.type # "dir"
  BY <1>2, <1>3, InodeIs, LockedIs DEF Ino, LockRel, Base, Types, CacheTypes, CacheOK
<1>5. PICK v, n : v = m0[i].ino.nlink + 1 /\ n = [m0[i].ino EXCEPT !.nlink = v]
  OBVIOUS
<1>6. n \in Inode
  BY <1>4, <1>5, FieldsSet
<1>7. PICK m : m = CopySet(IF TRUE THEN Locked(mem, i) ELSE mem, i, n)
  OBVIOUS
<1>8. Iupdate(i, n) /\ mem' = [Unlocked(m0, i) EXCEPT ![i].ino.nlink = @ + 1]
      /\ Resume(p, "walkp") /\ UNCHANGED <<call, cur, dp, ip, fd, putVars>>
      /\ UNCHANGED <<bitmap, content>>
  BY <1>3, <1>5 DEF LinkOld, Ino
<1>9. mem' = Unlocked(m, i)
  <2>1. PICK x : x = m0[i]
    OBVIOUS
  <2>2. PICK y, z : y = [x EXCEPT !.busy = FALSE] /\ z = [y EXCEPT !.ino = n]
    OBVIOUS
  <2>3. PICK u : u = Unlocked(m0, i)
    OBVIOUS
  <2>4. u = [m0 EXCEPT ![i] = y] /\ x.ino = y.ino
    BY <1>2, <1>3, <1>4, <2>1, <2>2, <2>3 DEF Unlocked, CacheOK, Cached
  <2>5. u[i] = y /\ i \in DOMAIN m0 /\ DOMAIN u = DOMAIN m0
    BY <1>2, <1>3, <1>4, <2>4 DEF CacheOK
  <2>6. mem' = [u EXCEPT ![i] = z]
    BY <1>5, <1>8, <2>1, <2>2, <2>3, <2>4, <2>5
  <2>7. mem' = [m0 EXCEPT ![i] = z]
    BY <2>4, <2>6
  <2>8. PICK w : w = [x EXCEPT !.ino = n]
    OBVIOUS
  <2>9. m = [m0 EXCEPT ![i] = w] /\ m[i] = w
    BY <1>2, <1>3, <1>4, <1>7, <2>1, <2>8 DEF CopySet, CacheOK
  <2>10. Unlocked(m, i) = [m EXCEPT ![i] = [w EXCEPT !.busy = FALSE]]
    BY <2>9 DEF Unlocked
  <2>11. [w EXCEPT !.busy = FALSE] = z
    BY <1>2, <1>3, <1>4, <2>1, <2>2, <2>8 DEF CacheOK, Cached
  <2>12. Unlocked(m, i) = [m0 EXCEPT ![i] = z]
    BY <2>9, <2>10, <2>11
  <2>13. QED BY <2>7, <2>12
<1>10. mem' = Left(m, i, "unlock") /\ 0 = LeftTrunc(m, i, "unlock")
  BY <1>9 DEF Left, LeftTrunc
<1>11. dino' \in [Inums -> Inode] /\ DinoSet(i, n)
  BY <1>2, <1>3, <1>6, <1>8, DinoIs DEF Base, Types
<1>12. DiskTypes'
  BY <1>8, <1>11 DEF Base, Types, DiskTypes
<1>13. Becomes(p, "walkp", call[p], 0, 0, i, fd[p], 0, "clear")
  BY <1>1, <1>2, <1>3, <1>8 DEF Becomes, Sets, Resume, putVars
<1>14. PhaseAt("walkp", call[p], 0, 0, i, fd[p]) /\ "walkp" \in Places
  BY <1>2, <1>3, LinkPhases
<1>15. Balanced(p, 0, 0, i, fd[p], i, FALSE, 0, "unlock")
  BY <1>2, <1>3, Sizes DEF Balanced, BalancedAt, One, Hit
<1>16. EditOf(p, "walkp", call[p], 0, 0, i, fd[p], 0, i, TRUE, n, i, "unlock") /\ Base'
  BY <1>1, <1>2, <1>3, <1>6, <1>7, <1>10, <1>12, <1>13, <1>14, <1>15, EditStep
<1>17. QED BY <1>1, <1>2, <1>3, <1>4, <1>5, <1>6, <1>8, <1>11, <1>16

LEMMA LinkBadEdits ==
  ASSUME Base, NEW p \in Procs, LinkBad(p)
  PROVE  /\ Base' /\ pc[p] = "l_bad" /\ putting[p] = 0 /\ ip[p] \in Inums /\ dp[p] = 0 /\ cur[p] = 0
         /\ ~mem[ip[p]].busy /\ UNCHANGED <<bitmap, content>>
         /\ \E n, v, t :
              /\ n \in Inode
              /\ v = Locked(mem, ip[p])[ip[p]].ino.nlink - 1
              /\ n = [Locked(mem, ip[p])[ip[p]].ino EXCEPT !.nlink = v] /\ DinoSet(ip[p], n)
              /\ EditOf(p, "idle", NoCall, 0, 0, 0, fd[p], t, ip[p], TRUE, n, ip[p], "drop")
<1>1. pc[p] = "l_bad" /\ putting[p] = 0 /\ ~mem[ip[p]].busy
  BY DEF LinkBad, Ready, Free
<1>2. /\ ip[p] \in Inums /\ ip[p] \in Pointer /\ dp[p] = 0 /\ cur[p] = 0 /\ stage[p] = "clear"
      /\ fd[p] \in Pointer
  BY <1>1, Locals DEF UsesIp, UsesDp, Making, Walks, Links, Pointer
<1>3. PICK i, m0 : i = ip[p] /\ m0 = Locked(mem, i)
  OBVIOUS
<1>4. m0[i].ino \in Inode
  BY <1>2, <1>3, InodeIs
<1>5. PICK v, n : v = m0[i].ino.nlink - 1 /\ n = [m0[i].ino EXCEPT !.nlink = v]
  OBVIOUS
<1>6. n \in Inode
  BY <1>4, <1>5, FieldsSet
<1>7. PICK m : m = CopySet(IF TRUE THEN Locked(mem, i) ELSE mem, i, n)
  OBVIOUS
<1>8. PICK m2 : m2 = [m0 EXCEPT ![i].ino.nlink = LessOne(@)]
  OBVIOUS
<1>9. m2 = m
  BY <1>3, <1>5, <1>7, <1>8 DEF CopySet, LessOne
<1>10. PICK t : t = LeftTrunc(m, i, "drop")
  OBVIOUS
<1>11. /\ Iupdate(i, m[i].ino) /\ mem' = Dropped(m, i) /\ Later(p, DropTrunc(m, i)) /\ End(p, fd[p])
       /\ UNCHANGED <<bitmap, content>>
  BY <1>3, <1>8, <1>9 DEF LinkBad, Ino
<1>12. m[i].ino = n
  BY <1>2, <1>3, <1>6, <1>7, CopyMade
<1>13. dino' \in [Inums -> Inode] /\ DinoSet(i, n)
  BY <1>2, <1>3, <1>6, <1>11, <1>12, DinoIs DEF Base, Types
<1>14. DiskTypes'
  BY <1>11, <1>13 DEF Base, Types, DiskTypes
<1>15. mem' = Left(m, i, "drop") /\ Later(p, t)
  BY <1>10, <1>11 DEF Left, LeftTrunc
<1>16. /\ Becomes(p, "idle", NoCall, 0, 0, 0, fd[p], t, "clear") /\ PhaseAt("idle", NoCall, 0, 0, 0, fd[p])
       /\ "idle" \in Places /\ NoCall \in Calls /\ 0 \in Pointer
  BY <1>2, <1>11, <1>15, EndIs
<1>17. Balanced(p, 0, 0, 0, fd[p], i, FALSE, 0, "drop")
  BY <1>2, <1>3, Sizes DEF Balanced, BalancedAt, One, Hit
<1>18. EditOf(p, "idle", NoCall, 0, 0, 0, fd[p], t, i, TRUE, n, i, "drop") /\ Base'
  BY <1>1, <1>2, <1>3, <1>6, <1>7, <1>10, <1>14, <1>15, <1>16, <1>17, EditStep
<1>19. QED BY <1>1, <1>2, <1>3, <1>5, <1>6, <1>11, <1>13, <1>18

LEMMA GoneSteps ==
  ASSUME Base, NEW p \in Procs, UnlinkEntry(p),
         ~(Ino(Locked(mem, ip[p]), ip[p]).type = "dir" /\ ~Empty(Locked(mem, ip[p]), ip[p]))
  PROVE  GoneStep(p) /\ Base' /\ putting[p] = 0 /\ dp[p] \in Inums /\ ip[p] \in Inums /\ cur[p] = 0
<1>1. pc[p] = "u_ip" /\ putting[p] = 0 /\ ~mem[ip[p]].busy
  BY DEF UnlinkEntry, Ready, Free
<1>2. /\ dp[p] \in Inums /\ dp[p] \in Pointer /\ ip[p] \in Inums /\ ip[p] \in Pointer
      /\ cur[p] = 0 /\ stage[p] = "clear" /\ fd[p] \in Pointer /\ 0 \in Pointer
      /\ call[p] \in Calls /\ call[p].kind = "unlink" /\ call[p].path \in Paths
      /\ call[p].new \in Paths
  BY <1>1, UnlinkLocals
<1>3. PICK i, d, m0 : i = ip[p] /\ d = dp[p] /\ m0 = Locked(mem, i)
  OBVIOUS
<1>4. m0[i].ino \in Inode /\ CacheOK(m0)
  BY <1>2, <1>3, InodeIs, LockedIs DEF LockRel, Base, Types, CacheTypes, CacheOK
<1>5. PICK n : n = m0[i].ino
  OBVIOUS
<1>6. PICK m : m = CopySet(IF TRUE THEN Locked(mem, i) ELSE mem, i, n)
  OBVIOUS
<1>7. m = m0
  <2>1. m = [m0 EXCEPT ![i] = [m0[i] EXCEPT !.ino = n]]
    BY <1>3, <1>6 DEF CopySet
  <2>2. [m0[i] EXCEPT !.ino = n] = m0[i]
    BY <1>2, <1>3, <1>4, <1>5 DEF CacheOK, Cached
  <2>3. QED BY <1>4, <2>1, <2>2 DEF CacheOK
<1>8. PICK s, b : s = First(Where(m0, d, NameOf(p))) /\ b = m0[d].ino.blk
  BY Zenon
<1>9. /\ Writes(content, content', b, s, NoEnt) /\ UNCHANGED <<dino, bitmap>>
      /\ (n.type = "dir" => Empty(m0, i))
      /\ IF n.type = "dir" THEN mem' = m0 /\ Resume(p, "u_dp") /\ UNCHANGED <<locals, putVars>>
                           ELSE Linked(p, m0, "u_nlink")
  BY <1>3, <1>5, <1>8, Zenon DEF UnlinkEntry, Ino, Writes
<1>10. content' \in [Blocks -> DirBlock]
  <2>1. NoEnt \in Item
    BY DEF Item
  <2>2. QED BY <1>9, <2>1, Written DEF Base, Types, DiskTypes
<1>11. DiskTypes'
  BY <1>9, <1>10 DEF Base, Types, DiskTypes
<1>12. CASE n.type = "dir"
  <2>1. mem' = Left(m, i, "hold") /\ 0 = LeftTrunc(m, i, "hold")
    BY <1>7, <1>9, <1>12 DEF Left, LeftTrunc
  <2>2. Becomes(p, "u_dp", call[p], 0, d, i, fd[p], 0, "clear")
    BY <1>1, <1>2, <1>3, <1>9, <1>12 DEF Becomes, Sets, Resume, locals, putVars
  <2>3. PhaseAt("u_dp", call[p], 0, d, i, fd[p]) /\ "u_dp" \in Places
    BY <1>2, <1>3, UnlinkPhases
  <2>4. Balanced(p, 0, d, i, fd[p], i, FALSE, 0, "hold")
    BY <1>2, <1>3, Sizes DEF Balanced, BalancedAt, One, Hit
  <2>5. EditOf(p, "u_dp", call[p], 0, d, i, fd[p], 0, i, TRUE, n, i, "hold") /\ Base'
    BY <1>1, <1>2, <1>3, <1>4, <1>5, <1>6, <1>11, <2>1, <2>2, <2>3, <2>4, EditStep, ZenonT(40)
  <2>6. GoneStep(p)
    BY <1>1, <1>3, <1>4, <1>5, <1>8, <1>9, <1>12, <2>5 DEF GoneStep
  <2>7. QED BY <1>1, <1>2, <2>5, <2>6
<1>13. CASE n.type # "dir"
  <2>1. PICK t : /\ mem' = Left(m, d, "drop") /\ t = LeftTrunc(m, d, "drop")
                 /\ Becomes(p, "u_nlink", call[p], 0, 0, i, fd[p], t, "clear")
    BY <1>2, <1>3, <1>7, <1>9, <1>13, LinkedDrops
  <2>2. PhaseAt("u_nlink", call[p], 0, 0, i, fd[p]) /\ "u_nlink" \in Places
    BY <1>2, <1>3, UnlinkPhases
  <2>3. Balanced(p, 0, 0, i, fd[p], d, FALSE, 0, "drop")
    BY <1>2, <1>3, Sizes DEF Balanced, BalancedAt, One, Hit
  <2>4. EditOf(p, "u_nlink", call[p], 0, 0, i, fd[p], t, i, TRUE, n, d, "drop") /\ Base'
    BY <1>1, <1>2, <1>3, <1>4, <1>5, <1>6, <1>11, <2>1, <2>2, <2>3, EditStep
  <2>5. GoneStep(p)
    BY <1>1, <1>3, <1>4, <1>5, <1>8, <1>9, <1>13, <2>4 DEF GoneStep
  <2>6. QED BY <1>1, <1>2, <2>4, <2>5
<1>14. QED BY <1>12, <1>13

LEMMA UnlinkParentEdits ==
  ASSUME Base, NEW p \in Procs, UnlinkParent(p)
  PROVE  /\ Base' /\ pc[p] = "u_dp" /\ putting[p] = 0 /\ dp[p] \in Inums /\ ip[p] \in Inums /\ cur[p] = 0
         /\ UNCHANGED <<bitmap, content>>
         /\ \E n, v, t :
              /\ n \in Inode
              /\ v = mem[dp[p]].ino.nlink - 1
              /\ n = [mem[dp[p]].ino EXCEPT !.nlink = v] /\ DinoSet(dp[p], n)
              /\ EditOf(p, "u_nlink", call[p], 0, 0, ip[p], fd[p], t, dp[p], FALSE, n, dp[p], "drop")
<1>1. pc[p] = "u_dp" /\ putting[p] = 0
  BY DEF UnlinkParent, Ready
<1>2. /\ dp[p] \in Inums /\ dp[p] \in Pointer /\ ip[p] \in Inums /\ ip[p] \in Pointer
      /\ cur[p] = 0 /\ stage[p] = "clear" /\ fd[p] \in Pointer /\ 0 \in Pointer
      /\ call[p] \in Calls /\ call[p].kind = "unlink" /\ call[p].path \in Paths
      /\ call[p].new \in Paths
  BY <1>1, UnlinkLocals
<1>3. PICK i, d : i = ip[p] /\ d = dp[p]
  OBVIOUS
<1>4. mem[d].ino \in Inode
  BY <1>2, <1>3, InodeIs
<1>5. PICK v, n : v = mem[d].ino.nlink - 1 /\ n = [mem[d].ino EXCEPT !.nlink = v]
  OBVIOUS
<1>6. n \in Inode
  BY <1>4, <1>5, FieldsSet
<1>7. PICK m : m = CopySet(IF FALSE THEN Locked(mem, d) ELSE mem, d, n)
  OBVIOUS
<1>8. PICK m2 : m2 = [mem EXCEPT ![d].ino.nlink = @ - 1]
  OBVIOUS
<1>9. m2 = m
  BY <1>5, <1>7, <1>8 DEF CopySet
<1>10. Iupdate(d, m[d].ino) /\ Linked(p, m, "u_nlink") /\ UNCHANGED <<bitmap, content>>
  BY <1>3, <1>8, <1>9 DEF UnlinkParent, Ino
<1>11. m[d].ino = n
  BY <1>2, <1>3, <1>6, <1>7, CopyMade
<1>12. dino' \in [Inums -> Inode] /\ DinoSet(d, n)
  BY <1>2, <1>3, <1>6, <1>10, <1>11, DinoIs DEF Base, Types
<1>13. DiskTypes'
  BY <1>10, <1>12 DEF Base, Types, DiskTypes
<1>14. PICK t : /\ mem' = Left(m, d, "drop") /\ t = LeftTrunc(m, d, "drop")
                /\ Becomes(p, "u_nlink", call[p], 0, 0, i, fd[p], t, "clear")
  BY <1>2, <1>3, <1>10, LinkedDrops
<1>15. PhaseAt("u_nlink", call[p], 0, 0, i, fd[p]) /\ "u_nlink" \in Places
  BY <1>2, <1>3, UnlinkPhases
<1>16. Balanced(p, 0, 0, i, fd[p], d, FALSE, 0, "drop")
  BY <1>2, <1>3, Sizes DEF Balanced, BalancedAt, One, Hit
<1>17. EditOf(p, "u_nlink", call[p], 0, 0, i, fd[p], t, d, FALSE, n, d, "drop") /\ Base'
  BY <1>1, <1>2, <1>3, <1>6, <1>7, <1>13, <1>14, <1>15, <1>16, EditStep
<1>18. QED BY <1>1, <1>2, <1>3, <1>5, <1>6, <1>10, <1>12, <1>17

LEMMA UnlinkNlinkEdits ==
  ASSUME Base, NEW p \in Procs, UnlinkNlink(p)
  PROVE  /\ Base' /\ pc[p] = "u_nlink" /\ putting[p] = 0 /\ ip[p] \in Inums /\ dp[p] = 0 /\ cur[p] = 0
         /\ UNCHANGED <<bitmap, content>>
         /\ \E n, v, t :
              /\ n \in Inode
              /\ v = mem[ip[p]].ino.nlink - 1
              /\ n = [mem[ip[p]].ino EXCEPT !.nlink = v] /\ DinoSet(ip[p], n)
              /\ EditOf(p, "idle", NoCall, 0, 0, 0, fd[p], t, ip[p], FALSE, n, ip[p], "drop")
<1>1. pc[p] = "u_nlink" /\ putting[p] = 0
  BY DEF UnlinkNlink, Ready
<1>2. /\ ip[p] \in Inums /\ ip[p] \in Pointer /\ dp[p] = 0 /\ cur[p] = 0 /\ stage[p] = "clear"
      /\ fd[p] \in Pointer
  BY <1>1, Locals DEF UsesIp, UsesDp, Making, Walks, Links, Pointer
<1>3. PICK i : i = ip[p]
  OBVIOUS
<1>4. mem[i].ino \in Inode
  BY <1>2, <1>3, InodeIs
<1>5. PICK v, n : v = mem[i].ino.nlink - 1 /\ n = [mem[i].ino EXCEPT !.nlink = v]
  OBVIOUS
<1>6. n \in Inode
  BY <1>4, <1>5, FieldsSet
<1>7. PICK m : m = CopySet(IF FALSE THEN Locked(mem, i) ELSE mem, i, n)
  OBVIOUS
<1>8. PICK m2 : m2 = [mem EXCEPT ![i].ino.nlink = @ - 1]
  OBVIOUS
<1>9. m2 = m
  BY <1>3, <1>5, <1>7, <1>8 DEF CopySet
<1>10. PICK t : t = LeftTrunc(m, i, "drop")
  OBVIOUS
<1>11. /\ Iupdate(i, m[i].ino) /\ mem' = Dropped(m, i) /\ Later(p, DropTrunc(m, i)) /\ End(p, fd[p])
       /\ UNCHANGED <<bitmap, content>>
  BY <1>3, <1>8, <1>9 DEF UnlinkNlink, Ino
<1>12. m[i].ino = n
  BY <1>2, <1>3, <1>6, <1>7, CopyMade
<1>13. dino' \in [Inums -> Inode] /\ DinoSet(i, n)
  BY <1>2, <1>3, <1>6, <1>11, <1>12, DinoIs DEF Base, Types
<1>14. DiskTypes'
  BY <1>11, <1>13 DEF Base, Types, DiskTypes
<1>15. mem' = Left(m, i, "drop") /\ Later(p, t)
  BY <1>10, <1>11 DEF Left, LeftTrunc
<1>16. /\ Becomes(p, "idle", NoCall, 0, 0, 0, fd[p], t, "clear") /\ PhaseAt("idle", NoCall, 0, 0, 0, fd[p])
       /\ "idle" \in Places /\ NoCall \in Calls /\ 0 \in Pointer
  BY <1>2, <1>11, <1>15, EndIs
<1>17. Balanced(p, 0, 0, 0, fd[p], i, FALSE, 0, "drop")
  BY <1>2, <1>3, Sizes DEF Balanced, BalancedAt, One, Hit
<1>18. EditOf(p, "idle", NoCall, 0, 0, 0, fd[p], t, i, FALSE, n, i, "drop") /\ Base'
  BY <1>1, <1>2, <1>3, <1>6, <1>7, <1>10, <1>14, <1>15, <1>16, <1>17, EditStep
<1>19. QED BY <1>1, <1>2, <1>3, <1>5, <1>6, <1>11, <1>13, <1>18

-----------------------------------------------------------------------------
(* The rest of iput: the calls stay where they are. *)

LEMMA StaysIs ==
  ASSUME Base, NEW p \in Procs, NEW t \in Pointer, NEW st \in Stages, UNCHANGED <<pc, locals>>,
         Sets(putting, putting', p, t), Sets(stage, stage', p, st)
  PROVE  StaysAt(p, t, st)
<1>1. /\ cur[p] \in Pointer /\ dp[p] \in Pointer /\ ip[p] \in Pointer /\ fd[p] \in Pointer
      /\ call[p] \in Calls /\ pc[p] \in Places
  BY Pointed
<1>2. Becomes(p, pc[p], call[p], cur[p], dp[p], ip[p], fd[p], t, st)
  BY DEF Becomes, Sets, locals
<1>3. LocalTypes' /\ Mine(p, pc[p], call[p], cur[p], dp[p], ip[p], fd[p], t, st) /\ OthersSame(p)
  BY <1>1, <1>2, Settled DEF Base, Types
<1>4. QED BY <1>3 DEF StaysAt

\* A step of iput keeps the first parts of the invariant; its last one gives
\* the reference back.
LEMMA StayBase ==
  ASSUME Base, NEW p \in Procs, NEW i \in Inums, putting[p] = i, NEW st,
         DiskTypes', CacheTypes',
         \/ StaysAt(p, i, st) /\ \A x \in Inums : mem'[x].ref = mem[x].ref
         \/ /\ StaysAt(p, 0, st) /\ st = "clear"
            /\ \A x \in Inums : mem'[x].ref = IF x = i THEN mem[x].ref - 1 ELSE mem[x].ref
  PROVE  Base'
<1>1. PICK t \in {0, i} : /\ StaysAt(p, t, st) /\ (t = 0 => st = "clear")
                          /\ \A x \in Inums : mem'[x].ref = IF x = i /\ t = 0 THEN mem[x].ref - 1
                                                                            ELSE mem[x].ref
  BY Sizes
<1>2. OthersSame(p) /\ LocalTypes'
  BY <1>1 DEF StaysAt
<1>3. PhaseOf(p)'
  <2>1. PhaseOf(p)
    BY Pointed
  <2>2. QED BY <1>1, <2>1 DEF StaysAt, Mine, PhaseOf
<1>4. ASSUME NEW x \in Inums PROVE mem'[x].ref = (mem[x].ref + Hits(p, x)') - Hits(p, x)
  <2>1. mem[x].ref \in Int
    BY SlotIs DEF Base, Types, CacheTypes, CacheOK
  <2>2. PICK a \in Int : a = Hit(fd[p], x) + Hit(cur[p], x) + Hit(dp[p], x) + Hit(ip[p], x)
    BY DEF Hit
  <2>3. Hits(p, x) = a + Hit(i, x) /\ Hits(p, x)' = a + Hit(t, x)
    BY <1>1, <2>2 DEF Hits, StaysAt, Mine, Hit
  <2>4. CASE t = i
    BY <1>1, <2>1, <2>2, <2>3, <2>4, Sizes DEF Hit
  <2>5. CASE t = 0
    BY <1>1, <2>1, <2>2, <2>3, <2>5, Sizes DEF Hit
  <2>6. QED BY <2>4, <2>5
<1>5. RefsMove(p)
  BY <1>4 DEF RefsMove
<1>6. QED BY <1>2, <1>3, <1>5, BaseFollows

LEMMA PutClearIs ==
  ASSUME Base, NEW p \in Procs, PutClear(p)
  PROVE  Base' /\ putting[p] \in Inums /\ PutClears(p, putting[p])
<1>1. PICK i \in Inums : i = putting[p]
  BY Pointed DEF PutClear
<1>2. PICK b \in {0} \cup Blocks : b = mem[i].ino.blk
  BY InodeIs, FieldsSet
<1>3. /\ stage[p] = "clear" /\ UNCHANGED <<dino, bitmap, mem, pc, locals, putting>>
      /\ content' = (IF b = 0 THEN content ELSE [content EXCEPT ![b] = EmptyDir])
      /\ stage' = [stage EXCEPT ![p] = "free"]
  BY <1>1, <1>2 DEF PutClear, Ino
<1>4. StaysAt(p, i, "free")
  BY <1>1, <1>3, StaysIs DEF Sets, Stages, Pointer
<1>5. content \in [Blocks -> DirBlock] /\ EmptyDir \in DirBlock /\ 0 \notin Blocks
  BY Sizes DEF Base, Types, DiskTypes, EmptyDir, DirBlock
<1>6. /\ content' \in [Blocks -> DirBlock]
      /\ \A a \in Blocks : content'[a] = IF a = b THEN EmptyDir ELSE content[a]
  BY <1>3, <1>5
<1>7. DiskTypes' /\ CacheTypes'
  BY <1>3, <1>6 DEF Base, Types, DiskTypes, CacheTypes
<1>8. Base'
  BY <1>1, <1>3, <1>4, <1>7, StayBase
<1>9. QED BY <1>1, <1>2, <1>3, <1>4, <1>6, <1>8 DEF PutClears

LEMMA PutBfreeIs ==
  ASSUME Base, NEW p \in Procs, PutBfree(p)
  PROVE  Base' /\ putting[p] \in Inums /\ PutFrees(p, putting[p])
<1>1. PICK i \in Inums : i = putting[p]
  BY Pointed DEF PutBfree
<1>2. /\ stage[p] = "free" /\ UNCHANGED <<dino, content, pc, locals, putting>>
      /\ bitmap' = bitmap \ {mem[i].ino.blk}
      /\ mem' = [mem EXCEPT ![i].ino.blk = 0, ![i].ino.size = 0]
      /\ stage' = [stage EXCEPT ![p] = "trunc"]
  BY <1>1 DEF PutBfree, Ino
<1>3. StaysAt(p, i, "trunc")
  BY <1>1, <1>2, StaysIs DEF Sets, Stages, Pointer
<1>4. mem[i].ino \in Inode /\ CacheOK(mem)
  BY InodeIs DEF Base, Types, CacheTypes, CacheOK
<1>5. PICK n : n = [mem[i].ino EXCEPT !.blk = 0, !.size = 0]
  OBVIOUS
<1>6. n \in Inode
  BY <1>4, <1>5 DEF Inode
<1>7. PICK m : m = CopySet(IF FALSE THEN Locked(mem, i) ELSE mem, i, n)
  OBVIOUS
<1>8. mem' = m
  <2>1. PICK x, n1, y : /\ x = mem[i] /\ n1 = [x.ino EXCEPT !.blk = 0] /\ y = [x EXCEPT !.ino = n1]
    OBVIOUS
  <2>2. PICK m1 : m1 = [mem EXCEPT ![i] = y]
    OBVIOUS
  <2>3. m1[i] = y /\ DOMAIN m1 = DOMAIN mem /\ i \in DOMAIN mem
    BY <1>4, <2>2 DEF CacheOK
  <2>4. y.ino = n1 /\ n = [n1 EXCEPT !.size = 0]
    BY <1>4, <1>5, <2>1, SlotIs
  <2>5. [y EXCEPT !.ino = n] = [x EXCEPT !.ino = n]
    BY <1>4, <2>1, SlotIs
  <2>6. mem' = [m1 EXCEPT ![i].ino.size = 0]
    BY <1>2, <2>1, <2>2
  <2>7. mem' = [m1 EXCEPT ![i] = [y EXCEPT !.ino = n]]
    BY <2>3, <2>4, <2>6
  <2>8. mem' = [mem EXCEPT ![i] = [x EXCEPT !.ino = n]]
    BY <2>2, <2>5, <2>7
  <2>9. QED BY <1>7, <2>1, <2>8 DEF CopySet
<1>9. mem' = Left(m, i, "hold") /\ 0 = LeftTrunc(m, i, "hold")
  BY <1>8 DEF Left, LeftTrunc
<1>10. Edits(i, FALSE, n, i, "hold", 0)
  BY <1>6, <1>7, <1>9, EditIs DEF Base, Types
<1>11. DiskTypes' /\ CacheTypes' /\ \A x \in Inums : mem'[x].ref = mem[x].ref
  BY <1>2, <1>10 DEF Base, Types, DiskTypes, Edits, EditAt
<1>12. Base'
  BY <1>1, <1>3, <1>11, StayBase
<1>13. QED BY <1>1, <1>2, <1>3, <1>5, <1>6, <1>10, <1>12 DEF PutFrees

LEMMA PutUpdateIs ==
  ASSUME Base, NEW p \in Procs, PutUpdate(p)
  PROVE  Base' /\ putting[p] \in Inums /\ (PutWrites(p, putting[p]) \/ PutTypes(p, putting[p]))
<1>1. PICK i \in Inums : i = putting[p]
  BY Pointed DEF PutUpdate
<1>2. mem[i].ino \in Inode /\ CacheOK(mem)
  BY InodeIs DEF Base, Types, CacheTypes, CacheOK
<1>3. UNCHANGED <<bitmap, content, pc, locals, putting>> /\ stage[p] \in {"trunc", "type"}
  BY DEF PutUpdate
<1>4. CASE stage[p] = "trunc"
  <2>1. Iupdate(i, mem[i].ino) /\ stage' = [stage EXCEPT ![p] = "type"] /\ UNCHANGED mem
    BY <1>1, <1>4 DEF PutUpdate, Ino
  <2>2. StaysAt(p, i, "type")
    BY <1>1, <1>3, <2>1, StaysIs DEF Sets, Stages, Pointer
  <2>3. dino' \in [Inums -> Inode] /\ DinoSet(i, mem[i].ino)
    BY <1>2, <2>1, DinoIs DEF Base, Types
  <2>4. DiskTypes' /\ CacheTypes'
    BY <1>3, <2>1, <2>3 DEF Base, Types, DiskTypes, CacheTypes
  <2>5. Base'
    BY <1>1, <2>1, <2>2, <2>4, StayBase
  <2>6. QED BY <1>1, <1>3, <1>4, <2>1, <2>2, <2>3, <2>5 DEF PutWrites
<1>5. CASE stage[p] = "type"
  <2>1. PICK n : n = [mem[i].ino EXCEPT !.type = "free"]
    OBVIOUS
  <2>2. n \in Inode
    BY <1>2, <2>1 DEF Inode, InodeTypes
  <2>3. PICK m : m = CopySet(IF FALSE THEN Locked(mem, i) ELSE mem, i, n)
    OBVIOUS
  <2>4. /\ mem' = [mem EXCEPT ![i].ino.type = "free"] /\ Iupdate(i, mem'[i].ino)
        /\ stage' = [stage EXCEPT ![p] = "end"]
    BY <1>1, <1>5 DEF PutUpdate, Ino
  <2>5. mem' = m
    BY <2>1, <2>3, <2>4 DEF CopySet
  <2>6. m[i].ino = n
    BY <2>2, <2>3, CopyMade
  <2>7. mem' = Left(m, i, "hold") /\ 0 = LeftTrunc(m, i, "hold")
    BY <2>5 DEF Left, LeftTrunc
  <2>8. Edits(i, FALSE, n, i, "hold", 0)
    BY <2>2, <2>3, <2>7, EditIs DEF Base, Types
  <2>9. dino' \in [Inums -> Inode] /\ DinoSet(i, n)
    BY <2>2, <2>4, <2>5, <2>6, DinoIs DEF Base, Types
  <2>10. StaysAt(p, i, "end")
    BY <1>1, <1>3, <2>4, StaysIs DEF Sets, Stages, Pointer
  <2>11. DiskTypes' /\ CacheTypes' /\ \A x \in Inums : mem'[x].ref = mem[x].ref
    BY <1>3, <2>8, <2>9 DEF Base, Types, DiskTypes, Edits, EditAt
  <2>12. Base'
    BY <1>1, <2>10, <2>11, StayBase
  <2>13. QED BY <1>1, <1>3, <1>5, <2>1, <2>2, <2>8, <2>9, <2>10, <2>12 DEF PutTypes
<1>6. QED BY <1>3, <1>4, <1>5

LEMMA PutEndIs ==
  ASSUME Base, NEW p \in Procs, PutEnd(p)
  PROVE  Base' /\ putting[p] \in Inums /\ PutEnds(p, putting[p])
<1>1. PICK i \in Inums : i = putting[p]
  BY Pointed DEF PutEnd
<1>2. /\ stage[p] = "end" /\ UNCHANGED <<diskVars, pc, locals>>
      /\ mem' = [NoFlags(mem, i) EXCEPT ![i].ref = @ - 1]
      /\ putting' = [putting EXCEPT ![p] = 0] /\ stage' = [stage EXCEPT ![p] = "clear"]
  BY <1>1 DEF PutEnd
<1>3. StaysAt(p, 0, "clear")
  BY <1>2, StaysIs DEF Sets, Stages, Pointer
<1>4. CacheOK(mem) /\ mem[i].ref \in Int /\ mem[i].ino \in Inode
  BY SlotIs DEF Base, Types, CacheTypes, CacheOK
<1>5. PICK x, y, z, r : /\ x = mem[i] /\ y = [x EXCEPT !.busy = FALSE, !.valid = FALSE]
                        /\ z = [y EXCEPT !.ref = r] /\ r = x.ref - 1
  BY Zenon
<1>6. y.ref = x.ref /\ z.ref = r /\ z.busy = FALSE /\ z.valid = FALSE /\ z.ino = x.ino
      /\ y \in Cached /\ z \in Cached
  <2>1. x = [ref |-> x.ref, busy |-> x.busy, valid |-> x.valid, ino |-> x.ino] /\ x.ref \in Int
        /\ x.ino \in Inode /\ r \in Int
    BY <1>4, <1>5, SlotIs
  <2>2. y.ref = x.ref /\ y.busy = FALSE /\ y.valid = FALSE /\ y.ino = x.ino /\ y \in Cached
    BY <1>5, <2>1 DEF Cached
  <2>3. z.ref = r /\ z.busy = FALSE /\ z.valid = FALSE /\ z.ino = x.ino /\ z \in Cached
    BY <1>5, <2>1, <2>2 DEF Cached
  <2>4. QED BY <2>2, <2>3
<1>7. PICK m : m = NoFlags(mem, i)
  OBVIOUS
<1>8. m = [mem EXCEPT ![i] = y]
  BY <1>4, <1>5, <1>7 DEF NoFlags, CacheOK
<1>9. m[i] = y /\ CacheOK(m) /\ \A w \in Inums \ {i} : m[w] = mem[w]
  BY <1>4, <1>6, <1>8 DEF CacheOK
<1>10. mem' = [m EXCEPT ![i] = z]
  BY <1>2, <1>5, <1>6, <1>7, <1>9
<1>11. CacheOK(mem') /\ mem'[i] = z /\ \A w \in Inums \ {i} : mem'[w] = mem[w]
  BY <1>6, <1>9, <1>10 DEF CacheOK
<1>12. ASSUME NEW w \in Inums PROVE EndAt(i, w)
  <2>1. CASE w = i
    BY <1>5, <1>6, <1>11, <2>1 DEF EndAt
  <2>2. CASE w # i
    <3>1. mem[w].busy \in BOOLEAN /\ mem[w].valid \in BOOLEAN
      BY <1>4, SlotIs
    <3>2. QED BY <1>11, <2>2, <3>1 DEF EndAt
  <2>3. QED BY <2>1, <2>2
<1>13. DiskTypes' /\ CacheTypes'
  BY <1>2, <1>11 DEF Base, Types, DiskTypes, CacheTypes, CacheOK, diskVars
<1>14. \A w \in Inums : mem'[w].ref = IF w = i THEN mem[w].ref - 1 ELSE mem[w].ref
  BY <1>12 DEF EndAt
<1>15. Base'
  BY <1>1, <1>3, <1>13, <1>14, StayBase
<1>16. QED BY <1>1, <1>2, <1>3, <1>12, <1>15 DEF PutEnds

-----------------------------------------------------------------------------
(* A call begins, the machine stops, and every step keeps the references   *)
(* counted.                                                                *)

LEMMA BeginIs ==
  ASSUME Base, NEW p \in Procs, NEW kind \in Kinds, NEW path \in Paths, NEW new \in Paths,
         Begin(p, kind, path, new)
  PROVE  Base' /\ \E pl, k : BeginsAt(p, pl, k)
<1>1. pc[p] = "idle" /\ putting[p] = 0
  BY DEF Begin, Ready
<1>2. /\ cur[p] = 0 /\ dp[p] = 0 /\ ip[p] = 0 /\ stage[p] = "clear" /\ fd[p] \in Pointer
      /\ 0 \in Pointer
  <2>1. pc[p] \notin Walks /\ pc[p] \notin UsesDp /\ pc[p] \notin UsesIp \cup {"walkp"}
    BY <1>1 DEF UsesIp, UsesDp, Making, Walks, Links
  <2>2. QED BY <1>1, <2>1, Locals DEF Pointer
<1>3. PICK k : k = [kind |-> kind, path |-> path, new |-> new]
  OBVIOUS
<1>4. k \in Calls /\ k.kind = kind /\ k.path = path /\ k.new = new
  BY <1>3 DEF Calls, CallPaths
<1>5. PICK pl : pl = IF kind \in {"open", "link"} THEN "walk" ELSE "walkp"
  OBVIOUS
<1>6. /\ call' = [call EXCEPT ![p] = k] /\ Resume(p, pl) /\ UNCHANGED <<diskVars, mem>>
      /\ UNCHANGED <<cur, dp, ip, fd, putVars>> /\ (kind \in {"open", "creat"} => fd[p] = 0)
  BY <1>3, <1>5 DEF Begin
<1>7. Becomes(p, pl, k, 0, 0, 0, fd[p], 0, "clear")
  BY <1>1, <1>2, <1>6 DEF Becomes, Sets, Resume, putVars
<1>8. pl \in Places /\ pl \in Walks /\ "clear" \in Stages
  BY <1>5 DEF Places, Walks, Stages
<1>9. LocalTypes' /\ Mine(p, pl, k, 0, 0, 0, fd[p], 0, "clear") /\ OthersSame(p)
  BY <1>2, <1>4, <1>7, <1>8, Settled DEF Base, Types
<1>10. PhaseAt(pl, k, 0, 0, 0, fd[p])
  BY <1>4, <1>5, <1>6
  DEF PhaseAt, IpSet, KindFits, UsesIp, UsesDp, Making, Links, Creates, Unlinks, Walks, Kinds
<1>11. PhaseOf(p)'
  BY <1>9, <1>10, PhaseFollows
<1>12. ASSUME NEW x \in Inums PROVE mem'[x].ref = (mem[x].ref + Hits(p, x)') - Hits(p, x)
  <2>1. Hits(p, x)' = Hits(p, x) /\ Hits(p, x) \in Int
    BY <1>1, <1>2, <1>9 DEF Hits, Mine, Hit
  <2>2. mem[x].ref \in Int
    BY SlotIs DEF Base, Types, CacheTypes, CacheOK
  <2>3. QED BY <1>6, <2>1, <2>2
<1>13. DiskTypes' /\ CacheTypes' /\ RefsMove(p)
  BY <1>6, <1>12 DEF Base, Types, DiskTypes, CacheTypes, diskVars, RefsMove
<1>14. Base'
  BY <1>9, <1>11, <1>13, BaseFollows
<1>15. k.kind = "link" => pl = "walk"
  BY <1>4, <1>5
<1>16. QED BY <1>1, <1>2, <1>6, <1>8, <1>9, <1>14, <1>15 DEF BeginsAt

LEMMA BlankBase ==
  DiskTypes /\ Blank => Base
<1>1. SUFFICES ASSUME DiskTypes, Blank PROVE Base
  OBVIOUS
<1>2. Uncached \in Cached /\ Uncached.ref = 0
  BY DEF Uncached, Cached, FreeInode, Inode, InodeTypes
<1>3. CacheTypes /\ \A i \in Inums : mem[i].ref = 0
  BY <1>1, <1>2 DEF Blank, CacheTypes, EmptyCache
<1>4. "idle" \in Places /\ NoCall \in Calls /\ 0 \in Pointer /\ "clear" \in Stages
  BY DEF Places, NoCall, Calls, CallPaths, Pointer, Stages
<1>5. LocalTypes
  BY <1>1, <1>4 DEF Blank, LocalTypes, All
<1>6. Phases
  <2>1. SUFFICES ASSUME NEW p \in Procs PROVE PhaseOf(p)
    BY DEF Phases
  <2>2. /\ pc[p] = "idle" /\ call[p] = NoCall /\ cur[p] = 0 /\ dp[p] = 0 /\ ip[p] = 0 /\ fd[p] = 0
        /\ putting[p] = 0 /\ stage[p] = "clear"
    BY <1>1 DEF Blank, All
  <2>3. QED BY <2>2
        DEF PhaseOf, IpSet, KindFits, NoCall, UsesIp, UsesDp, Making, Links, Creates, Unlinks
<1>7. ASSUME NEW i \in Inums PROVE RefCounted(i)
  <2>1. i # 0
    BY Sizes
  <2>2. /\ With(fd, i) = {} /\ With(cur, i) = {} /\ With(dp, i) = {} /\ With(ip, i) = {}
        /\ With(putting, i) = {}
    BY <1>1, <2>1 DEF Blank, All, With
  <2>3. Cardinality({}) = 0
    BY FS_EmptySet
  <2>4. QED BY <1>3, <2>2, <2>3 DEF RefCounted
<1>8. RefsCounted
  BY <1>7, RefCountedIs
<1>9. QED BY <1>1, <1>3, <1>5, <1>6, <1>8 DEF Base, Types

LEMMA InitBase == Init => Base /\ Blank
<1>1. SUFFICES ASSUME Init PROVE Base /\ Blank
  OBVIOUS
<1>2. PICK img \in Images : dino = img.dino /\ bitmap = img.bitmap /\ content = img.content
  BY <1>1 DEF Init
<1>3. DiskTypes
  <2>1. Consistent(img)
    BY InodesAssumption
  <2>2. /\ img.dino \in [Inums -> Inode] /\ img.bitmap \subseteq Blocks
        /\ img.content \in [Blocks -> DirBlock]
    BY ONLY <2>1, ZenonT(60) DEF Consistent
  <2>3. QED BY <1>2, <2>2 DEF DiskTypes
<1>4. Blank
  BY <1>1 DEF Init, Blank
<1>5. QED BY <1>3, <1>4, BlankBase

LEMMA CrashBase ==
  ASSUME Base, Crash PROVE Base' /\ Blank' /\ UNCHANGED diskVars
<1>1. Blank' /\ UNCHANGED diskVars
  BY DEF Crash, Blank, EmptyCache, All
<1>2. DiskTypes'
  BY <1>1 DEF Base, Types, DiskTypes, diskVars
<1>3. (DiskTypes /\ Blank => Base)'
  BY BlankBase, PTL
<1>4. QED BY <1>1, <1>2, <1>3

LEMMA NextBase ==
  Base /\ [Next]_vars => Base'
<1>1. SUFFICES ASSUME Base, [Next]_vars PROVE Base'
  OBVIOUS
<1>2. CASE UNCHANGED vars
  BY <1>1, <1>2
  DEF vars, diskVars, locals, putVars, Base, Types, DiskTypes, CacheTypes, LocalTypes, Phases,
      PhaseOf, RefsCounted
<1>3. CASE Crash
  BY <1>1, <1>3, CrashBase
<1>4. ASSUME NEW p \in Procs, PutStep(p) PROVE Base'
  BY <1>1, <1>4, PutClearIs, PutBfreeIs, PutUpdateIs, PutEndIs DEF PutStep
<1>5. ASSUME NEW p \in Procs, CreateStep(p) PROVE Base'
  BY <1>1, <1>5, CreateLockMoves, CreateExistsMoves, CreateAllocSteps, CreateLink1Edits,
     CreateParentEdits, CreateDotsSteps, DirlinkSteps, ExtendEdits, CreateEndMoves DEF CreateStep
<1>6. ASSUME NEW p \in Procs, LinkStep(p) PROVE Base'
  <2>1. CASE LinkOld(p)
    BY <1>1, <2>1, LinkOldMoves, LinkOldEdits
  <2>2. CASE LinkNew(p) \/ LinkNewLock(p) \/ LinkEnd(p)
    BY <1>1, <2>2, LinkNewMoves, LinkNewLockMoves, LinkEndMoves
  <2>3. CASE LinkDirlink(p) \/ LinkExtend(p) \/ LinkBad(p)
    BY <1>1, <2>3, DirlinkSteps, ExtendEdits, LinkBadEdits
  <2>4. QED BY <1>6, <2>1, <2>2, <2>3 DEF LinkStep
<1>7. ASSUME NEW p \in Procs, UnlinkStep(p) PROVE Base'
  <2>1. CASE UnlinkEntry(p)
    BY <1>1, <2>1, UnlinkEntryMoves, GoneSteps
  <2>2. CASE UnlinkLookup(p) \/ UnlinkFail(p)
    BY <1>1, <2>2, UnlinkLookupMoves, UnlinkFailMoves
  <2>3. CASE UnlinkParent(p) \/ UnlinkNlink(p)
    BY <1>1, <2>3, UnlinkParentEdits, UnlinkNlinkEdits
  <2>4. QED BY <1>7, <2>1, <2>2, <2>3 DEF UnlinkStep
<1>8. ASSUME NEW p \in Procs, Kernel(p) PROVE Base'
  BY <1>1, <1>4, <1>5, <1>6, <1>7, <1>8, WalkMoves, OpenLockMoves, WriteUpdateEdits DEF Kernel
<1>9. ASSUME NEW p \in Procs, Close(p) \/ WriteBlock(p) PROVE Base'
  BY <1>1, <1>9, CloseMoves, WriteBlockEdits
<1>10. ASSUME NEW p \in Procs, NEW kind \in Kinds, NEW path \in Paths, NEW new \in Paths,
              Begin(p, kind, path, new)
       PROVE  Base'
  BY <1>1, <1>10, BeginIs
<1>11. QED BY <1>1, <1>2, <1>3, <1>8, <1>9, <1>10 DEF Next

\* The cache counts the pointers to an inode: ref is what open files, the
\* locals of the calls and an iput under way hold, in every state (iget, idup
\* and iput of fs.c, on every path of the calls of sysfile.c).
THEOREM ReferencesCounted == Spec => []RefsCounted
<1>1. Init => Base
  BY InitBase
<1>2. Base /\ [Next]_vars => Base'
  BY NextBase
<1>3. Base => RefsCounted
  BY DEF Base
<1>4. QED BY <1>1, <1>2, <1>3, PTL DEF Spec

-----------------------------------------------------------------------------
(* What the counted references say. *)

LEMMA Several ==
  ASSUME NEW v, NEW x, NEW p \in Procs, NEW q \in Procs \ {p}
  PROVE  /\ Cardinality(With(v, x)) \in Nat
         /\ v[p] = x => Cardinality(With(v, x)) >= 1
         /\ v[p] = x /\ v[q] = x => Cardinality(With(v, x)) >= 2
<1>1. PICK S : S = With(v, x)
  OBVIOUS
<1>2. IsFiniteSet(S)
  BY <1>1, Sizes, FS_Subset DEF With
<1>3. Cardinality(S) \in Nat
  BY <1>2, FS_CardinalityType
<1>4. ASSUME NEW r \in S PROVE IsFiniteSet(S \ {r}) /\ Cardinality(S \ {r}) = Cardinality(S) - 1
                               /\ Cardinality(S \ {r}) \in Nat
  BY <1>2, FS_RemoveElement, FS_CardinalityType
<1>5. v[p] = x => p \in S
  BY <1>1 DEF With
<1>6. v[q] = x => q \in S
  BY <1>1 DEF With
<1>7. ASSUME NEW r \in S \ {p}, p \in S PROVE Cardinality(S \ {p}) >= 1
  <2>1. PICK R : R = S \ {p}
    OBVIOUS
  <2>2. r \in R /\ IsFiniteSet(R) /\ Cardinality(R) \in Nat
    BY <1>4, <1>7, <2>1
  <2>3. Cardinality(R) # 0
    BY <2>2, FS_EmptySet
  <2>4. QED BY <2>1, <2>2, <2>3
<1>8. QED BY <1>1, <1>3, <1>4, <1>5, <1>6, <1>7

LEMMA RefsHold == Base => Refs
<1> SUFFICES ASSUME Base, NEW p \in Procs, NEW x \in Inums PROVE RefAt(p, x)
  BY DEF Refs
<1> DEFINE A(v) == Cardinality(With(v, x))
<1>1. mem[x].ref = A(fd) + A(cur) + A(dp) + A(ip) + A(putting)
  BY RefCountedIs DEF Base, RefCounted
<1>2. A(fd) \in Nat /\ A(cur) \in Nat /\ A(dp) \in Nat /\ A(ip) \in Nat /\ A(putting) \in Nat
  BY OnePointer
<1>3. /\ fd[p] = x => A(fd) >= 1
      /\ cur[p] = x => A(cur) >= 1
      /\ dp[p] = x => A(dp) >= 1
      /\ ip[p] = x => A(ip) >= 1
      /\ putting[p] = x => A(putting) >= 1
  <2>1. ASSUME NEW v, v[p] = x PROVE A(v) >= 1
    <3>1. Hit(v[p], x) <= A(v) /\ Hit(v[p], x) = 1
      BY <2>1, OnePointer DEF Hit
    <3>2. A(v) \in Nat
      BY OnePointer
    <3> HIDE DEF A
    <3>3. QED BY <3>1, <3>2
  <2> HIDE DEF A
  <2>2. QED BY <2>1
<1>4. ASSUME NEW q \in Procs \ {p}
      PROVE  /\ (fd[p] = x => A(fd) >= 1) /\ (fd[q] = x => A(fd) >= 1)
             /\ (fd[p] = x /\ fd[q] = x => A(fd) >= 2)
             /\ (cur[p] = x => A(cur) >= 1) /\ (cur[q] = x => A(cur) >= 1)
             /\ (cur[p] = x /\ cur[q] = x => A(cur) >= 2)
             /\ (dp[p] = x => A(dp) >= 1) /\ (dp[q] = x => A(dp) >= 1)
             /\ (dp[p] = x /\ dp[q] = x => A(dp) >= 2)
             /\ (ip[p] = x => A(ip) >= 1) /\ (ip[q] = x => A(ip) >= 1)
             /\ (ip[p] = x /\ ip[q] = x => A(ip) >= 2)
             /\ (putting[p] = x => A(putting) >= 1) /\ (putting[q] = x => A(putting) >= 1)
             /\ (putting[p] = x /\ putting[q] = x => A(putting) >= 2)
  <2>1. ASSUME NEW v
        PROVE  (v[p] = x => A(v) >= 1) /\ (v[q] = x => A(v) >= 1)
               /\ (v[p] = x /\ v[q] = x => A(v) >= 2)
    <3>1. p \in Procs \ {q} /\ q \in Procs
      OBVIOUS
    <3>2. QED BY <3>1, Several
  <2> HIDE DEF A
  <2>2. QED BY <2>1
<1> HIDE DEF A
<1>5. Points(p, x) \/ putting[p] = x => mem[x].ref > 0
  BY <1>1, <1>2, <1>3 DEF Points
<1>6. ASSUME mem[x].ref = 1, Points(p, x) \/ putting[p] = x, NEW q \in Procs \ {p}
      PROVE  ~Points(q, x) /\ putting[q] # x
  BY <1>1, <1>2, <1>4, <1>6 DEF Points
<1>7. mem[x].ref = 1 /\ putting[p] = x => ~Points(p, x)
  BY <1>1, <1>2, <1>3 DEF Points
<1>8. mem[x].ref \in Nat
  BY <1>1, <1>2
<1>9. QED BY <1>5, <1>6, <1>7, <1>8 DEF RefAt

\* What is locked is cached, with its copy read.
LEMMA HasIs ==
  ASSUME Inv, NEW p \in Procs, NEW x \in Inums, Has(p, x)
  PROVE  /\ mem[x].busy /\ mem[x].valid /\ mem[x].ref > 0
         /\ Eff(dino, mem, x) = mem[x].ino /\ Owned(dino, mem)[x] = mem[x].ino.blk
         /\ \A q \in Procs \ {p} : ~Has(q, x)
<1>1. mem[x].busy /\ mem[x].valid /\ \A q \in Procs \ {p} : ~Has(q, x)
  BY DEF Inv, Locks
<1>2. Points(p, x) \/ putting[p] = x
  BY DEF Has, Points
<1>3. mem[x].ref > 0
  BY <1>2, RefsHold DEF Inv, Base, Refs, RefAt
<1>4. QED BY <1>1, <1>3 DEF Eff, Owned

-----------------------------------------------------------------------------
(* What a step of process p leaves as it is for the others. *)

\* What is the same for another process.
LEMMA SameHolds ==
  ASSUME NEW p \in Procs, OthersSame(p), NEW q \in Procs \ {p}, NEW x
  PROVE  /\ Has(q, x)' <=> Has(q, x)
         /\ Points(q, x)' <=> Points(q, x)
         /\ Maker(q, x)' <=> Maker(q, x)
         /\ Drifts(q, x)' <=> Drifts(q, x)
         /\ putting'[q] = putting[q] /\ stage'[q] = stage[q]
<1>1. SameFor(q)
  BY DEF OthersSame
<1>2. (Has(q, x)' <=> Has(q, x)) /\ (Points(q, x)' <=> Points(q, x))
  BY <1>1 DEF SameFor, Has, Points
<1>3. (Maker(q, x)' <=> Maker(q, x)) /\ (Drifts(q, x)' <=> Drifts(q, x))
  BY <1>1 DEF SameFor, Maker, Drifts
<1>4. QED BY <1>1, <1>2, <1>3 DEF SameFor

\* The block of what another process has locked.
LEMMA BlockKept ==
  ASSUME Inv, NEW p \in Procs, Frame(p), NEW q \in Procs \ {p}, NEW x \in Inums, Has(q, x),
         mem[x].ino.blk # 0
  PROVE  mem[x].ino.blk \in Blocks /\ content'[mem[x].ino.blk] = content[mem[x].ino.blk]
<1>1. mem[x].ino.blk \in Blocks
  BY InodeIs DEF Inv, Base, Inode
<1>2. CASE content' = content
  BY <1>1, <1>2
<1>3. CASE content' # content
  <2>1. PICK y \in Inums : Has(p, y) /\ \A b \in Blocks : b # mem[y].ino.blk => content'[b] = content[b]
    BY <1>3 DEF Frame, ContentFrame
  <2>2. Owned(dino, mem)[x] = mem[x].ino.blk /\ Owned(dino, mem)[y] = mem[y].ino.blk /\ ~Has(q, y)
    BY <2>1, HasIs
  <2>3. x # y
    BY <2>2
  <2>4. mem[x].ino.blk # mem[y].ino.blk
    BY <2>2, <2>3 DEF Inv, Tidy, Sound, Owners
  <2>5. QED BY <1>1, <2>1, <2>4
<1>4. QED BY <1>2, <1>3

LEMMA PutsKept ==
  ASSUME Inv, Base', NEW p \in Procs, OthersSame(p), Frame(p), NEW q \in Procs \ {p}, putting[q] # 0
  PROVE  PutOf(q, putting[q])'
<1>1. PICK x \in Inums : x = putting[q]
  BY Pointed DEF Inv, Base
<1>2. PutOf(q, x) /\ Has(q, x)
  BY <1>1, Sizes DEF Inv, Puts, Has
<1>3. mem[x].busy /\ ~Has(p, x) /\ FrameAt(p, x)
  BY <1>2, HasIs DEF Frame
<1>4. mem'[x].ino = mem[x].ino /\ (dino'[x] = dino[x] \/ Alloc(p, x))
  BY <1>3 DEF FrameAt
<1>5. putting'[q] = x /\ stage'[q] = stage[q] /\ q # p
  BY <1>1, SameHolds
<1>6. putting'[p] # x
  <2>1. SUFFICES ASSUME putting'[p] = x PROVE FALSE
    OBVIOUS
  <2>2. putting[p] # x
    BY <1>2 DEF PutOf
  <2>3. mem'[x].ref = 1
    BY <1>3, <2>1, <2>2 DEF FrameAt
  <2>4. (Base => Refs)'
    BY RefsHold, PTL
  <2>5. RefAt(p, x)'
    BY <2>4 DEF Refs
  <2>6. QED BY <1>5, <2>1, <2>3, <2>5 DEF RefAt
<1>7. Alloc(p, x) => stage[q] = "end" /\ Maker(p, x)'
  <2>1. stage[q] \in {"clear", "free", "trunc", "type", "end"}
    BY Pointed DEF Inv, Base, Stages
  <2>2. QED BY <1>2, <2>1 DEF Alloc, PutOf
<1>8. Points(p, x)' => stage[q] = "end" /\ Maker(p, x)'
  <2>1. SUFFICES ASSUME Points(p, x)' PROVE stage[q] = "end" /\ Maker(p, x)'
    OBVIOUS
  <2>2. ~(dino[x].nlink > 0)
    BY <1>2 DEF PutOf
  <2>3. CASE Points(p, x)
    BY <1>2, <1>3, <2>3 DEF PutOf, FrameAt
  <2>4. CASE Alloc(p, x)
    BY <1>7, <2>4
  <2>5. QED BY <1>3, <2>1, <2>2, <2>3, <2>4 DEF FrameAt
<1>9. ASSUME NEW r \in Procs
      PROVE  (r # q => putting'[r] # x) /\ (Points(r, x)' => stage[q] = "end" /\ Maker(r, x)')
  <2>1. CASE r = p
    BY <1>6, <1>8, <2>1
  <2>2. CASE r # p
    BY <1>2, <2>2, SameHolds DEF PutOf
  <2>3. QED BY <2>1, <2>2
<1>10. mem'[x].ino.nlink = 0 /\ dino'[x].nlink = 0
  BY <1>2, <1>4 DEF PutOf, Alloc
<1>11. stage[q] \in {"clear", "free", "trunc", "type"} =>
         mem'[x].ino.type # "free" /\ dino'[x].type = mem'[x].ino.type
  BY <1>2, <1>4, <1>7 DEF PutOf
<1>12. stage[q] \in {"trunc", "type", "end"} => mem'[x].ino.blk = 0
  BY <1>2, <1>4 DEF PutOf
<1>13. stage[q] = "end" => /\ mem'[x].ino.type = "free" /\ dino'[x].blk = 0
                           /\ (dino'[x].type = "free" \/ \E r \in Procs : Maker(r, x)')
  <2>1. SUFFICES ASSUME stage[q] = "end"
                 PROVE  /\ mem'[x].ino.type = "free" /\ dino'[x].blk = 0
                        /\ (dino'[x].type = "free" \/ \E r \in Procs : Maker(r, x)')
    OBVIOUS
  <2>2. mem'[x].ino.type = "free" /\ dino'[x].blk = 0
    BY <1>2, <1>4, <2>1 DEF PutOf, Alloc
  <2>3. CASE Alloc(p, x)
    BY <1>7, <2>2, <2>3
  <2>4. CASE dino'[x] = dino[x] /\ dino[x].type = "free"
    BY <2>2, <2>4
  <2>5. CASE \E r \in Procs : Maker(r, x)
    <3>1. PICK r \in Procs : Maker(r, x)
      BY <2>5
    <3>2. Maker(r, x)'
      BY <1>3, <3>1, SameHolds DEF FrameAt
    <3>3. QED BY <2>2, <3>2
  <2>6. QED BY <1>2, <1>4, <2>1, <2>3, <2>4, <2>5 DEF PutOf
<1>14. stage[q] = "free" /\ mem'[x].ino.blk # 0 => content'[mem'[x].ino.blk] = EmptyDir
  BY <1>2, <1>4, BlockKept DEF PutOf
<1>15. QED BY <1>5, <1>1, <1>9, <1>10, <1>11, <1>12, <1>13, <1>14 DEF PutOf

LEMMA FreshKept ==
  ASSUME Inv, Base', NEW p \in Procs, OthersSame(p), Frame(p), NEW q \in Procs \ {p},
         pc[q] \in Making
  PROVE  MadeBy(q, ip[q])'
<1>1. PICK x \in Inums : x = ip[q]
  <2>1. ip[q] # 0
    BY Pointed DEF Inv, Base, PhaseOf, IpSet, UsesIp
  <2>2. QED BY <2>1, Pointed DEF Inv, Base
<1>2. MadeBy(q, x) /\ SameFor(q) /\ FrameAt(p, x)
  BY <1>1 DEF Inv, Fresh, OthersSame, Frame
<1>3. x \in InMaking /\ Points(q, x)
  BY <1>1 DEF InMaking, Points
<1>4. dino[x].type # "free"
  BY <1>2 DEF MadeBy
<1>5. ~Points(p, x) /\ ~Alloc(p, x)
  BY <1>2, <1>4 DEF MadeBy, Alloc
<1>6. ~Points(p, x)'
  BY <1>2, <1>3, <1>5 DEF FrameAt
<1>7. dino'[x] = dino[x]
  <2>1. CASE putting[p] = x
    <3>1. PutOf(p, x)
      BY <2>1, Sizes DEF Inv, Puts
    <3>2. stage[p] = "end"
      BY <1>3, <3>1 DEF PutOf
    <3>3. QED BY <1>2, <1>5, <3>2 DEF FrameAt
  <2>2. CASE putting[p] # x
    BY <1>2, <1>5, <2>2 DEF FrameAt
  <2>3. QED BY <2>1, <2>2
<1>8. putting'[p] = x => pc[q] = "c_lockip"
  <2>1. SUFFICES ASSUME putting'[p] = x, putting[p] # x PROVE FALSE
    BY <1>2 DEF MadeBy
  <2>2. mem'[x].ref = 1
    BY <1>2, <2>1 DEF FrameAt
  <2>3. (Base => Refs)'
    BY RefsHold, PTL
  <2>4. RefAt(p, x)'
    BY <2>3 DEF Refs
  <2>5. Points(q, x)'
    BY <1>3, SameHolds
  <2>6. QED BY <2>1, <2>2, <2>4, <2>5 DEF RefAt
<1>9. ASSUME NEW r \in Procs
      PROVE  (Points(r, x)' => r = q) /\ (putting'[r] = x => pc[q] = "c_lockip")
  <2>1. CASE r = p
    BY <1>6, <1>8, <2>1
  <2>2. CASE r # p
    BY <1>2, <2>2, SameHolds DEF MadeBy
  <2>3. QED BY <2>1, <2>2
<1>10. ip'[q] = x
  BY <1>1, <1>2 DEF SameFor
<1>11. QED BY <1>2, <1>7, <1>9, <1>10 DEF MadeBy, SameFor

LEMMA KnowsStay ==
  ASSUME Inv, NEW q \in Procs, SameCall(q), \A x \in Inums : SameInode(q, x)
  PROVE  Knows(q)'
<1>1. Knows(q) /\ SameCall(q)
  BY DEF Inv, Known
<1>2. NameOf(q)' = NameOf(q)
  BY <1>1 DEF NameOf, SameCall
<1>3. ASSUME NEW x \in Inums, Points(q, x), ~Maker(q, x) PROVE EffKept(x)
  BY <1>3 DEF SameInode
<1>4. (dp[q] # 0 => dp[q] \in Inums) /\ (cur[q] # 0 => cur[q] \in Inums)
      /\ (ip[q] # 0 => ip[q] \in Inums)
  BY Pointed DEF Inv, Base
<1>5. dp'[q] # 0 => IsDir(dp[q])' /\ Block(dp[q])' # 0
  <2>1. SUFFICES ASSUME dp[q] # 0 PROVE IsDir(dp[q])' /\ Block(dp[q])' # 0
    BY <1>1 DEF SameCall
  <2>2. IsDir(dp[q]) /\ Block(dp[q]) # 0
    BY <1>1, <2>1 DEF Knows
  <2>3. EffKept(dp[q])
    BY <1>3, <1>4, <2>1 DEF Points, Maker
  <2>4. QED BY <2>2, <2>3 DEF EffKept, IsDir, Block
<1>6. cur'[q] # 0 /\ IsDir(cur[q])' => Block(cur[q])' # 0
  <2>1. SUFFICES ASSUME cur[q] # 0, IsDir(cur[q])' PROVE Block(cur[q])' # 0
    BY <1>1 DEF SameCall
  <2>2. EffKept(cur[q])
    BY <1>3, <1>4, <2>1 DEF Points, Maker
  <2>3. IsDir(cur[q])
    BY <2>1, <2>2 DEF EffKept, IsDir
  <2>4. Block(cur[q]) # 0
    BY <1>1, <2>1, <2>3 DEF Knows
  <2>5. QED BY <2>2, <2>4 DEF EffKept, Block
<1>7. pc[q] = "u_ip" => LET b == mem'[dp[q]].ino.blk
                            here == Where(mem, dp[q], NameOf(q))' IN
                        here # {} /\ content'[b].ent[First(here)][2] = ip[q]
  <2>1. SUFFICES ASSUME pc[q] = "u_ip"
                 PROVE  LET b == mem'[dp[q]].ino.blk
                            here == Where(mem, dp[q], NameOf(q))' IN
                        here # {} /\ content'[b].ent[First(here)][2] = ip[q]
    OBVIOUS
  <2>2. PICK d \in Inums : d = dp[q]
    BY <1>4, <2>1, Pointed DEF Inv, Base, PhaseOf, UsesDp
  <2>3. Has(q, d) /\ Points(q, d)
    BY <2>1, <2>2 DEF Has, LocksDp, Points
  <2>5. mem'[d].ino = mem[d].ino
    BY <2>3 DEF SameInode
  <2>6. PICK H : H = Where(mem, d, NameOf(q))
    OBVIOUS
  <2>7. H # {} /\ content[mem[d].ino.blk].ent[First(H)][2] = ip[q]
    BY <1>1, <2>1, <2>2, <2>6, Zenon DEF Knows
  <2>8. mem[d].ino.blk # 0
    BY <2>6, <2>7, Zenon DEF Where, Ino
  <2>9. content'[mem[d].ino.blk] = content[mem[d].ino.blk]
    BY <2>3, <2>8 DEF SameInode
  <2>10. Where(mem, d, NameOf(q))' = H
    BY <1>2, <2>5, <2>6, <2>9 DEF Where, Ino
  <2>11. dp'[q] = d
    BY <1>1, <2>2 DEF SameCall
  <2>12. Where(mem, dp[q], NameOf(q))' = H
    BY <2>10, <2>11
  <2>13. QED BY <2>2, <2>5, <2>7, <2>9, <2>12
<1>8. pc[q] \in {"l_new", "l_link", "l_bad"} \/ (pc[q] = "walkp" /\ call[q].kind = "link") =>
        Eff(dino, mem, ip[q])'.type = "file"
  <2>1. SUFFICES ASSUME pc[q] \in {"l_new", "l_link", "l_bad"} \/ (pc[q] = "walkp" /\ call[q].kind = "link")
                 PROVE  Eff(dino, mem, ip[q])'.type = "file"
    OBVIOUS
  <2>2. ip[q] \in Inums
    BY <1>4, <2>1, Pointed DEF Inv, Base, PhaseOf, IpSet, UsesIp, Links
  <2>3. EffKept(ip[q])
    BY <1>3, <2>1, <2>2 DEF Points, Maker
  <2>4. QED BY <1>1, <2>1, <2>3 DEF Knows, EffKept
<1>9. pc[q] = "c_dotdot" \/ (pc[q] = "c_link" /\ call[q].kind = "mkdir") =>
        Block(ip[q])' # 0 /\ (pc[q] = "c_link" => content'[Block(ip[q])'].up = dp[q])
  <2>1. SUFFICES ASSUME pc[q] = "c_dotdot" \/ (pc[q] = "c_link" /\ call[q].kind = "mkdir")
                 PROVE  Block(ip[q])' # 0 /\ (pc[q] = "c_link" => content'[Block(ip[q])'].up = dp[q])
    OBVIOUS
  <2>2. PICK x \in Inums : x = ip[q]
    BY <1>4, <2>1, Pointed DEF Inv, Base, PhaseOf, IpSet, UsesIp, Making
  <2>3. Has(q, x) /\ Points(q, x) /\ ~Maker(q, x)
    BY <2>1, <2>2 DEF Has, LocksIp, Points, Maker
  <2>4. Eff(dino, mem, x) = mem[x].ino /\ EffKept(x)
    BY <1>3, <2>3, HasIs
  <2>5. Block(x) # 0 /\ (pc[q] = "c_link" => content[Block(x)].up = dp[q])
    BY <1>1, <2>1, <2>2 DEF Knows
  <2>6. Block(x)' = Block(x) /\ Block(x) = mem[x].ino.blk
    BY <2>4, <2>5 DEF EffKept, Block
  <2>7. content'[mem[x].ino.blk] = content[mem[x].ino.blk]
    BY <2>3, <2>5, <2>6 DEF SameInode
  <2>8. ip'[q] = x
    BY <1>1, <2>2 DEF SameCall
  <2>9. Block(ip[q])' = Block(x)
    BY <2>6, <2>8
  <2>10. QED BY <2>2, <2>5, <2>6, <2>7, <2>9
<1>10. QED BY <1>1, <1>5, <1>6, <1>7, <1>8, <1>9 DEF Knows, SameCall

LEMMA KnowsKept ==
  ASSUME Inv, NEW p \in Procs, OthersSame(p), Frame(p), NEW q \in Procs \ {p}
  PROVE  Knows(q)'
<1>1. SameCall(q)
  BY DEF OthersSame, SameFor, SameCall
<1>2. ASSUME NEW x \in Inums PROVE SameInode(q, x)
  <2>1. FrameAt(p, x)
    BY DEF Frame
  <2>2. Points(q, x) /\ ~Maker(q, x) => EffKept(x)
    BY <2>1 DEF FrameAt
  <2>3. Has(q, x) => mem[x].busy /\ ~Has(p, x)
    BY HasIs
  <2>5. Has(q, x) => mem'[x].ino = mem[x].ino
    BY <2>1, <2>3 DEF FrameAt
  <2>6. Has(q, x) /\ mem[x].ino.blk # 0 => content'[mem[x].ino.blk] = content[mem[x].ino.blk]
    BY BlockKept
  <2>7. QED BY <2>2, <2>5, <2>6 DEF SameInode
<1>3. QED BY <1>1, <1>2, KnowsStay

-----------------------------------------------------------------------------
(* The invariant after a step of process p, from what happens to each inode. *)

LEMMA PutStartIs == Base /\ Agree /\ Used => PutsStarted
<1> SUFFICES ASSUME Base, Agree, Used, NEW p \in Procs, putting[p] # 0, PutStart(p, putting[p])
             PROVE  PutOf(p, putting[p])
  BY DEF PutsStarted, PutStarted
<1>1. PICK x \in Inums : x = putting[p]
  BY Pointed
<1>2. RefAt(p, x)
  BY RefsHold DEF Refs
<1>3. ~Points(p, x) /\ \A q \in Procs \ {p} : ~Points(q, x) /\ putting[q] # x
  BY <1>1, <1>2 DEF RefAt, PutStart
<1>4. \A q \in Procs : ~Drifts(q, x)
  BY <1>1, <1>3 DEF Drifts, Points, PutStart
<1>5. mem[x].ino = dino[x]
  BY <1>1, <1>4 DEF Agree, PutStart
<1>6. dino[x].type # "free"
  BY <1>1, <1>3 DEF Used, PutStart
<1>7. QED BY <1>1, <1>3, <1>5, <1>6 DEF PutOf, PutStart

LEMMA LocksFollow ==
  ASSUME Inv, NEW p \in Procs, OthersSame(p), Apart(p)', \A x \in Inums : LockMove(p, x)
  PROVE  Locks'
<1>1. ASSUME NEW x \in Inums
      PROVE  /\ mem'[x].busy <=> \E q \in Procs : Has(q, x)'
             /\ mem'[x].busy => mem'[x].valid
             /\ \A q, r \in Procs : Has(q, x)' /\ Has(r, x)' => q = r
  <2>1. /\ mem[x].busy <=> \E q \in Procs : Has(q, x)
        /\ mem[x].busy => mem[x].valid
        /\ \A q, r \in Procs : Has(q, x) /\ Has(r, x) => q = r
    BY DEF Inv, Locks
  <2>2. \A q \in Procs \ {p} : Has(q, x)' <=> Has(q, x)
    BY SameHolds
  <2>3. mem[x].busy \in BOOLEAN
    BY DEF Inv, Types, CacheTypes, Cached
  <2>4. CASE /\ mem'[x].busy = mem[x].busy /\ (Has(p, x)' <=> Has(p, x))
             /\ mem[x].busy /\ mem[x].valid => mem'[x].valid
    <3>1. \A q \in Procs : Has(q, x)' <=> Has(q, x)
      BY <2>2, <2>4
    <3>2. QED BY <2>1, <2>4, <3>1
  <2>5. CASE ~mem[x].busy /\ mem'[x].busy /\ mem'[x].valid /\ Has(p, x)'
    BY <2>1, <2>2, <2>5
  <2>6. CASE Has(p, x) /\ ~mem'[x].busy /\ ~Has(p, x)'
    BY <2>1, <2>2, <2>6
  <2>7. QED BY <2>4, <2>5, <2>6 DEF LockMove
<1>2. ASSUME NEW q \in Procs PROVE Apart(q)'
  <2>1. CASE q = p
    BY <2>1
  <2>2. CASE q # p
    <3>1. SameFor(q) /\ Apart(q)
      BY <2>2 DEF OthersSame, Inv, Locks
    <3>2. QED BY <3>1 DEF SameFor, Apart
  <2>3. QED BY <2>1, <2>2
<1>3. QED BY <1>1, <1>2 DEF Locks

LEMMA AgreeFollows ==
  ASSUME Inv, NEW p \in Procs, OthersSame(p), Frame(p), AgreeOwn(p)', \A x \in Inums : AgreeMove(p, x)
  PROVE  Agree'
<1>1. ASSUME NEW x \in Inums, mem'[x].ref > 0, mem'[x].valid, \A q \in Procs : ~Drifts(q, x)'
      PROVE  mem'[x].ino = dino'[x]
  <2>1. CASE /\ mem[x].ref > 0 /\ mem[x].valid /\ ~Drifts(p, x)
             /\ mem'[x].ino = mem[x].ino /\ dino'[x] = dino[x]
    <3>1. \A q \in Procs : ~Drifts(q, x)
      BY <1>1, <2>1, SameHolds
    <3>2. mem[x].ino = dino[x]
      BY <2>1, <3>1 DEF Inv, Agree
    <3>3. QED BY <2>1, <3>2
  <2>2. CASE mem'[x].ino = dino'[x]
    BY <2>2
  <2>3. QED BY <1>1, <2>1, <2>2 DEF AgreeMove
<1>2. ASSUME NEW q \in Procs PROVE AgreeOwn(q)'
  <2>1. CASE q = p
    BY <2>1
  <2>2. CASE q # p
    <3>1. SameFor(q) /\ AgreeOwn(q)
      BY <2>2 DEF OthersSame, Inv, Agree, AgreeOwn
    <3>2. ASSUME NEW x \in Inums, Has(q, x), dino[x].type # "free"
          PROVE  mem'[x].ino = mem[x].ino /\ dino'[x] = dino[x]
      <4>1. mem[x].busy /\ ~Has(p, x) /\ FrameAt(p, x)
        BY <2>2, <3>2, HasIs DEF Frame
      <4>2. QED BY <3>2, <4>1 DEF FrameAt, Alloc
    <3>3. CASE pc[q] = "w_upd"
      <4>1. PICK x \in Inums : x = fd[q]
        BY <3>3, Pointed DEF Inv, Base, PhaseOf
      <4>2. Has(q, x) /\ dino[x].type = "file" /\ NewBlock(x)
        BY <3>1, <3>3, <4>1 DEF Has, AgreeOwn
      <4>3. mem'[x].ino = mem[x].ino /\ dino'[x] = dino[x]
        BY <3>2, <4>2
      <4>4. NewBlock(x)' /\ dino'[x].type = "file"
        BY <4>2, <4>3 DEF NewBlock
      <4>5. QED BY <3>1, <3>3, <4>1, <4>4 DEF AgreeOwn, SameFor
    <3>4. CASE pc[q] = "c_dot"
      <4>1. PICK x \in Inums : x = ip[q]
        BY <3>4, Pointed DEF Inv, Base, PhaseOf, IpSet, UsesIp, Making
      <4>2. Has(q, x) /\ NewBlock(x)
        BY <3>1, <3>4, <4>1 DEF Has, LocksIp, AgreeOwn
      <4>3. MadeBy(q, x)
        BY <3>4, <4>1 DEF Inv, Fresh, Making
      <4>4. dino[x].type # "free"
        BY <4>3 DEF MadeBy
      <4>5. mem'[x].ino = mem[x].ino /\ dino'[x] = dino[x]
        BY <3>2, <4>2, <4>4
      <4>6. NewBlock(x)'
        BY <4>2, <4>5 DEF NewBlock
      <4>7. QED BY <3>1, <3>4, <4>1, <4>6 DEF AgreeOwn, SameFor
    <3>5. CASE pc[q] \notin {"w_upd", "c_dot"}
      BY <3>1, <3>5 DEF AgreeOwn, SameFor
    <3>6. QED BY <3>3, <3>4, <3>5
  <2>3. QED BY <2>1, <2>2
<1>3. QED BY <1>1, <1>2 DEF Agree, AgreeOwn

LEMMA UsedFollows ==
  ASSUME Inv, NEW p \in Procs, OthersSame(p), \A x \in Inums : UsedMove(p, x)
  PROVE  Used'
<1>1. ASSUME NEW x \in Inums, mem'[x].ref > 0, dino'[x].type = "free"
      PROVE  \E q \in Procs : putting'[q] = x /\ stage'[q] = "end"
  <2>1. CASE putting'[p] = x /\ stage'[p] = "end"
    BY <2>1
  <2>2. CASE mem[x].ref > 0 /\ dino[x].type = "free" /\ ~(putting[p] = x /\ stage[p] = "end")
    <3>1. PICK q \in Procs : putting[q] = x /\ stage[q] = "end"
      BY <2>2 DEF Inv, Used
    <3>2. q # p
      BY <2>2, <3>1
    <3>3. QED BY <3>1, <3>2, SameHolds
  <2>3. QED BY <1>1, <2>1, <2>2 DEF UsedMove
<1>2. QED BY <1>1 DEF Used

LEMMA InvFollows ==
  ASSUME Inv, Base', NEW p \in Procs, OthersSame(p), Frame(p), Own(p)', Tidy',
         \A x \in Inums : Move(p, x)
  PROVE  Inv'
<1>1. Locks'
  BY LocksFollow DEF Own, Move
<1>2. Agree' /\ Used'
  BY AgreeFollows, UsedFollows DEF Own, Move
<1>3. (Base /\ Agree /\ Used => PutsStarted)'
  BY PutStartIs, PTL
<1>4. ASSUME NEW q \in Procs, putting'[q] # 0 PROVE PutOf(q, putting[q])'
  <2>1. CASE q = p
    BY <1>2, <1>3, <1>4, <2>1 DEF Own, OwnPut, PutsStarted, PutStarted
  <2>2. CASE q # p
    BY <1>4, <2>2, PutsKept, SameHolds
  <2>3. QED BY <2>1, <2>2
<1>5. ASSUME NEW q \in Procs, pc'[q] \in Making PROVE MadeBy(q, ip[q])'
  <2>1. CASE q = p
    BY <1>5, <2>1 DEF Own, OwnMade
  <2>2. CASE q # p
    <3>1. pc'[q] = pc[q]
      BY <2>2 DEF OthersSame, SameFor
    <3>2. QED BY <1>5, <2>2, <3>1, FreshKept
  <2>3. QED BY <2>1, <2>2
<1>6. ASSUME NEW q \in Procs PROVE Knows(q)'
  <2>1. CASE q = p
    BY <2>1 DEF Own
  <2>2. CASE q # p
    BY <2>2, KnowsKept
  <2>3. QED BY <2>1, <2>2
<1>7. Puts' /\ Fresh' /\ Known'
  BY <1>4, <1>5, <1>6 DEF Puts, Fresh, Known
<1>8. QED BY <1>1, <1>2, <1>7 DEF Inv, Base

-----------------------------------------------------------------------------
(* The tree that is now, as a picture. *)

LEMMA EffType ==
  ASSUME DiskTypes, CacheTypes, NEW x \in Inums
  PROVE  Eff(dino, mem, x) \in Inode /\ Eff(dino, mem, x).blk \in {0} \cup Blocks
<1>1. mem[x].ino \in Inode /\ dino[x] \in Inode
  BY DEF DiskTypes, CacheTypes, Cached
<1>2. Eff(dino, mem, x) \in Inode
  BY <1>1 DEF Eff
<1>3. QED BY <1>2 DEF Inode

LEMMA PicHolds == Types => Pic
<1> SUFFICES ASSUME Types PROVE Pic
  OBVIOUS
<1>1. \A x \in Inums : dino[x].nlink \in Int
  BY DEF Types, DiskTypes, Inode
<1>2. Counts(dino) \in [Inums -> Int]
  BY <1>1 DEF Counts
<1>3. \A x \in Inums : Eff(dino, mem, x).blk \in {0} \cup Blocks
  BY EffType DEF Types
<1>4. Owned(dino, mem) \in [Inums -> {0} \cup Blocks]
  BY <1>3 DEF Owned
<1>5. DirsOf(dino, mem) \subseteq Inums /\ InMaking \subseteq Inums
  BY DEF DirsOf, InMaking
<1>6. Pend \in [Inums -> SUBSET Procs]
  BY DEF Pend
<1>7. content \in [Blocks -> DirBlock] /\ bitmap \subseteq Blocks
  BY DEF Types, DiskTypes
<1>8. QED BY <1>2, <1>4, <1>5, <1>6, <1>7 DEF Pic, Picture

LEMMA OthersPend ==
  ASSUME NEW p \in Procs, OthersSame(p), NEW q \in Procs \ {p}, NEW x
  PROVE  (Pending(q, x)' <=> Pending(q, x)) /\ (Makes(q, x)' <=> Makes(q, x))
<1>1. SameFor(q)
  BY DEF OthersSame
<1>2. QED BY <1>1 DEF SameFor, Pending, PendIp, PendDp, Makes

LEMMA PendIs ==
  ASSUME NEW x \in Inums
  PROVE  /\ Pend[x] = {q \in Procs : Pending(q, x)} /\ Pend'[x] = {q \in Procs : Pending(q, x)'}
         /\ x \in InMaking <=> \E q \in Procs : Makes(q, x)
         /\ x \in InMaking' <=> \E q \in Procs : Makes(q, x)'
<1>1. Pend[x] = {q \in Procs : Pending(q, x)}
  BY DEF Pend, Pending
<1>2. Pend' = [i \in Inums |-> {q \in Procs : Pending(q, i)'}]
  BY DEF Pend, Pending
<1>3. x \in InMaking <=> \E q \in Procs : Makes(q, x)
  BY DEF InMaking, Makes
<1>4. x \in InMaking' <=> \E q \in Procs : Makes(q, x)'
  BY DEF InMaking, Makes
<1>5. QED BY <1>1, <1>2, <1>3, <1>4

\* What is linked is not being made and is not free.
LEMMA Linked0 ==
  ASSUME Inv
  PROVE  /\ dino[root].nlink > 0 /\ root \notin InMaking
         /\ \A x \in Inums : dino[x].nlink > 0 => dino[x].type # "free"
         /\ \A x \in Inums : dino[x].nlink >= 0
<1>1. Counted(Counts(dino), Owned(dino, mem), DirsOf(dino, mem), content, Pend) /\ Pic
  BY PicHolds DEF Inv, Tidy, Sound
<1>2. Counts(dino)[root] > 0 /\ \A x \in Inums : Counts(dino)[x] >= 0
  BY <1>1, NamedCounted DEF Pic
<1>3. \A q \in Procs : ~Makes(q, root)
  BY DEF Inv, Fresh, Makes, MadeBy
<1>4. root \notin InMaking
  BY <1>3, PendIs, Sizes
<1>5. \A x \in Inums : dino[x].nlink > 0 => dino[x].type # "free"
  <2>1. \A x \in Inums : dino[x].type = "free" => dino[x].nlink = 0
    BY DEF Inv, Tidy
  <2>2. QED BY <2>1
<1>6. QED BY <1>2, <1>4, <1>5, Sizes DEF Counts

\* A name in a directory.
LEMMA NamedLinked ==
  ASSUME Inv, NEW d \in Inums, NEW s \in 1..Slots, NEW g,
         g = Named(Owned(dino, mem), DirsOf(dino, mem), content, d, s), g # 0
  PROVE  g \in Inums /\ dino[g].nlink > 0 /\ g \notin InMaking /\ g # root
<1>1. /\ Counted(Counts(dino), Owned(dino, mem), DirsOf(dino, mem), content, Pend) /\ Pic
      /\ Tree(Owned(dino, mem), DirsOf(dino, mem), content, InMaking)
  BY PicHolds DEF Inv, Tidy, Sound
<1>2. g \in Inums /\ Counts(dino)[g] > 0
  BY <1>1, NamedCounted DEF Pic
<1>3. Hangs(Owned(dino, mem), DirsOf(dino, mem), content, InMaking, d, s, g)
  BY <1>1 DEF Tree
<1>4. QED BY <1>2, <1>3 DEF Hangs, Counts

\* Nothing changes but who points where.
LEMMA TidyStays ==
  ASSUME Inv, Base', NEW p \in Procs, OthersSame(p), UNCHANGED diskVars,
         \A x \in Inums : EffSame(x),
         \A x \in Inums : mem'[x].ref > 0 => mem[x].ref > 0 \/ dino[x].nlink > 0,
         \A x \in Inums : (Pending(p, x)' => Pending(p, x)) /\ (Makes(p, x)' => Makes(p, x))
  PROVE  Tidy'
<1>1. dino' = dino /\ content' = content /\ bitmap' = bitmap
  BY DEF diskVars
<1>2. Pic /\ Sound(Counts(dino), Owned(dino, mem), DirsOf(dino, mem), content, bitmap, Pend, InMaking)
  BY PicHolds DEF Inv, Tidy
<1>3. (Types => Pic)'
  BY PicHolds, PTL
<1>4. Pic'
  BY <1>3 DEF Base
<1>5. PICK N, O, D, P, F : /\ N = Counts(dino) /\ O = Owned(dino, mem) /\ D = DirsOf(dino, mem)
                           /\ P = Pend /\ F = InMaking
  OBVIOUS
<1>6. PICK O2, D2, P2, F2 : O2 = Owned(dino, mem)' /\ D2 = DirsOf(dino, mem)' /\ P2 = Pend' /\ F2 = InMaking'
  OBVIOUS
<1>7. Counts(dino)' = N
  BY <1>1, <1>5 DEF Counts
<1>8. Picture(N, O, D, content, bitmap, P, F) /\ Sound(N, O, D, content, bitmap, P, F)
  BY <1>2, <1>5 DEF Pic
<1>9. Picture(N, O2, D2, content, bitmap, P2, F2)
  BY <1>1, <1>4, <1>6, <1>7 DEF Pic
<1>10. D2 = D
  BY <1>5, <1>6 DEF DirsOf, EffSame
<1>11. ASSUME NEW x \in Inums PROVE O2[x] = O[x] \/ (O2[x] = 0 /\ N[x] <= 0)
  <2>1. O2[x] = IF dino[x].nlink > 0 \/ mem'[x].ref > 0 THEN Eff(dino, mem, x)'.blk ELSE 0
    BY <1>1, <1>6 DEF Owned
  <2>2. O[x] = IF dino[x].nlink > 0 \/ mem[x].ref > 0 THEN Eff(dino, mem, x).blk ELSE 0
    BY <1>5 DEF Owned
  <2>3. N[x] = dino[x].nlink /\ dino[x].nlink \in Int /\ EffSame(x)
    BY <1>5 DEF Counts, Inv, Types, DiskTypes, Inode
  <2>4. QED BY <2>1, <2>2, <2>3 DEF EffSame
<1>12. Owners(O, D, content, bitmap) /\ Counted(N, O, D, content, P)
  BY <1>8 DEF Sound
<1>13. N[root] > 0 /\ N \in [Inums -> Int]
  <2>1. N \in [Inums -> Int]
    BY <1>8 DEF Picture
  <2>2. N[root] = dino[root].nlink
    BY <1>5, Sizes DEF Counts
  <2>3. QED BY <2>1, <2>2, Linked0
<1>14. Owners(O2, D2, content, bitmap)
  <2>1. \A x \in Inums : O2[x] # 0 => O2[x] = O[x]
    BY <1>11
  <2>2. O2[root] = O[root]
    BY <1>11, <1>13, Sizes
  <2>3. \A i \in Inums : O2[i] # 0 => O2[i] \in bitmap
    BY <1>12, <2>1 DEF Owners
  <2>4. ASSUME NEW i \in Inums, NEW j \in Inums, i # j, O2[i] # 0 PROVE O2[i] # O2[j]
    <3>1. O[i] # 0 /\ O2[i] = O[i] /\ O[i] # O[j]
      BY <1>12, <2>1, <2>4 DEF Owners
    <3>2. O2[j] = 0 \/ O2[j] = O[j]
      BY <1>11
    <3>3. QED BY <2>4, <3>1, <3>2
  <2>5. QED BY <1>10, <1>12, <2>2, <2>3, <2>4 DEF Owners
<1>15. \A d \in Inums, s \in 1..Slots :
         Named(O2, D2, content, d, s) # 0 => Named(O2, D2, content, d, s) = Named(O, D, content, d, s)
  BY <1>10, <1>11 DEF Named
<1>16. \A d \in Inums, s \in 1..Slots : LET c == Named(O, D, content, d, s) IN
         c # 0 /\ c \in D /\ O[c] # 0 => O2[c] # 0 /\ content[O2[c]].up = content[O[c]].up
  <2>1. SUFFICES ASSUME NEW d \in Inums, NEW s \in 1..Slots, NEW c, c = Named(O, D, content, d, s),
                        c # 0, O[c] # 0
                 PROVE  O2[c] = O[c]
    OBVIOUS
  <2>2. c \in Inums /\ N[c] > 0
    BY <1>8, <1>12, <2>1, NamedCounted
  <2>3. QED BY <1>11, <1>13, <2>2
<1>17. \A x \in Inums : P2[x] \subseteq P[x]
  <2>1. ASSUME NEW x \in Inums, NEW q \in Procs, Pending(q, x)' PROVE Pending(q, x)
    <3>1. CASE q = p
      BY <2>1, <3>1
    <3>2. CASE q # p
      BY <2>1, <3>2, OthersPend
    <3>3. QED BY <3>1, <3>2
  <2>2. QED BY <1>5, <1>6, <2>1, PendIs
<1>18. F2 \subseteq F
  <2>1. ASSUME NEW x \in Inums, NEW q \in Procs, Makes(q, x)' PROVE Makes(q, x)
    <3>1. CASE q = p
      BY <2>1, <3>1
    <3>2. CASE q # p
      BY <2>1, <3>2, OthersPend
    <3>3. QED BY <3>1, <3>2
  <2>2. F2 \subseteq Inums
    BY <1>9 DEF Picture
  <2>3. QED BY <1>5, <1>6, <2>1, <2>2, PendIs
<1>19. Sound(N, O2, D2, content, bitmap, P2, F2)
  <2>1. /\ \A i \in Inums : N[i] > 0 /\ i \in D2 => i \in D
        /\ \A i \in F2 : i \in F
    BY <1>10, <1>18
  <2>2. QED BY <1>8, <1>9, <1>14, <1>15, <1>16, <1>17, <2>1, Fewer
<1>20. \A i \in Inums : dino'[i].type = "free" => dino'[i].nlink = 0
  BY <1>1 DEF Inv, Tidy
<1>21. QED BY <1>1, <1>6, <1>7, <1>19, <1>20 DEF Tidy

-----------------------------------------------------------------------------
(* The steps that change nothing on the disk and in a copy. *)

LEMMA QuietCopies ==
  ASSUME Inv, NEW p \in Procs, NEW t, NEW s \in Inums, NEW new \in BOOLEAN, NEW lk \in BOOLEAN,
         NEW g, NEW how \in {"hold", "unlock", "drop", "put"},
         Visits(s, new, lk, g, how, t), QuietPtr(p, s, new, g), QuietLock(p, s, t, new, lk, how),
         NEW x \in Inums
  PROVE  CopyMove(x)
<1>1. VisitAt(s, new, lk, g, how, t, x)
  BY DEF Visits
<1>2. mem[x].ref \in Nat /\ mem[x].valid \in BOOLEAN /\ mem[x].busy \in BOOLEAN /\ x # 0
      /\ (~new /\ x = s => mem[x].ref > 0)
  <2>1. RefAt(p, x)
    BY RefsHold DEF Inv, Base, Refs
  <2>2. QED BY <2>1, Sizes DEF RefAt, QuietPtr, Inv, Types, CacheTypes, Cached
<1>3. CASE x # s
  <2>1. mem'[x].ref = mem[x].ref + Hit(g, x) /\ mem'[x].ino = mem[x].ino
        /\ mem'[x].valid = (mem[x].valid /\ (x = g => mem[x].ref > 0))
    BY <1>1, <1>2, <1>3 DEF VisitAt, One, Hit
  <2>2. Hit(g, x) = IF x = g THEN 1 ELSE 0
    BY DEF Hit
  <2>3. mem'[x].ref > 0 => mem[x].ref > 0 \/ dino[x].nlink > 0
    BY <1>2, <2>1, <2>2 DEF QuietPtr
  <2>4. mem'[x].valid => mem[x].valid /\ (mem'[x].ref > 0 => mem[x].ref > 0)
    <3>1. CASE x = g
      BY <1>2, <2>1, <3>1
    <3>2. CASE x # g
      <4>1. Hit(g, x) = 0
        BY <2>2, <3>2
      <4>2. mem'[x].ref = mem[x].ref
        BY <1>2, <2>1, <4>1
      <4>3. mem'[x].valid = mem[x].valid
        BY <1>2, <2>1, <3>2
      <4>4. QED BY <4>2, <4>3
    <3>3. QED BY <3>1, <3>2
  <2>5. mem[x].ref > 0 /\ mem[x].valid => mem'[x].valid
    BY <1>2, <2>1
  <2>6. QED BY <2>1, <2>3, <2>4, <2>5 DEF CopyMove
<1>4. CASE x = s
  <2>1. mem'[x].ino = IF lk /\ ~(mem[x].valid /\ (new => mem[x].ref > 0)) THEN dino[x] ELSE mem[x].ino
    BY <1>1, <1>4 DEF VisitAt
  <2>2. mem'[x].valid = ((lk \/ mem[x].valid) /\ (x = g => mem[x].ref + One(new) > 0))
    BY <1>1, <1>2, <1>4 DEF VisitAt
  <2>3. x = g => mem[x].ref + One(new) > 0
    BY <1>2, <1>4 DEF One
  <2>4. mem'[x].valid = (lk \/ mem[x].valid)
    BY <1>2, <2>2, <2>3
  <2>5. dino[x].nlink > 0 \/ mem[x].ref > 0
    BY <1>2, <1>4, Linked0 DEF QuietPtr
  <2>6. mem[x].busy => ~lk
    BY <1>4 DEF QuietLock
  <2>7. CASE lk /\ ~(mem[x].valid /\ (new => mem[x].ref > 0))
    BY <2>1, <2>4, <2>5, <2>6, <2>7 DEF CopyMove
  <2>8. CASE ~(lk /\ ~(mem[x].valid /\ (new => mem[x].ref > 0)))
    <3>1. mem'[x].ino = mem[x].ino
      BY <2>1, <2>8
    <3>2. mem'[x].valid => mem[x].valid /\ mem[x].ref > 0
      BY <1>2, <1>4, <2>4, <2>8 DEF QuietLock
    <3>3. QED BY <2>4, <2>5, <3>1, <3>2 DEF CopyMove
  <2>9. QED BY <2>7, <2>8
<1>5. QED BY <1>3, <1>4

\* Whoever looks at a copy sees what it saw.
LEMMA QuietEff ==
  ASSUME Inv, Base', NEW p \in Procs, OthersSame(p), UNCHANGED diskVars,
         pc[p] \notin {"w_upd", "c_dot"}, putting[p] = 0,
         NEW x \in Inums, CopyMove(x)
  PROVE  EffSame(x)
<1>0. mem[x].ref \in Nat /\ mem[x].valid \in BOOLEAN /\ dino' = dino
      /\ mem'[x].ref \in Nat /\ mem'[x].valid \in BOOLEAN
  <2>1. RefAt(p, x)
    BY RefsHold DEF Inv, Base, Refs
  <2>2. (Base => Refs)'
    BY RefsHold, PTL
  <2>3. RefAt(p, x)'
    BY <2>2 DEF Refs
  <2>4. QED BY <2>1, <2>3 DEF RefAt, Inv, Base, Types, CacheTypes, Cached, diskVars
<1>1. CASE mem'[x].ref > 0 /\ mem'[x].valid
  BY <1>0, <1>1 DEF CopyMove, EffSame, Eff
<1>2. CASE ~(mem'[x].ref > 0 /\ mem'[x].valid)
  <2>1. Eff(dino, mem, x)' = dino[x]
    BY <1>0, <1>2 DEF Eff
  <2>2. CASE mem[x].ref > 0 /\ mem[x].valid
    <3>1. ~(mem'[x].ref > 0)
      BY <1>0, <1>2, <2>2 DEF CopyMove
    <3>2. (Base => Refs)'
      BY RefsHold, PTL
    <3>3. ASSUME NEW q \in Procs PROVE ~Drifts(q, x)
      <4>1. CASE q = p
        BY <4>1, Sizes DEF Drifts
      <4>2. CASE q # p
        <5>1. RefAt(q, x)'
          BY <3>2 DEF Refs
        <5>2. ~Points(q, x)' /\ putting'[q] # x
          BY <3>1, <5>1 DEF RefAt
        <5>3. ~Points(q, x) /\ putting[q] # x
          BY <4>2, <5>2, SameHolds
        <5>4. QED BY <5>3 DEF Drifts, Points
      <4>3. QED BY <4>1, <4>2
    <3>4. mem[x].ino = dino[x]
      BY <2>2, <3>3 DEF Inv, Agree
    <3>5. QED BY <2>1, <2>2, <3>4 DEF EffSame, Eff
  <2>3. CASE ~(mem[x].ref > 0 /\ mem[x].valid)
    BY <2>1, <2>3 DEF EffSame, Eff
  <2>4. QED BY <2>2, <2>3
<1>3. QED BY <1>1, <1>2

LEMMA QuietLocks ==
  ASSUME Inv, Base', NEW p \in Procs, OthersSame(p), NEW t, NEW s \in Inums, NEW new \in BOOLEAN,
         NEW lk \in BOOLEAN, NEW g, NEW how \in {"hold", "unlock", "drop", "put"},
         putting'[p] = t, Visits(s, new, lk, g, how, t),
         QuietPtr(p, s, new, g), QuietLock(p, s, t, new, lk, how), NEW x \in Inums
  PROVE  LockMove(p, x)
<1>1. VisitAt(s, new, lk, g, how, t, x) /\ t \in {0, s} /\ (how \in {"hold", "unlock"} => t = 0)
  BY DEF Visits
<1>2. mem[x].busy \in BOOLEAN /\ mem[x].valid \in BOOLEAN /\ mem'[x].busy \in BOOLEAN
      /\ mem'[x].valid \in BOOLEAN /\ x # 0
  BY Sizes DEF Inv, Base, Types, CacheTypes, Cached
<1>3. (mem[x].busy => mem[x].ref > 0) /\ (Has(p, x) => mem[x].busy)
      /\ (mem[x].busy <=> \E q \in Procs : Has(q, x))
  BY HasIs DEF Inv, Locks
<1>4. CopyMove(x)
  BY QuietCopies
<1>5. CASE x # s
  <2>1. mem'[x].busy = mem[x].busy /\ (Has(p, x)' <=> Has(p, x))
    BY <1>1, <1>5 DEF VisitAt, QuietLock
  <2>2. mem[x].busy /\ mem[x].valid => mem'[x].valid
    BY <1>1, <1>2, <1>3, <1>5 DEF VisitAt
  <2>3. QED BY <2>1, <2>2 DEF LockMove
<1>6. CASE x = s
  <2>1. Has(p, x)' <=> how = "hold" \/ t = s
    BY <1>6 DEF QuietLock
  <2>2. t = s => mem'[x].ref = 1 /\ mem'[x].valid
    BY <1>2, <1>6 DEF Visits
  <2>3. lk => mem'[x].valid
    <3>1. (new => lk) /\ (~new => mem[x].ref > 0) /\ mem[x].ref \in Nat
      <4>1. RefAt(p, x)
        BY RefsHold DEF Inv, Base, Refs
      <4>2. QED BY <1>6, <4>1 DEF RefAt, QuietPtr, QuietLock
    <3>2. x = g => mem[x].ref + One(new) > 0
      BY <3>1 DEF One
    <3>3. QED BY <1>1, <1>2, <1>6, <3>2 DEF VisitAt
  <2>4. CASE how = "hold"
    <3>1. lk /\ ~mem[x].busy /\ mem'[x].busy
      BY <1>1, <1>2, <1>6, <2>4 DEF VisitAt, QuietLock
    <3>2. QED BY <2>1, <2>3, <2>4, <3>1 DEF LockMove
  <2>5. CASE how = "unlock"
    <3>1. ~mem'[x].busy /\ ~Has(p, x)'
      BY <1>1, <1>2, <1>6, <2>1, <2>5 DEF VisitAt
    <3>2. CASE lk
      <4>1. ~mem[x].busy /\ ~Has(p, x)
        BY <1>3, <1>6, <3>2 DEF QuietLock
      <4>2. QED BY <1>2, <3>1, <4>1 DEF LockMove
    <3>3. CASE ~lk
      BY <1>6, <2>5, <3>1, <3>3 DEF LockMove, QuietLock
    <3>4. QED BY <3>2, <3>3
  <2>6. CASE how = "drop"
    <3>1. mem'[x].busy = (t = s)
      BY <1>1, <1>6, <2>6 DEF VisitAt
    <3>2. CASE lk
      <4>1. ~mem[x].busy /\ ~Has(p, x)
        BY <1>3, <1>6, <3>2 DEF QuietLock
      <4>2. CASE t = s
        BY <2>1, <2>2, <3>1, <4>1, <4>2 DEF LockMove
      <4>3. CASE t # s
        BY <1>2, <2>1, <2>6, <3>1, <4>1, <4>3 DEF LockMove
      <4>4. QED BY <4>2, <4>3
    <3>3. CASE ~lk
      <4>1. Has(p, x) /\ mem[x].busy
        BY <1>3, <1>6, <2>6, <3>3 DEF QuietLock
      <4>2. CASE t = s
        BY <1>2, <2>1, <2>2, <3>1, <4>1, <4>2 DEF LockMove
      <4>3. CASE t # s
        BY <2>1, <2>6, <3>1, <4>1, <4>3 DEF LockMove
      <4>4. QED BY <4>2, <4>3
    <3>4. QED BY <3>2, <3>3
  <2>7. CASE how = "put"
    <3>1. ~lk /\ ~Has(p, x)
      BY <1>6, <2>7 DEF QuietLock
    <3>2. mem'[x].busy = (mem[x].busy \/ t = s)
      BY <1>1, <1>2, <1>6, <2>7, <3>1 DEF VisitAt
    <3>3. CASE t = s
      <4>1. (Base => Refs)'
        BY RefsHold, PTL
      <4>2. RefAt(p, x)'
        BY <4>1 DEF Refs
      <4>3. \A q \in Procs \ {p} : ~Points(q, x)' /\ putting'[q] # x
        BY <1>6, <2>2, <3>3, <4>2 DEF RefAt
      <4>4. \A q \in Procs \ {p} : ~Points(q, x) /\ putting[q] # x
        BY <4>3, SameHolds
      <4>5. \A q \in Procs \ {p} : ~Has(q, x)
        BY <4>4 DEF Has, Points
      <4>6. ~mem[x].busy
        BY <1>3, <3>1, <4>5
      <4>7. QED BY <2>1, <2>2, <3>2, <3>3, <4>6 DEF LockMove
    <3>4. CASE t # s
      <4>1. mem'[x].busy = mem[x].busy
        BY <1>2, <3>2, <3>4
      <4>2. x # g => mem'[x].valid = mem[x].valid
        BY <1>1, <1>2, <1>6, <3>1 DEF VisitAt
      <4>3. mem[x].busy /\ mem[x].valid => mem'[x].valid
        <5>1. (new => lk) /\ mem[x].ref \in Nat
          BY RefsHold DEF QuietLock, Inv, Base, Refs, RefAt
        <5>2. One(new) \in Nat
          BY DEF One
        <5>3. QED BY <1>1, <1>2, <1>3, <1>6, <5>1, <5>2 DEF VisitAt
      <4>4. QED BY <2>1, <2>7, <3>1, <3>4, <4>1, <4>3 DEF LockMove
    <3>5. QED BY <3>3, <3>4
  <2>8. QED BY <2>4, <2>5, <2>6, <2>7
<1>7. QED BY <1>5, <1>6

LEMMA QuietInv ==
  ASSUME Inv, Base', NEW p \in Procs, NEW pl, NEW k, NEW c, NEW d, NEW i, NEW f, NEW t,
         NEW s \in Inums, NEW new \in BOOLEAN, NEW lk \in BOOLEAN, NEW g,
         NEW how \in {"hold", "unlock", "drop", "put"},
         MoveOf(p, pl, k, c, d, i, f, t, s, new, lk, g, how),
         Quiet(p, pl, t, s, new, lk, g, how), Apart(p)', Knows(p)'
  PROVE  Inv'
<1>1. OthersSame(p) /\ Visits(s, new, lk, g, how, t) /\ UNCHANGED diskVars /\ pc'[p] = pl
      /\ putting'[p] = t /\ stage'[p] = "clear"
  BY DEF MoveOf, StepOf, Mine
<1>2. QuietPtr(p, s, new, g) /\ QuietLock(p, s, t, new, lk, how) /\ QuietPlace(p, pl, s, new, g)
  BY DEF Quiet
<1>3. dino' = dino /\ content' = content
  BY <1>1 DEF diskVars
<1>4. \A x \in Inums : CopyMove(x)
  BY <1>1, <1>2, QuietCopies
<1>5. pc[p] \notin {"w_upd", "c_dot"} /\ pl \notin {"w_upd", "c_dot"} /\ putting[p] = 0
      /\ pc[p] \notin Making /\ pl \notin Making
  BY <1>2 DEF QuietPlace, QuietPtr, Making
<1>6. \A x \in Inums : EffSame(x)
  BY <1>1, <1>4, <1>5, QuietEff
<1>7. \A x \in Inums : ~Drifts(p, x) /\ ~Maker(p, x) /\ ~Makes(p, x)' /\ x # 0
  BY <1>1, <1>5, Sizes DEF Drifts, Maker, Makes, Making
<1>8. ASSUME NEW x \in Inums PROVE FrameAt(p, x)
  <2>1. mem[x].busy => mem'[x].ino = mem[x].ino
    BY <1>4 DEF CopyMove
  <2>2. Points(p, x)' => Points(p, x) \/ (dino[x].nlink > 0 /\ x \notin InMaking)
    BY <1>2, <1>7, Linked0 DEF QuietPlace, QuietPtr
  <2>3. putting'[p] = x => mem'[x].ref = 1
    BY <1>1, <1>7 DEF Visits
  <2>4. EffKept(x)
    BY <1>6 DEF EffSame, EffKept
  <2>5. QED BY <1>3, <1>7, <2>1, <2>2, <2>3, <2>4 DEF FrameAt
<1>9. Frame(p)
  BY <1>3, <1>8 DEF Frame, ContentFrame
<1>10. ASSUME NEW x \in Inums PROVE Move(p, x)
  <2>1. LockMove(p, x)
    BY <1>1, <1>2, QuietLocks
  <2>2. CopyMove(x) /\ ~Drifts(p, x) /\ x # 0
    BY <1>4, <1>7
  <2>3. AgreeMove(p, x)
    BY <1>3, <2>2 DEF AgreeMove, CopyMove
  <2>4. UsedMove(p, x)
    BY <1>3, <1>5, <2>2, Linked0 DEF UsedMove, CopyMove
  <2>5. QED BY <2>1, <2>3, <2>4 DEF Move
<1>11. Tidy'
  <2>1. \A x \in Inums : mem'[x].ref > 0 => mem[x].ref > 0 \/ dino[x].nlink > 0
    BY <1>4 DEF CopyMove
  <2>2. \A x \in Inums : (Pending(p, x)' => Pending(p, x)) /\ (Makes(p, x)' => Makes(p, x))
    BY <1>2, <1>7 DEF QuietPlace
  <2>3. QED BY <1>1, <1>6, <2>1, <2>2, TidyStays
<1>12. AgreeOwn(p)' /\ OwnMade(p)'
  BY <1>1, <1>5 DEF AgreeOwn, OwnMade
<1>13. OwnPut(p)'
  BY <1>1 DEF OwnPut, PutStart, Visits
<1>14. Own(p)'
  BY <1>12, <1>13 DEF Own
<1>15. QED BY <1>1, <1>9, <1>10, <1>11, <1>14, InvFollows

\* What a process sees of an inode that it locks.
LEMMA LookedIs ==
  ASSUME Inv, NEW s \in Inums, NEW new \in BOOLEAN, ~new => mem[s].ref > 0
  PROVE  /\ CacheOK(Looked(s, new, TRUE)) /\ Ino(Looked(s, new, TRUE), s) = Eff(dino, mem, s)
         /\ CacheOK(Locked(mem, s)) /\ (mem[s].ref > 0 => Locked(mem, s)[s].ino = Eff(dino, mem, s))
<1>1. CacheOK(mem) /\ DiskTypes
  BY DEF Inv, Types, CacheTypes, CacheOK
<1>2. LockRel(mem, Locked(mem, s), s) /\ GotRel(mem, Igot(mem, s), s)
  BY <1>1, LockedIs, GotIs
<1>3. PICK g : g = Igot(mem, s)
  OBVIOUS
<1>4. LockRel(g, Locked(g, s), s) /\ GotRelAt(mem, g, s, s)
  BY <1>1, <1>2, <1>3, LockedIs DEF GotRel
<1>5. Locked(g, s)[s].ino = Eff(dino, mem, s)
  BY <1>4 DEF LockRel, LockRelAt, GotRelAt, Eff
<1>6. mem[s].ref > 0 => Locked(mem, s)[s].ino = Eff(dino, mem, s)
  BY <1>2 DEF LockRel, LockRelAt, Eff
<1>7. Ino(Looked(s, new, TRUE), s) = Eff(dino, mem, s)
  BY <1>3, <1>5, <1>6 DEF Looked, Ino
<1>8. CacheOK(Looked(s, new, TRUE))
  BY LookedOK DEF Inv, Base
<1>9. QED BY <1>2, <1>6, <1>7, <1>8 DEF LockRel

LEMMA PointsRef ==
  ASSUME Inv, NEW p \in Procs, NEW x \in Inums, Points(p, x) \/ putting[p] = x PROVE mem[x].ref > 0
  BY RefsHold DEF Inv, Base, Refs, RefAt

\* What a look at a directory finds.
LEMMA FoundIs ==
  ASSUME Inv, NEW s \in Inums, mem[s].ref > 0 \/ dino[s].nlink > 0,
         NEW m, CacheOK(m), m[s].ino = Eff(dino, mem, s), m[s].ino.type = "dir",
         NEW n, Where(m, s, n) # {}, NEW g, g = Entry(m, s, n)
  PROVE  /\ g \in Inums /\ dino[g].nlink > 0 /\ g \notin InMaking /\ g # root
         /\ IsDir(g) => Block(g) # 0
         /\ \E t \in 1..Slots : /\ t = First(Where(m, s, n))
                                /\ Named(Owned(dino, mem), DirsOf(dino, mem), content, s, t) = g
<1>1. PICK t \in 1..Slots : t = First(Where(m, s, n)) /\ m[s].ino.blk \in Blocks
                            /\ content[m[s].ino.blk].ent[t] \in Names \X Inums
                            /\ Entry(m, s, n) \in Inums /\ t \in Where(m, s, n)
  BY EntryIs DEF Inv, Types
<1>2. g = content[m[s].ino.blk].ent[t][2] /\ g \in Inums
  BY <1>1, Zenon DEF Entry, Ino
<1>3. content[m[s].ino.blk].ent[t] # NoEnt
  BY <1>1, Sizes, Zenon DEF Where, Ino
<1>4. Owned(dino, mem)[s] = m[s].ino.blk /\ s \in DirsOf(dino, mem)
  BY DEF Owned, DirsOf
<1>5. Named(Owned(dino, mem), DirsOf(dino, mem), content, s, t) = g
  BY <1>1, <1>2, <1>3, <1>4, Sizes DEF Named
<1>6. dino[g].nlink > 0 /\ g \notin InMaking /\ g # root
  BY <1>2, <1>5, NamedLinked, Sizes
<1>7. IsDir(g) => Block(g) # 0
  <2>1. Hangs(Owned(dino, mem), DirsOf(dino, mem), content, InMaking, s, t, g)
    BY <1>2, <1>5, Sizes DEF Inv, Tidy, Sound, Tree
  <2>2. IsDir(g) => g \in DirsOf(dino, mem)
    BY <1>2 DEF IsDir, DirsOf
  <2>3. Owned(dino, mem)[g] = Block(g)
    BY <1>2, <1>6 DEF Owned, Block
  <2>4. QED BY <2>1, <2>2, <2>3 DEF Hangs
<1>8. QED BY <1>1, <1>2, <1>5, <1>6, <1>7

\* The effect of a quiet step on what is seen.
LEMMA QuietSame ==
  ASSUME Inv, Base', NEW p \in Procs, NEW pl, NEW k, NEW c, NEW d, NEW i, NEW f, NEW t,
         NEW s \in Inums, NEW new \in BOOLEAN, NEW lk \in BOOLEAN, NEW g,
         NEW how \in {"hold", "unlock", "drop", "put"},
         MoveOf(p, pl, k, c, d, i, f, t, s, new, lk, g, how),
         Quiet(p, pl, t, s, new, lk, g, how)
  PROVE  \A x \in Inums : IsDir(x)' = IsDir(x) /\ Block(x)' = Block(x)
                          /\ Eff(dino, mem, x)' = Eff(dino, mem, x)
<1>1. OthersSame(p) /\ Visits(s, new, lk, g, how, t) /\ UNCHANGED diskVars
  BY DEF MoveOf, StepOf
<1>2. QuietPtr(p, s, new, g) /\ QuietLock(p, s, t, new, lk, how)
      /\ pc[p] \notin {"w_upd", "c_dot"} /\ putting[p] = 0
  BY DEF Quiet, QuietPtr, QuietPlace, Making
<1>3. \A x \in Inums : CopyMove(x)
  BY <1>1, <1>2, QuietCopies
<1>4. \A x \in Inums : EffSame(x)
  BY <1>1, <1>2, <1>3, QuietEff
<1>5. QED BY <1>4 DEF EffSame, IsDir, Block

\* A call that ends, or the close of a file.
LEMMA EndInv ==
  ASSUME Inv, Base', NEW p \in Procs, NEW k, NEW f, NEW t, NEW s \in Inums, NEW lk \in BOOLEAN,
         NEW new \in BOOLEAN, NEW how \in {"unlock", "drop", "put"},
         MoveOf(p, "idle", k, 0, 0, 0, f, t, s, new, lk, 0, how),
         QuietPtr(p, s, new, 0), new => lk,
         lk => ~mem[s].busy /\ how # "put",
         ~lk /\ how # "put" => Has(p, s),
         how = "put" => ~Has(p, s),
         pc[p] \notin Making \cup {"w_upd"}, f \in {0, fd[p]} \/ (f = s /\ ~new),
         \A x \in Inums : Has(p, x) => x = s
  PROVE  Inv'
<1>1. /\ Mine(p, "idle", k, 0, 0, 0, f, t, "clear") /\ t \in {0, s}
      /\ (how = "unlock" => t = 0)
  BY DEF MoveOf, StepOf, Visits
<1>2. ASSUME NEW x \in Inums PROVE Has(p, x)' <=> t = s /\ x = s
  BY <1>1, Sizes DEF Mine, Has, LocksDp, LocksIp, Making
<1>3. QuietLock(p, s, t, new, lk, how)
  BY <1>1, <1>2 DEF QuietLock
<1>4. ASSUME NEW x \in Inums PROVE Points(p, x)' => Points(p, x)
  BY <1>1, Sizes DEF Mine, Points, QuietPtr
<1>5. ASSUME NEW x \in Inums PROVE ~Pending(p, x)'
  BY <1>1 DEF Mine, Pending, PendIp, PendDp
<1>6. QuietPlace(p, "idle", s, new, 0)
  BY <1>4, <1>5 DEF QuietPlace, Making
<1>7. Apart(p)'
  BY <1>1 DEF Mine, Apart, LocksDp, LocksIp, Making
<1>8. Knows(p)'
  BY <1>1 DEF Mine, Knows
<1>9. QED BY <1>3, <1>6, <1>7, <1>8, QuietInv DEF Quiet

-----------------------------------------------------------------------------
(* Each quiet step keeps the invariant. *)

LEMMA OpenLockInv ==
  ASSUME Inv, NEW p \in Procs, OpenLock(p) PROVE Inv'
<1>1. Base /\ pc[p] = "o_lock" /\ putting[p] = 0 /\ ~mem[ip[p]].busy
  BY DEF OpenLock, Ready, Free, Inv, Base
<1>2. ip[p] \in Inums /\ stage[p] = "clear"
  BY <1>1, Locals DEF UsesIp
<1>3. Base'
  BY <1>1, OpenLockMoves
<1>4. QuietPtr(p, ip[p], FALSE, 0)
  BY <1>1, <1>2 DEF QuietPtr, Points
<1>5. \A x \in Inums : ~Has(p, x)
  BY <1>1, Sizes DEF Has, LocksDp, LocksIp, Making
<1>6. CASE MoveOf(p, "idle", NoCall, 0, 0, 0, ip[p], 0, ip[p], FALSE, TRUE, 0, "unlock")
  BY <1>1, <1>2, <1>3, <1>4, <1>5, <1>6, EndInv DEF Making
<1>7. CASE \E t : MoveOf(p, "idle", NoCall, 0, 0, 0, fd[p], t, ip[p], FALSE, TRUE, 0, "drop")
  <2>1. PICK t : MoveOf(p, "idle", NoCall, 0, 0, 0, fd[p], t, ip[p], FALSE, TRUE, 0, "drop")
    BY <1>7
  <2>2. QED BY <1>1, <1>2, <1>3, <1>4, <1>5, <2>1, EndInv DEF Making
<1>8. QED BY <1>1, <1>6, <1>7, OpenLockMoves

LEMMA CloseInv ==
  ASSUME Inv, NEW p \in Procs, Close(p) PROVE Inv'
<1>1. Base /\ pc[p] = "idle" /\ putting[p] = 0 /\ fd[p] # 0
  BY DEF Close, Ready, Inv, Base
<1>2. fd[p] \in Inums /\ stage[p] = "clear"
  BY <1>1, Locals, Pointed
<1>3. PICK t : MoveOf(p, "idle", call[p], 0, 0, 0, 0, t, fd[p], FALSE, FALSE, 0, "put")
  BY <1>1, CloseMoves
<1>4. QuietPtr(p, fd[p], FALSE, 0)
  BY <1>1, <1>2 DEF QuietPtr, Points
<1>5. \A x \in Inums : ~Has(p, x)
  BY <1>1, Sizes DEF Has, LocksDp, LocksIp, Making
<1>6. Base'
  BY <1>1, CloseMoves
<1>7. QED BY <1>1, <1>2, <1>3, <1>4, <1>5, <1>6, EndInv DEF Making

LEMMA LinkEndInv ==
  ASSUME Inv, NEW p \in Procs, LinkEnd(p) PROVE Inv'
<1>1. Base /\ pc[p] = "l_end" /\ putting[p] = 0
  BY DEF LinkEnd, Ready, Inv, Base
<1>2. ip[p] \in Inums /\ stage[p] = "clear"
  BY <1>1, Locals DEF UsesIp, Links
<1>3. PICK t : MoveOf(p, "idle", NoCall, 0, 0, 0, fd[p], t, ip[p], FALSE, FALSE, 0, "put")
  BY <1>1, LinkEndMoves
<1>4. QuietPtr(p, ip[p], FALSE, 0)
  BY <1>1, <1>2 DEF QuietPtr, Points
<1>5. \A x \in Inums : ~Has(p, x)
  BY <1>1, Sizes DEF Has, LocksDp, LocksIp, Making
<1>6. Base'
  BY <1>1, LinkEndMoves
<1>7. QED BY <1>1, <1>2, <1>3, <1>4, <1>5, <1>6, EndInv DEF Making

LEMMA CreateExistsInv ==
  ASSUME Inv, NEW p \in Procs, CreateExists(p) PROVE Inv'
<1>1. Base /\ pc[p] = "c_exist" /\ putting[p] = 0 /\ ~mem[ip[p]].busy
  BY DEF CreateExists, Ready, Free, Inv, Base
<1>2. ip[p] \in Inums /\ stage[p] = "clear"
  BY <1>1, Locals DEF UsesIp
<1>3. Base'
  BY <1>1, CreateExistsMoves
<1>4. QuietPtr(p, ip[p], FALSE, 0)
  BY <1>1, <1>2 DEF QuietPtr, Points
<1>5. \A x \in Inums : ~Has(p, x)
  BY <1>1, Sizes DEF Has, LocksDp, LocksIp, Making
<1>6. CASE MoveOf(p, "idle", NoCall, 0, 0, 0, ip[p], 0, ip[p], FALSE, TRUE, 0, "unlock")
  BY <1>1, <1>2, <1>3, <1>4, <1>5, <1>6, EndInv DEF Making
<1>7. CASE \E t : MoveOf(p, "idle", NoCall, 0, 0, 0, fd[p], t, ip[p], FALSE, TRUE, 0, "drop")
  <2>1. PICK t : MoveOf(p, "idle", NoCall, 0, 0, 0, fd[p], t, ip[p], FALSE, TRUE, 0, "drop")
    BY <1>7
  <2>2. QED BY <1>1, <1>2, <1>3, <1>4, <1>5, <2>1, EndInv DEF Making
<1>8. QED BY <1>1, <1>6, <1>7, CreateExistsMoves

LEMMA CreateEndInv ==
  ASSUME Inv, NEW p \in Procs, CreateEnd(p) PROVE Inv'
<1>1. Base /\ pc[p] = "c_end" /\ putting[p] = 0
  BY DEF CreateEnd, Ready, Inv, Base
<1>2. ip[p] \in Inums /\ stage[p] = "clear"
  BY <1>1, Locals DEF UsesIp
<1>3. Base'
  BY <1>1, CreateEndMoves
<1>4. QuietPtr(p, ip[p], FALSE, 0)
  BY <1>1, <1>2 DEF QuietPtr, Points
<1>5. Has(p, ip[p]) /\ \A x \in Inums : Has(p, x) => x = ip[p]
  BY <1>1, Sizes DEF Has, LocksDp, LocksIp, Making
<1>6. CASE MoveOf(p, "idle", NoCall, 0, 0, 0, ip[p], 0, ip[p], FALSE, FALSE, 0, "unlock")
  BY <1>1, <1>2, <1>3, <1>4, <1>5, <1>6, EndInv DEF Making
<1>7. CASE \E t : MoveOf(p, "idle", NoCall, 0, 0, 0, fd[p], t, ip[p], FALSE, FALSE, 0, "drop")
  <2>1. PICK t : MoveOf(p, "idle", NoCall, 0, 0, 0, fd[p], t, ip[p], FALSE, FALSE, 0, "drop")
    BY <1>7
  <2>2. QED BY <1>1, <1>2, <1>3, <1>4, <1>5, <2>1, EndInv DEF Making
<1>8. QED BY <1>1, <1>6, <1>7, CreateEndMoves

LEMMA LinkOldFailInv ==
  ASSUME Inv, NEW p \in Procs, LinkOld(p), Ino(Locked(mem, ip[p]), ip[p]).type = "dir" PROVE Inv'
<1>1. Base /\ pc[p] = "l_old" /\ putting[p] = 0 /\ ~mem[ip[p]].busy
  BY DEF LinkOld, Ready, Free, Inv, Base
<1>2. ip[p] \in Inums /\ stage[p] = "clear"
  BY <1>1, Locals DEF UsesIp, Links
<1>3. PICK t : MoveOf(p, "idle", NoCall, 0, 0, 0, fd[p], t, ip[p], FALSE, TRUE, 0, "drop")
  BY <1>1, LinkOldMoves
<1>4. QuietPtr(p, ip[p], FALSE, 0)
  BY <1>1, <1>2 DEF QuietPtr, Points
<1>5. \A x \in Inums : ~Has(p, x)
  BY <1>1, Sizes DEF Has, LocksDp, LocksIp, Making
<1>6. Base'
  BY <1>1, LinkOldMoves
<1>7. QED BY <1>1, <1>2, <1>3, <1>4, <1>5, <1>6, EndInv DEF Making

LEMMA UnlinkFailInv ==
  ASSUME Inv, NEW p \in Procs, UnlinkFail(p) PROVE Inv'
<1>1. Base /\ pc[p] = "u_fail" /\ putting[p] = 0
  BY DEF UnlinkFail, Ready, Inv, Base
<1>2. dp[p] \in Inums /\ stage[p] = "clear"
  BY <1>1, Locals DEF UsesDp
<1>3. PICK t : MoveOf(p, "idle", NoCall, 0, 0, 0, fd[p], t, dp[p], FALSE, FALSE, 0, "drop")
  BY <1>1, UnlinkFailMoves
<1>4. QuietPtr(p, dp[p], FALSE, 0)
  BY <1>1, <1>2 DEF QuietPtr, Points
<1>5. Has(p, dp[p]) /\ \A x \in Inums : Has(p, x) => x = dp[p]
  BY <1>1, Sizes DEF Has, LocksDp, LocksIp, Making
<1>6. Base'
  BY <1>1, UnlinkFailMoves
<1>7. QED BY <1>1, <1>2, <1>3, <1>4, <1>5, <1>6, EndInv DEF Making

LEMMA CreateLockInv ==
  ASSUME Inv, NEW p \in Procs, CreateLock(p) PROVE Inv'
<1>1. Base /\ pc[p] = "c_lock" /\ putting[p] = 0 /\ ~mem[dp[p]].busy
  BY DEF CreateLock, Ready, Free, Inv, Base
<1>2. dp[p] \in Inums /\ stage[p] = "clear"
  BY <1>1, Locals DEF UsesDp
<1>3. Base'
  BY <1>1, CreateLockMoves
<1>4. IsDir(dp[p]) /\ Block(dp[p]) # 0 /\ Points(p, dp[p]) /\ mem[dp[p]].ref > 0
  <2>1. Points(p, dp[p])
    BY DEF Points
  <2>2. Knows(p) /\ dp[p] # 0
    BY <1>2, Sizes DEF Inv, Known
  <2>3. QED BY <1>2, <2>1, <2>2, PointsRef DEF Knows
<1>5. \A x \in Inums : ~Has(p, x)
  BY <1>1, Sizes DEF Has, LocksDp, LocksIp, Making
<1>6. CASE MoveOf(p, "c_alloc", call[p], 0, dp[p], 0, fd[p], 0, dp[p], FALSE, TRUE, 0, "hold")
  <2>1. Mine(p, "c_alloc", call[p], 0, dp[p], 0, fd[p], 0, "clear")
    BY <1>6 DEF MoveOf, StepOf
  <2>2. QuietPtr(p, dp[p], FALSE, 0)
    BY <1>1, <1>2, <1>4 DEF QuietPtr
  <2>3. \A x \in Inums : Has(p, x)' <=> x = dp[p]
    BY <2>1, Sizes DEF Mine, Has, LocksDp, LocksIp, Making
  <2>4. QuietLock(p, dp[p], 0, FALSE, TRUE, "hold")
    BY <1>1, <1>2, <1>5, <2>3, Sizes DEF QuietLock
  <2>5. \A x \in Inums : (Points(p, x)' => Points(p, x)) /\ ~Pending(p, x)'
    BY <2>1, Sizes DEF Mine, Points, Pending, PendIp, PendDp
  <2>6. QuietPlace(p, "c_alloc", dp[p], FALSE, 0)
    BY <1>1, <2>5 DEF QuietPlace, Making
  <2>7. Quiet(p, "c_alloc", 0, dp[p], FALSE, TRUE, 0, "hold")
    BY <2>2, <2>4, <2>6 DEF Quiet
  <2>8. IsDir(dp[p])' /\ Block(dp[p])' # 0
    <3>1. dp'[p] = dp[p]
      BY <2>1 DEF Mine
    <3>2. PICK s \in Inums : s = dp[p]
      BY <1>2
    <3>3. IsDir(s)' = IsDir(s) /\ Block(s)' = Block(s)
      BY <1>3, <1>6, <2>7, <3>2, QuietSame
    <3>4. QED BY <1>4, <3>1, <3>2, <3>3
  <2>9. Knows(p)'
    BY <2>1, <2>8 DEF Mine, Knows
  <2>10. Apart(p)'
    BY <2>1 DEF Mine, Apart, LocksDp, LocksIp, Making
  <2>11. QED BY <1>2, <1>3, <1>6, <2>7, <2>9, <2>10, QuietInv
<1>7. ASSUME NEW g \in Inums, NEW t,
             g = Entry(Locked(mem, dp[p]), dp[p], NameOf(p)),
             Where(Locked(mem, dp[p]), dp[p], NameOf(p)) # {},
             MoveOf(p, "c_exist", call[p], 0, 0, g, fd[p], t, dp[p], FALSE, TRUE, g, "drop")
      PROVE  Inv'
  <2>1. Mine(p, "c_exist", call[p], 0, 0, g, fd[p], t, "clear") /\ t \in {0, dp[p]}
    BY <1>7 DEF MoveOf, StepOf, Visits
  <2>2. QuietPtr(p, dp[p], FALSE, g)
    <3>1. CacheOK(Locked(mem, dp[p])) /\ Locked(mem, dp[p])[dp[p]].ino = Eff(dino, mem, dp[p])
      BY <1>2, <1>4, LookedIs
    <3>2. dino[g].nlink > 0 /\ g \notin InMaking
      BY <1>2, <1>4, <1>7, <3>1, FoundIs DEF IsDir
    <3>3. QED BY <1>1, <1>2, <1>4, <1>7, <3>2 DEF QuietPtr
  <2>3. \A x \in Inums : Has(p, x)' <=> t = dp[p] /\ x = dp[p]
    BY <1>2, <2>1, Sizes DEF Mine, Has, LocksDp, LocksIp, Making
  <2>4. QuietLock(p, dp[p], t, FALSE, TRUE, "drop")
    BY <1>1, <1>2, <1>5, <2>3, Sizes DEF QuietLock
  <2>5. \A x \in Inums : (Points(p, x)' => Points(p, x) \/ x = g) /\ ~Pending(p, x)'
    BY <2>1, Sizes DEF Mine, Points, Pending, PendIp, PendDp
  <2>6. QuietPlace(p, "c_exist", dp[p], FALSE, g)
    BY <1>1, <2>5 DEF QuietPlace, Making
  <2>7. Quiet(p, "c_exist", t, dp[p], FALSE, TRUE, g, "drop")
    BY <2>2, <2>4, <2>6 DEF Quiet
  <2>8. Knows(p)' /\ Apart(p)'
    BY <2>1 DEF Mine, Knows, Apart, LocksDp, LocksIp, Making
  <2>9. QED BY <1>2, <1>3, <1>7, <2>7, <2>8, QuietInv
<1>8. QED
  <2>1. CASE \E g, t :
               /\ g \in Inums
               /\ Finds(Locked(mem, dp[p]), dp[p], NameOf(p), g)
                  \/ Ino(Locked(mem, dp[p]), dp[p]).type # "dir"
               /\ g = Entry(Locked(mem, dp[p]), dp[p], NameOf(p))
               /\ MoveOf(p, "c_exist", call[p], 0, 0, g, fd[p], t, dp[p], FALSE, TRUE, g, "drop")
    <3>1. Ino(Locked(mem, dp[p]), dp[p]).type = "dir"
      BY <1>2, <1>4, LookedIs DEF Ino, IsDir
    <3>2. QED BY <1>7, <2>1, <3>1 DEF Finds
  <2>2. QED BY <1>1, <1>6, <2>1, CreateLockMoves

\* A lock that is taken and given back in one step.
LEMMA FreeLock ==
  ASSUME NEW p \in Procs, NEW pl, NEW k, NEW c, NEW d, NEW i, NEW f, NEW t, NEW s \in Inums,
         Mine(p, pl, k, c, d, i, f, t, "clear"), pl \notin LocksDp \cup LocksIp \cup {"w_upd"},
         \A x \in Inums : ~Has(p, x), ~mem[s].busy, NEW how \in {"unlock", "drop"},
         t \in {0, s}, how = "unlock" => t = 0, NEW new
  PROVE  QuietLock(p, s, t, new, TRUE, how) /\ Apart(p)'
<1>1. ASSUME NEW x \in Inums PROVE Has(p, x)' <=> t = s /\ x = s
  BY Sizes DEF Mine, Has
<1>2. Apart(p)'
  BY DEF Mine, Apart
<1>3. QED BY <1>1, <1>2, Sizes DEF QuietLock

LEMMA LinkNewInv ==
  ASSUME Inv, NEW p \in Procs, LinkNew(p) PROVE Inv'
<1>1. Base /\ pc[p] = "l_new" /\ putting[p] = 0 /\ ~mem[dp[p]].busy
  BY DEF LinkNew, Ready, Free, Inv, Base
<1>2. dp[p] \in Inums /\ ip[p] \in Inums /\ stage[p] = "clear"
  BY <1>1, Locals DEF UsesDp, UsesIp, Links
<1>3. PICK t : MoveOf(p, "l_bad", call[p], 0, 0, ip[p], fd[p], t, dp[p], FALSE, TRUE, 0, "drop")
  BY <1>1, LinkNewMoves
<1>4. Base' /\ Mine(p, "l_bad", call[p], 0, 0, ip[p], fd[p], t, "clear") /\ t \in {0, dp[p]}
  BY <1>1, <1>3, LinkNewMoves DEF MoveOf, StepOf, Visits
<1>5. QuietPtr(p, dp[p], FALSE, 0)
  BY <1>1, <1>2 DEF QuietPtr, Points
<1>6. \A x \in Inums : ~Has(p, x)
  BY <1>1, Sizes DEF Has, LocksDp, LocksIp, Making
<1>7. QuietLock(p, dp[p], t, FALSE, TRUE, "drop") /\ Apart(p)'
  <2>1. "l_bad" \notin LocksDp \cup LocksIp \cup {"w_upd"}
    BY DEF LocksDp, LocksIp, Making
  <2>2. PICK s \in Inums : s = dp[p]
    BY <1>2
  <2>3. QED BY <1>1, <1>4, <1>6, <2>1, <2>2, FreeLock
<1>8. \A x \in Inums : (Points(p, x)' => Points(p, x)) /\ (Pending(p, x)' => Pending(p, x))
  BY <1>1, <1>4, Sizes DEF Mine, Points, Pending, PendIp, PendDp
<1>9. QuietPlace(p, "l_bad", dp[p], FALSE, 0)
  BY <1>1, <1>8 DEF QuietPlace, Making
<1>10. Quiet(p, "l_bad", t, dp[p], FALSE, TRUE, 0, "drop")
  BY <1>5, <1>7, <1>9 DEF Quiet
<1>11. Eff(dino, mem, ip[p])'.type = "file"
  <2>1. PICK x \in Inums : x = ip[p]
    BY <1>2
  <2>2. Eff(dino, mem, x).type = "file"
    BY <1>1, <2>1 DEF Inv, Known, Knows
  <2>3. Eff(dino, mem, x)' = Eff(dino, mem, x)
    BY <1>2, <1>3, <1>4, <1>10, QuietSame
  <2>4. ip'[p] = x
    BY <1>4, <2>1 DEF Mine
  <2>5. QED BY <2>2, <2>3, <2>4
<1>12. Knows(p)'
  BY <1>4, <1>11 DEF Mine, Knows
<1>13. QED BY <1>2, <1>3, <1>4, <1>7, <1>10, <1>12, QuietInv

LEMMA LinkNewLockInv ==
  ASSUME Inv, NEW p \in Procs, LinkNewLock(p) PROVE Inv'
<1>1. Base /\ pc[p] = "l_new" /\ putting[p] = 0 /\ ~mem[dp[p]].busy
  BY DEF LinkNewLock, Ready, Free, Inv, Base
<1>2. PICK s, x \in Inums : s = dp[p] /\ x = ip[p] /\ stage[p] = "clear"
  BY <1>1, Locals DEF UsesDp, UsesIp, Links
<1>3. MoveOf(p, "l_link", call[p], 0, s, x, fd[p], 0, s, FALSE, TRUE, 0, "hold") /\ Base'
  BY <1>1, <1>2, LinkNewLockMoves
<1>4. Mine(p, "l_link", call[p], 0, s, x, fd[p], 0, "clear")
  BY <1>3 DEF MoveOf, StepOf
<1>5. QuietPtr(p, s, FALSE, 0)
  BY <1>1, <1>2 DEF QuietPtr, Points
<1>6. \A y \in Inums : ~Has(p, y) /\ (Has(p, y)' <=> y = s)
  BY <1>1, <1>4, Sizes DEF Mine, Has, LocksDp, LocksIp, Making
<1>7. QuietLock(p, s, 0, FALSE, TRUE, "hold") /\ Apart(p)'
  BY <1>1, <1>2, <1>4, <1>6, Sizes DEF QuietLock, Mine, Apart, LocksDp, LocksIp, Making
<1>8. \A y \in Inums : (Points(p, y)' => Points(p, y)) /\ (Pending(p, y)' => Pending(p, y))
  BY <1>1, <1>2, <1>4, Sizes DEF Mine, Points, Pending, PendIp, PendDp
<1>9. QuietPlace(p, "l_link", s, FALSE, 0)
  BY <1>1, <1>8 DEF QuietPlace, Making
<1>10. Quiet(p, "l_link", 0, s, FALSE, TRUE, 0, "hold")
  BY <1>5, <1>7, <1>9 DEF Quiet
<1>11. \A y \in Inums : IsDir(y)' = IsDir(y) /\ Block(y)' = Block(y)
                        /\ Eff(dino, mem, y)' = Eff(dino, mem, y)
  BY <1>3, <1>10, QuietSame
<1>12. IsDir(s) /\ Block(s) # 0 /\ Eff(dino, mem, x).type = "file"
  BY <1>1, <1>2, Sizes DEF Inv, Known, Knows
<1>13. Knows(p)'
  BY <1>4, <1>11, <1>12 DEF Mine, Knows
<1>14. QED BY <1>3, <1>7, <1>10, <1>13, QuietInv

LEMMA NotEmptyInv ==
  ASSUME Inv, NEW p \in Procs, UnlinkEntry(p), Ino(Locked(mem, ip[p]), ip[p]).type = "dir",
         ~Empty(Locked(mem, ip[p]), ip[p])
  PROVE  Inv'
<1>1. Base /\ pc[p] = "u_ip" /\ putting[p] = 0 /\ ~mem[ip[p]].busy
  BY DEF UnlinkEntry, Ready, Free, Inv, Base
<1>2. PICK d, s \in Inums : d = dp[p] /\ s = ip[p] /\ stage[p] = "clear"
  BY <1>1, Locals DEF UsesDp, UsesIp
<1>3. PICK t : MoveOf(p, "u_fail", call[p], 0, d, 0, fd[p], t, s, FALSE, TRUE, 0, "drop")
  BY <1>1, <1>2, UnlinkEntryMoves
<1>4. Mine(p, "u_fail", call[p], 0, d, 0, fd[p], t, "clear") /\ t \in {0, s} /\ Base'
  BY <1>1, <1>3, UnlinkEntryMoves DEF MoveOf, StepOf, Visits
<1>5. QuietPtr(p, s, FALSE, 0)
  BY <1>1, <1>2 DEF QuietPtr, Points
<1>6. \A y \in Inums : (Has(p, y) <=> y = d) /\ (Has(p, y)' <=> y = d \/ (t = s /\ y = s))
  BY <1>1, <1>2, <1>4, Sizes DEF Mine, Has, LocksDp, LocksIp, Making
<1>7. d # s
  BY <1>1, <1>2, <1>6, HasIs
<1>8. QuietLock(p, s, t, FALSE, TRUE, "drop") /\ Apart(p)'
  BY <1>1, <1>2, <1>4, <1>6, <1>7, Sizes DEF QuietLock, Mine, Apart, LocksDp, LocksIp, Making
<1>9. \A y \in Inums : (Points(p, y)' => Points(p, y)) /\ ~Pending(p, y)'
  BY <1>1, <1>2, <1>4, Sizes DEF Mine, Points, Pending, PendIp, PendDp
<1>10. QuietPlace(p, "u_fail", s, FALSE, 0)
  BY <1>1, <1>9 DEF QuietPlace, Making
<1>11. Quiet(p, "u_fail", t, s, FALSE, TRUE, 0, "drop")
  BY <1>5, <1>8, <1>10 DEF Quiet
<1>12. IsDir(d)' = IsDir(d) /\ Block(d)' = Block(d)
  BY <1>3, <1>4, <1>11, QuietSame
<1>13. IsDir(d) /\ Block(d) # 0
  BY <1>2, Sizes DEF Inv, Known, Knows
<1>14. dp'[p] = d /\ cur'[p] = 0 /\ pc'[p] = "u_fail"
  BY <1>4 DEF Mine
<1>15. IsDir(dp[p])' /\ Block(dp[p])' # 0
  BY <1>12, <1>13, <1>14
<1>16. Knows(p)'
  BY <1>14, <1>15 DEF Knows
<1>17. QED BY <1>3, <1>4, <1>8, <1>11, <1>16, QuietInv

LEMMA UnlinkLookupInv ==
  ASSUME Inv, NEW p \in Procs, UnlinkLookup(p) PROVE Inv'
<1>1. Base /\ pc[p] = "u_lock" /\ putting[p] = 0 /\ ~mem[dp[p]].busy
  BY DEF UnlinkLookup, Ready, Free, Inv, Base
<1>2. PICK s \in Inums : s = dp[p] /\ stage[p] = "clear"
  BY <1>1, Locals DEF UsesDp
<1>3. Base'
  BY <1>1, UnlinkLookupMoves
<1>4. \A x \in Inums : ~Has(p, x)
  BY <1>1, Sizes DEF Has, LocksDp, LocksIp, Making
<1>5. IsDir(s) /\ Block(s) # 0 /\ Points(p, s) /\ mem[s].ref > 0
  <2>1. Points(p, s)
    BY <1>2 DEF Points
  <2>2. Knows(p) /\ dp[p] # 0
    BY <1>2, Sizes DEF Inv, Known
  <2>3. QED BY <1>2, <2>1, <2>2, PointsRef DEF Knows
<1>6. ASSUME NEW t, MoveOf(p, "idle", NoCall, 0, 0, 0, fd[p], t, s, FALSE, TRUE, 0, "drop")
      PROVE  Inv'
  <2>1. QuietPtr(p, s, FALSE, 0)
    BY <1>1, <1>2, <1>5 DEF QuietPtr
  <2>2. QED BY <1>1, <1>2, <1>3, <1>4, <1>6, <2>1, EndInv DEF Making
<1>7. ASSUME NEW g \in Inums, Where(Locked(mem, s), s, NameOf(p)) # {},
             g = Entry(Locked(mem, s), s, NameOf(p)),
             MoveOf(p, "u_ip", call[p], 0, s, g, fd[p], 0, s, FALSE, TRUE, g, "hold")
      PROVE  Inv'
  <2>1. Mine(p, "u_ip", call[p], 0, s, g, fd[p], 0, "clear") /\ UNCHANGED diskVars
        /\ VisitAt(s, FALSE, TRUE, g, "hold", 0, s)
    BY <1>7 DEF MoveOf, StepOf, Visits
  <2>2. PICK m : m = Locked(mem, s)
    OBVIOUS
  <2>3. CacheOK(m) /\ m[s].ino = Eff(dino, mem, s)
    BY <1>5, <2>2, LookedIs
  <2>4. dino[g].nlink > 0 /\ g \notin InMaking
    BY <1>5, <1>7, <2>2, <2>3, FoundIs DEF IsDir
  <2>5. QuietPtr(p, s, FALSE, g)
    BY <1>1, <1>2, <1>5, <2>4 DEF QuietPtr
  <2>6. \A x \in Inums : Has(p, x)' <=> x = s
    BY <2>1, Sizes DEF Mine, Has, LocksDp, LocksIp, Making
  <2>7. QuietLock(p, s, 0, FALSE, TRUE, "hold")
    BY <1>1, <1>2, <1>4, <2>6, Sizes DEF QuietLock
  <2>8. \A x \in Inums : (Points(p, x)' => Points(p, x) \/ x = g) /\ ~Pending(p, x)'
    BY <1>2, <2>1, Sizes DEF Mine, Points, Pending, PendIp, PendDp
  <2>9. QuietPlace(p, "u_ip", s, FALSE, g)
    BY <1>1, <2>8 DEF QuietPlace, Making
  <2>10. Quiet(p, "u_ip", 0, s, FALSE, TRUE, g, "hold")
    BY <2>5, <2>7, <2>9 DEF Quiet
  <2>11. IsDir(s)' /\ Block(s)' # 0
    BY <1>3, <1>5, <1>7, <2>10, QuietSame
  <2>12. PICK H : H = Where(m, s, NameOf(p))
    OBVIOUS
  <2>13. H # {} /\ g = content[m[s].ino.blk].ent[First(H)][2]
    BY <1>7, <2>2, <2>12, Zenon DEF Entry, Ino
  <2>14. mem'[s].ino = m[s].ino
    <3>1. Locked(mem, s)[s].ino = IF mem[s].valid THEN mem[s].ino ELSE dino[s]
      BY <1>1, InodeIs
    <3>2. QED BY <2>1, <2>2, <3>1 DEF VisitAt
  <2>15. content' = content /\ call'[p] = call[p] /\ dp'[p] = s /\ ip'[p] = g /\ cur'[p] = 0
         /\ pc'[p] = "u_ip"
    BY <2>1 DEF Mine, diskVars
  <2>16. NameOf(p)' = NameOf(p)
    BY <2>15 DEF NameOf
  <2>17. Where(mem, s, NameOf(p))' = H
    BY <2>12, <2>14, <2>15, <2>16 DEF Where, Ino
  <2>18. Where(mem, dp[p], NameOf(p))' = H
    BY <2>15, <2>17
  <2>19. content'[mem'[dp'[p]].ino.blk].ent[First(H)][2] = ip'[p]
    BY <2>13, <2>14, <2>15
  <2>20. Knows(p)'
    <3>1. IsDir(dp[p])' /\ Block(dp[p])' # 0
      BY <2>11, <2>15
    <3>2. LET b == mem'[dp'[p]].ino.blk
              here == Where(mem, dp[p], NameOf(p))' IN
          here # {} /\ content'[b].ent[First(here)][2] = ip'[p]
      BY <2>13, <2>18, <2>19
    <3>3. QED BY <2>15, <3>1, <3>2 DEF Knows
  <2>21. Apart(p)'
    BY <2>1 DEF Mine, Apart, LocksDp, LocksIp, Making
  <2>22. QED BY <1>3, <1>7, <2>10, <2>20, <2>21, QuietInv
<1>8. QED BY <1>1, <1>2, <1>6, <1>7, UnlinkLookupMoves

-----------------------------------------------------------------------------
(* One turn of namex. *)

LEMMA WalkAtIs ==
  ASSUME Inv, NEW p \in Procs, Walk(p), NEW s, s = (IF cur[p] = 0 THEN root ELSE cur[p]),
         NEW new, new = (cur[p] = 0)
  PROVE  WalkAt(p, s, new) /\ WalkMove(p, s, new)
<1>1. Base /\ Base' /\ WalkMove(p, s, new) /\ WalkFrom(p, s, new)
  BY WalkMoves, WalkStarts DEF Inv, Base
<1>2. ~mem[s].busy
  BY DEF Walk, Free
<1>3. pc[p] \in Walks /\ putting[p] = 0 /\ stage[p] = "clear" /\ s \in Inums /\ new \in BOOLEAN
      /\ (new => s = root) /\ (~new => cur[p] = s)
  BY <1>1 DEF WalkFrom
<1>4. \A x \in Inums : ~Has(p, x)
  BY <1>3, Sizes DEF Has, LocksDp, LocksIp, Making, Walks
<1>5. ~new => Points(p, s) /\ mem[s].ref > 0
  <2>1. ~new => Points(p, s)
    BY <1>3 DEF Points
  <2>2. QED BY <1>3, <2>1, PointsRef
<1>6. mem[s].ref > 0 \/ dino[s].nlink > 0
  BY <1>3, <1>5, Linked0
<1>7. CacheOK(Looked(s, new, TRUE)) /\ Looked(s, new, TRUE)[s].ino = Eff(dino, mem, s)
  BY <1>3, <1>5, LookedIs DEF Ino
<1>8. IsDir(s) => Block(s) # 0
  <2>1. CASE new
    <3>1. Owned(dino, mem)[root] # 0
      BY DEF Inv, Tidy, Sound, Owners
    <3>2. QED BY <1>3, <2>1, <3>1, Linked0, Sizes DEF Owned, Block
  <2>2. CASE ~new
    <3>1. Knows(p)
      BY DEF Inv, Known
    <3>2. QED BY <1>3, <2>2, <3>1, Sizes DEF Knows
  <2>3. QED BY <2>1, <2>2, <1>3
<1>9. ASSUME NEW g, g = 0 \/ (g \in Inums /\ dino[g].nlink > 0 /\ g \notin InMaking)
      PROVE  QuietPtr(p, s, new, g)
  BY <1>3, <1>5, <1>9 DEF QuietPtr
<1>10. QED BY <1>1, <1>2, <1>4, <1>6, <1>7, <1>8, <1>9 DEF WalkAt

\* It fails, and the call ends.
LEMMA WalkEndInv ==
  ASSUME Inv, NEW p \in Procs, NEW s, NEW new, WalkAt(p, s, new), NEW t,
         MoveOf(p, "idle", NoCall, 0, 0, 0, fd[p], t, s, new, TRUE, 0, "drop")
  PROVE  Inv'
<1>1. s \in Inums /\ new \in BOOLEAN /\ ~mem[s].busy /\ Base' /\ QuietPtr(p, s, new, 0)
      /\ pc[p] \in Walks
  BY DEF WalkAt, WalkFrom
<1>2. pc[p] \notin Making \cup {"w_upd"}
  BY <1>1 DEF Walks, Making
<1>3. \A x \in Inums : ~Has(p, x)
  BY DEF WalkAt
<1>4. QED BY <1>1, <1>2, <1>3, EndInv

LEMMA WalkOnInv ==
  ASSUME Inv, NEW p \in Procs, NEW s \in Inums, NEW new \in BOOLEAN, WalkAt(p, s, new), NEW t,
         NEW pl, NEW c, NEW d, NEW i, NEW g, NEW how \in {"unlock", "drop"},
         WalkGoal(p, pl, c, d, i, s, g),
         MoveOf(p, pl, call[p], c, d, i, fd[p], t, s, new, TRUE, g, how)
  PROVE  Inv'
<1>1. /\ s \in Inums /\ new \in BOOLEAN /\ ~mem[s].busy /\ Base' /\ QuietPtr(p, s, new, g)
      /\ pc[p] \in Walks /\ (new => cur[p] = 0) /\ (~new => cur[p] = s)
  BY DEF WalkAt, WalkFrom, WalkGoal
<1>2. pc[p] \notin Making \cup {"w_upd"} /\ pl \notin Making \cup {"w_upd"}
      /\ pl \notin LocksDp \cup LocksIp \cup {"w_upd"}
  BY <1>1 DEF Walks, Making, LocksDp, LocksIp, WalkGoal
<1>3. Mine(p, pl, call[p], c, d, i, fd[p], t, "clear") /\ t \in {0, s} /\ (how = "unlock" => t = 0)
  BY DEF MoveOf, StepOf, Visits
<1>4. \A x \in Inums : ~Has(p, x)
  BY DEF WalkAt
<1>5. QuietLock(p, s, t, new, TRUE, how) /\ Apart(p)'
  <2>1. PICK k, f : Mine(p, pl, k, c, d, i, f, t, "clear")
    BY <1>3
  <2>2. t \in {0, s} /\ (how = "unlock" => t = 0) /\ ~mem[s].busy
        /\ pl \notin LocksDp \cup LocksIp \cup {"w_upd"}
    BY <1>1, <1>2, <1>3
  <2>3. ASSUME NEW x \in Inums PROVE Has(p, x)' <=> t = s /\ x = s
    BY <2>1, <2>2, Sizes DEF Mine, Has
  <2>4. Apart(p)'
    BY <2>1, <2>2 DEF Mine, Apart
  <2>5. QED BY <1>4, <2>2, <2>3, <2>4, Sizes DEF QuietLock
<1>6. \A x \in Inums : Points(p, x)' => Points(p, x) \/ x = g \/ (new /\ x = s)
  BY <1>1, <1>3, Sizes DEF Mine, Points, WalkGoal
<1>7. \A x \in Inums : Pending(p, x)' => Pending(p, x)
  BY <1>1, <1>3, Sizes DEF Mine, Pending, PendIp, PendDp, Walks, WalkGoal
<1>8. QuietPlace(p, pl, s, new, g)
  BY <1>2, <1>6, <1>7 DEF QuietPlace
<1>9. Quiet(p, pl, t, s, new, TRUE, g, how)
  BY <1>1, <1>5, <1>8 DEF Quiet
<1>10. \A x \in Inums : IsDir(x)' = IsDir(x) /\ Block(x)' = Block(x)
                        /\ Eff(dino, mem, x)' = Eff(dino, mem, x)
  BY <1>1, <1>9, QuietSame
<1>11. dp'[p] = d /\ cur'[p] = c /\ ip'[p] = i /\ pc'[p] = pl /\ call'[p] = call[p]
  BY <1>3 DEF Mine
<1>12. dp'[p] # 0 => IsDir(dp[p])' /\ Block(dp[p])' # 0
  <2>1. IsDir(s) => Block(s) # 0
    BY DEF WalkAt
  <2>2. QED BY <1>1, <1>10, <1>11, <2>1 DEF WalkGoal
<1>13. cur'[p] # 0 /\ IsDir(cur[p])' => Block(cur[p])' # 0
  BY <1>10, <1>11 DEF WalkGoal
<1>14. pl \in {"l_new", "l_link", "l_bad"} \/ (pl = "walkp" /\ call[p].kind = "link") =>
         Eff(dino, mem, ip[p])'.type = "file"
  <2>1. SUFFICES ASSUME pl \in {"l_new", "l_link", "l_bad"} \/ (pl = "walkp" /\ call[p].kind = "link")
                 PROVE  Eff(dino, mem, ip[p])'.type = "file"
    OBVIOUS
  <2>2. pc[p] = "walkp" /\ call[p].kind = "link" /\ i = ip[p]
    <3>1. pl # "l_link" /\ pl \notin {"o_lock", "l_old"}
      BY <2>1 DEF WalkGoal
    <3>2. QED BY <1>1, <2>1, <3>1 DEF WalkGoal, Walks
  <2>3. Eff(dino, mem, ip[p]).type = "file"
    BY <2>2 DEF Inv, Known, Knows
  <2>4. PICK x \in Inums : x = ip[p]
    BY <2>2, <1>1, Pointed DEF Inv, Base, PhaseOf, IpSet
  <2>5. Eff(dino, mem, x)'.type = "file" /\ ip'[p] = x
    BY <1>10, <1>11, <2>2, <2>3, <2>4
  <2>6. QED BY <2>5
<1>15. Knows(p)'
  <2>1. pl \notin {"u_ip", "c_dotdot", "c_link"}
    BY DEF WalkGoal
  <2>2. QED BY <1>11, <1>12, <1>13, <1>14, <2>1 DEF Knows
<1>16. QED BY <1>1, <1>5, <1>9, <1>15, QuietInv

LEMMA WalkInv ==
  ASSUME Inv, NEW p \in Procs, Walk(p) PROVE Inv'
<1>1. PICK s, new : s = (IF cur[p] = 0 THEN root ELSE cur[p]) /\ new = (cur[p] = 0)
  OBVIOUS
<1>2. WalkAt(p, s, new) /\ WalkMove(p, s, new)
  BY <1>1, WalkAtIs
<1>3. pc[p] \in Walks /\ s \in Inums /\ new \in BOOLEAN
      /\ (pc[p] = "walkp" => call[p].kind \in {"creat", "mkdir", "unlink", "link"})
      /\ (pc[p] = "walk" => call[p].kind \in {"open", "link"})
  BY <1>2 DEF WalkAt, WalkFrom
<1>4. Ino(Looked(s, new, TRUE), s) = Eff(dino, mem, s)
  BY <1>2 DEF WalkAt, Ino
<1>5. ASSUME pc[p] = "walkp"
      PROVE  Start(p) \in {"u_lock", "l_new", "c_lock"} /\ (Start(p) = "l_new" => call[p].kind = "link")
  BY <1>3, <1>5 DEF Start
<1>6. ASSUME pc[p] = "walk" PROVE Start(p) \in {"o_lock", "l_old"}
  BY <1>3, <1>6 DEF Start
<1>7. CASE \E t : MoveOf(p, "idle", NoCall, 0, 0, 0, fd[p], t, s, new, TRUE, 0, "drop")
  BY <1>2, <1>7, WalkEndInv
<1>8. CASE /\ call[p].kind = "link" /\ pc[p] = "walkp"
           /\ \E t : MoveOf(p, "l_bad", call[p], 0, 0, ip[p], fd[p], t, s, new, TRUE, 0, "drop")
  <2>1. PICK t : MoveOf(p, "l_bad", call[p], 0, 0, ip[p], fd[p], t, s, new, TRUE, 0, "drop")
    BY <1>8
  <2>2. WalkGoal(p, "l_bad", 0, 0, ip[p], s, 0)
    BY <1>8 DEF WalkGoal
  <2>3. QED BY <1>2, <1>3, <2>1, <2>2, WalkOnInv
<1>9. CASE /\ pc[p] = "walkp" /\ Ino(Looked(s, new, TRUE), s).type = "dir"
           /\ MoveOf(p, Start(p), call[p], 0, s, ip[p], fd[p], 0, s, new, TRUE, 0, "unlock")
  <2>1. IsDir(s)
    BY <1>4, <1>9 DEF IsDir
  <2>2. PICK pl : pl = Start(p)
    OBVIOUS
  <2>3. pl \in {"u_lock", "l_new", "c_lock"} /\ (pl = "l_new" => call[p].kind = "link")
    BY <1>5, <1>9, <2>2
  <2>4. MoveOf(p, pl, call[p], 0, s, ip[p], fd[p], 0, s, new, TRUE, 0, "unlock")
    BY <1>9, <2>2
  <2>5. WalkGoal(p, pl, 0, s, ip[p], s, 0)
    BY <1>9, <2>1, <2>3 DEF WalkGoal
  <2>6. QED BY <1>2, <1>3, <2>4, <2>5, WalkOnInv
<1>10. ASSUME NEW g \in Inums, NEW t, NEW n, Finds(Looked(s, new, TRUE), s, n, g),
              \/ /\ pc[p] = "walk"
                 /\ MoveOf(p, Start(p), call[p], 0, 0, g, fd[p], t, s, new, TRUE, g, "drop")
              \/ MoveOf(p, pc[p], call[p], g, 0, ip[p], fd[p], t, s, new, TRUE, g, "drop")
       PROVE Inv'
  <2>1. PICK m : m = Looked(s, new, TRUE)
    OBVIOUS
  <2>2. CacheOK(m) /\ m[s].ino = Eff(dino, mem, s) /\ (mem[s].ref > 0 \/ dino[s].nlink > 0)
    BY <1>2, <2>1 DEF WalkAt
  <2>3. m[s].ino.type = "dir" /\ Where(m, s, n) # {} /\ g = Entry(m, s, n)
    BY <1>10, <2>1 DEF Finds, Ino
  <2>4. dino[g].nlink > 0 /\ g \notin InMaking /\ (IsDir(g) => Block(g) # 0)
    BY <1>3, <2>2, <2>3, FoundIs
  <2>5. CASE /\ pc[p] = "walk"
             /\ MoveOf(p, Start(p), call[p], 0, 0, g, fd[p], t, s, new, TRUE, g, "drop")
    <3>1. PICK pl : pl = Start(p)
      OBVIOUS
    <3>2. pl \in {"o_lock", "l_old"} /\ MoveOf(p, pl, call[p], 0, 0, g, fd[p], t, s, new, TRUE, g, "drop")
      BY <1>6, <2>5, <3>1
    <3>3. g # 0
      BY Sizes
    <3>4. WalkGoal(p, pl, 0, 0, g, s, g)
      BY <2>4, <3>2, <3>3 DEF WalkGoal
    <3>5. QED BY <1>2, <1>3, <3>2, <3>4, WalkOnInv
  <2>6. CASE MoveOf(p, pc[p], call[p], g, 0, ip[p], fd[p], t, s, new, TRUE, g, "drop")
    <3>1. PICK pl : pl = pc[p]
      OBVIOUS
    <3>2. pl \in {"walk", "walkp"} /\ MoveOf(p, pl, call[p], g, 0, ip[p], fd[p], t, s, new, TRUE, g, "drop")
      BY <1>3, <2>6, <3>1 DEF Walks
    <3>3. WalkGoal(p, pl, g, 0, ip[p], s, g)
      BY <2>4, <3>1, <3>2 DEF WalkGoal
    <3>4. QED BY <1>2, <1>3, <3>2, <3>3, WalkOnInv
  <2>7. QED BY <1>10, <2>5, <2>6
<1>11. QED BY <1>2, <1>7, <1>8, <1>9, <1>10 DEF WalkMove

-----------------------------------------------------------------------------
(* The steps that write a copy: what they keep. *)

\* What a process sees of an inode that it points to and has or gets locked.
LEMMA SeenIs ==
  ASSUME Inv, NEW p \in Procs, putting[p] = 0, NEW e \in Inums, Points(p, e),
         ~mem[e].busy \/ Has(p, e)
  PROVE  /\ mem[e].ref > 0 /\ dino[e].type # "free" /\ dino[e] \in Inode
         /\ Eff(dino, mem, e) \in Inode /\ Locked(mem, e)[e].ino = Eff(dino, mem, e)
         /\ Eff(dino, mem, e).type = dino[e].type /\ Eff(dino, mem, e).nlink = dino[e].nlink
         /\ ~Drifts(p, e) => Eff(dino, mem, e) = dino[e]
         /\ \A q \in Procs \ {p} : ~Drifts(q, e) /\ ~Has(q, e)
         /\ Has(p, e) => mem[e].ino = Eff(dino, mem, e)
         /\ Owned(dino, mem)[e] = Eff(dino, mem, e).blk
<1>1. mem[e].ref > 0
  BY PointsRef
<1>2. \A q \in Procs \ {p} : ~Has(q, e)
  BY DEF Inv, Locks
<1>3. ASSUME NEW q \in Procs \ {p} PROVE ~Drifts(q, e)
  <2>1. Drifts(q, e) => Has(q, e)
    BY DEF Drifts, Has, LocksIp
  <2>2. QED BY <1>2, <2>1
<1>4. dino[e].type # "free"
  <2>1. SUFFICES ASSUME dino[e].type = "free" PROVE FALSE
    OBVIOUS
  <2>2. PICK q \in Procs : putting[q] = e
    BY <1>1, <2>1 DEF Inv, Used
  <2>3. q # p /\ Has(q, e)
    BY <2>2, Sizes DEF Has
  <2>4. QED BY <1>2, <2>3
<1>5. dino[e] \in Inode /\ Eff(dino, mem, e) \in Inode
  BY EffType DEF Inv, Types, DiskTypes
<1>6. ~Drifts(p, e) => Eff(dino, mem, e) = dino[e]
  <2>1. SUFFICES ASSUME ~Drifts(p, e), mem[e].valid PROVE mem[e].ino = dino[e]
    BY DEF Eff
  <2>2. \A q \in Procs : ~Drifts(q, e)
    BY <1>3, <2>1
  <2>3. QED BY <1>1, <2>1, <2>2 DEF Inv, Agree
<1>7. Drifts(p, e) => Eff(dino, mem, e).type = dino[e].type /\ Eff(dino, mem, e).nlink = dino[e].nlink
  <2>1. SUFFICES ASSUME Drifts(p, e), mem[e].valid
                 PROVE  mem[e].ino.type = dino[e].type /\ mem[e].ino.nlink = dino[e].nlink
    BY DEF Eff
  <2>2. e # 0 /\ ((pc[p] = "w_upd" /\ fd[p] = e) \/ (pc[p] = "c_dot" /\ ip[p] = e))
    BY <2>1, Sizes DEF Drifts
  <2>3. NewBlock(e)
    BY <2>2 DEF Inv, Agree
  <2>4. PICK b : b = mem[e].ino.blk
    OBVIOUS
  <2>5. mem[e].ino = [dino[e] EXCEPT !.blk = b]
    BY <2>3, <2>4 DEF NewBlock
  <2>6. QED BY <1>5, <2>5 DEF Inode
<1>8. Locked(mem, e)[e].ino = Eff(dino, mem, e)
  BY <1>1, LookedIs
<1>9. Has(p, e) => mem[e].ino = Eff(dino, mem, e)
  BY HasIs
<1>10. Owned(dino, mem)[e] = Eff(dino, mem, e).blk
  BY <1>1 DEF Owned
<1>11. QED BY <1>1, <1>2, <1>3, <1>4, <1>5, <1>6, <1>7, <1>8, <1>9, <1>10

\* What is seen of each inode: only e is written.
LEMMA EditEff ==
  ASSUME Inv, Base', NEW p \in Procs, NEW e \in Inums, NEW lk \in BOOLEAN, NEW n,
         NEW s \in Inums, NEW how \in {"hold", "unlock", "drop"}, NEW t,
         Edit(p, e, lk, n, s, how, t),
         NEW x \in Inums
  PROVE  /\ Eff(dino, mem, x)' = IF x = e THEN n ELSE Eff(dino, mem, x)
         /\ mem'[x].ref > 0 => mem[x].ref > 0
         /\ x # e => dino'[x] = dino[x]
<1>0. /\ OthersSame(p) /\ EditPtr(p, e, lk, s, how) /\ EditDisk(p, e, n) /\ putting'[p] = t
      /\ (how = "drop" => DinoSet(e, n) \/ s # e)
  BY DEF Edit
<1>1. EditAt(e, lk, n, s, how, t, x)
  BY DEF Edit, Edits
<1>2. mem[x].ref \in Nat /\ mem[x].valid \in BOOLEAN /\ mem'[x].ref \in Nat /\ mem'[x].valid \in BOOLEAN
  <2>1. RefAt(p, x)
    BY RefsHold DEF Inv, Base, Refs
  <2>2. (Base => Refs)'
    BY RefsHold, PTL
  <2>3. RefAt(p, x)'
    BY <2>2 DEF Refs
  <2>4. QED BY <2>1, <2>3 DEF RefAt, Inv, Base, Types, CacheTypes, Cached
<1>3. mem[e].ref > 0 /\ (lk \/ mem[e].valid)
  BY <1>0, PointsRef, HasIs DEF EditPtr
<1>4. x # e => dino'[x] = dino[x]
  BY <1>0 DEF EditDisk, DinoSet
<1>5. mem'[x].ref = mem[x].ref \/ (mem'[x].ref = mem[x].ref - 1 /\ x = s /\ how = "drop")
  BY <1>1 DEF EditAt
<1>6. CASE x = e
  <2>1. mem'[x].valid /\ mem'[x].ino = n
    BY <1>1, <1>3, <1>6 DEF EditAt
  <2>2. CASE mem'[x].ref > 0
    BY <1>3, <1>6, <2>1, <2>2 DEF Eff
  <2>3. CASE ~(mem'[x].ref > 0)
    <3>1. DinoSet(e, n)
      BY <1>0, <1>1, <1>2, <1>3, <1>5, <1>6, <2>3 DEF EditAt
    <3>2. dino'[x] = n
      BY <1>6, <3>1 DEF DinoSet
    <3>3. QED BY <1>3, <1>6, <2>3, <3>2 DEF Eff
  <2>4. QED BY <2>2, <2>3
<1>7. CASE x # e
  <2>1. mem'[x].valid = mem[x].valid /\ mem'[x].ino = mem[x].ino /\ dino'[x] = dino[x]
    BY <1>1, <1>2, <1>4, <1>7 DEF EditAt
  <2>2. CASE mem'[x].ref > 0 <=> mem[x].ref > 0
    BY <1>7, <2>1, <2>2 DEF Eff
  <2>3. CASE ~(mem'[x].ref > 0) /\ mem[x].ref > 0
    <3>1. (Base => Refs)'
      BY RefsHold, PTL
    <3>2. ASSUME NEW q \in Procs PROVE ~Drifts(q, x)
      <4>1. CASE q = p
        BY <1>0, <1>7, <4>1 DEF EditPtr
      <4>2. CASE q # p
        <5>1. RefAt(q, x)'
          BY <3>1 DEF Refs
        <5>2. ~Points(q, x)' /\ putting'[q] # x
          BY <2>3, <5>1 DEF RefAt
        <5>3. ~Points(q, x) /\ putting[q] # x
          BY <1>0, <4>2, <5>2, SameHolds
        <5>4. QED BY <5>3 DEF Drifts, Points
      <4>3. QED BY <4>1, <4>2
    <3>3. mem[x].valid => mem[x].ino = dino[x]
      BY <2>3, <3>2 DEF Inv, Agree
    <3>4. QED BY <1>7, <2>1, <2>3, <3>3 DEF Eff
  <2>4. QED BY <1>2, <1>5, <1>7, <2>1, <2>2, <2>3
<1>8. QED BY <1>2, <1>4, <1>5, <1>6, <1>7

LEMMA EditLocks ==
  ASSUME Inv, Base', NEW p \in Procs, NEW e \in Inums, NEW lk \in BOOLEAN, NEW n,
         NEW s \in Inums, NEW how \in {"hold", "unlock", "drop"}, NEW t,
         Edit(p, e, lk, n, s, how, t), EditLock(p, e, lk, s, how, t), NEW x \in Inums
  PROVE  LockMove(p, x)
<1>1. EditAt(e, lk, n, s, how, t, x) /\ t \in {0, s} /\ (how \in {"hold", "unlock"} => t = 0)
      /\ EditPtr(p, e, lk, s, how) /\ s # 0
  BY Sizes DEF Edit, Edits
<1>2. mem[x].valid \in BOOLEAN /\ mem[x].busy \in BOOLEAN /\ mem'[x].valid \in BOOLEAN
      /\ mem'[x].busy \in BOOLEAN
  BY DEF Inv, Base, Types, CacheTypes, Cached
<1>3. (Has(p, x) => mem[x].busy /\ mem[x].valid) /\ (mem[x].busy => mem[x].valid)
  BY DEF Inv, Locks
<1>4. Has(p, x)' <=> IF x = s /\ how # "hold" THEN t = s ELSE Has(p, x) \/ (lk /\ x = e)
  BY DEF EditLock
<1>5. CASE ~(x = s /\ how # "hold")
  <2>1. mem'[x].busy = ((x = e /\ lk) \/ mem[x].busy) /\ mem'[x].valid = ((x = e /\ lk) \/ mem[x].valid)
    BY <1>1, <1>5 DEF EditAt
  <2>2. Has(p, x)' <=> Has(p, x) \/ (lk /\ x = e)
    BY <1>4, <1>5
  <2>3. CASE x = e /\ lk
    BY <1>1, <1>2, <2>1, <2>2, <2>3 DEF LockMove, EditPtr
  <2>4. CASE ~(x = e /\ lk)
    BY <1>2, <2>1, <2>2, <2>4 DEF LockMove
  <2>5. QED BY <2>3, <2>4
<1>6. CASE x = s /\ how # "hold"
  <2>1. mem'[x].busy <=> t = s
    BY <1>1, <1>2, <1>6 DEF EditAt
  <2>2. Has(p, x)' <=> t = s
    BY <1>4, <1>6
  <2>3. mem'[x].valid = ((x = e /\ lk) \/ mem[x].valid)
    BY <1>1 DEF EditAt
  <2>4. (x = e /\ lk /\ ~mem[x].busy) \/ (Has(p, x) /\ mem[x].busy /\ mem[x].valid)
    BY <1>1, <1>3, <1>6 DEF EditPtr
  <2>5. CASE x = e /\ lk /\ ~mem[x].busy
    <3>1. ~Has(p, x) /\ mem'[x].valid
      BY <1>3, <2>3, <2>5
    <3>2. CASE t = s
      BY <2>1, <2>2, <2>5, <3>1, <3>2 DEF LockMove
    <3>3. CASE t # s
      BY <1>2, <2>1, <2>2, <2>5, <3>1, <3>3 DEF LockMove
    <3>4. QED BY <3>2, <3>3
  <2>6. CASE Has(p, x) /\ mem[x].busy /\ mem[x].valid
    <3>1. CASE t = s
      <4>1. mem'[x].busy = mem[x].busy /\ (Has(p, x)' <=> Has(p, x)) /\ mem'[x].valid
        BY <1>2, <2>1, <2>2, <2>3, <2>6, <3>1
      <4>2. QED BY <4>1 DEF LockMove
    <3>2. CASE t # s
      BY <2>1, <2>2, <2>6, <3>2 DEF LockMove
    <3>3. QED BY <3>1, <3>2
  <2>7. QED BY <2>4, <2>5, <2>6
<1>7. QED BY <1>5, <1>6

LEMMA EditInv ==
  ASSUME Inv, Base', NEW p \in Procs, NEW e \in Inums, NEW lk \in BOOLEAN, NEW n,
         NEW s \in Inums, NEW how \in {"hold", "unlock", "drop"}, NEW t,
         Edit(p, e, lk, n, s, how, t), EditLock(p, e, lk, s, how, t), EditSeen(e, n),
         \A x \in Inums : Points(p, x)' => Points(p, x), ContentFrame(p),
         Apart(p)', AgreeOwn(p)', OwnMade(p)', Knows(p)', Tidy'
  PROVE  Inv'
<1>1. /\ OthersSame(p) /\ Edits(e, lk, n, s, how, t) /\ EditPtr(p, e, lk, s, how) /\ EditDisk(p, e, n)
      /\ putting'[p] = t /\ stage'[p] = "clear" /\ (how = "drop" => DinoSet(e, n) \/ s # e)
  BY DEF Edit
<1>2. \A x \in Inums : /\ Eff(dino, mem, x)' = IF x = e THEN n ELSE Eff(dino, mem, x)
                       /\ mem'[x].ref > 0 => mem[x].ref > 0
                       /\ x # e => dino'[x] = dino[x]
  BY EditEff
<1>3. putting[p] = 0 /\ Points(p, e) /\ (lk => ~mem[e].busy) /\ (~lk => Has(p, e))
  BY <1>1 DEF EditPtr
<1>4. dino[e].type # "free" /\ Eff(dino, mem, e).type = dino[e].type /\ mem[e].ref > 0
  BY <1>3, SeenIs
<1>5. t # 0 => t = s /\ mem'[s].ref = 1 /\ mem'[s].valid /\ mem'[s].ino.nlink = 0
  BY <1>1 DEF Edits
<1>6. ASSUME NEW x \in Inums PROVE FrameAt(p, x)
  <2>1. EditAt(e, lk, n, s, how, t, x) /\ x # 0
    BY <1>1, Sizes DEF Edits
  <2>2. EffKept(x)
    BY <1>2 DEF EffKept, EditSeen
  <2>3. x # e => mem'[x].ino = mem[x].ino /\ dino'[x] = dino[x]
    BY <1>2, <2>1 DEF EditAt
  <2>4. mem[x].busy => Has(p, x) \/ x # e
    BY <1>3
  <2>5. putting'[p] = x => mem'[x].ref = 1
    BY <1>1, <1>5, <2>1
  <2>6. Maker(p, x) => x = e /\ lk
    BY <1>1 DEF Maker, EditPtr
  <2>7. QED BY <1>3, <2>2, <2>3, <2>4, <2>5, <2>6 DEF FrameAt
<1>7. Frame(p)
  BY <1>6 DEF Frame
<1>8. ASSUME NEW x \in Inums PROVE Move(p, x)
  <2>1. EditAt(e, lk, n, s, how, t, x) /\ x # 0
    BY <1>1, Sizes DEF Edits
  <2>2. LockMove(p, x)
    BY EditLocks
  <2>3. CASE x # e
    <3>1. mem'[x].ino = mem[x].ino /\ dino'[x] = dino[x] /\ ~Drifts(p, x)
          /\ mem'[x].valid = mem[x].valid /\ (mem'[x].ref > 0 => mem[x].ref > 0)
      <4>1. mem[x].valid \in BOOLEAN
        BY DEF Inv, Types, CacheTypes, Cached
      <4>2. QED BY <1>1, <1>2, <2>1, <2>3, <4>1 DEF EditAt, EditPtr
    <3>2. AgreeMove(p, x)
      BY <3>1 DEF AgreeMove
    <3>3. UsedMove(p, x)
      BY <1>3, <2>1, <3>1 DEF UsedMove
    <3>4. QED BY <2>2, <3>2, <3>3 DEF Move
  <2>4. CASE x = e
    <3>1. mem'[x].ino = n
      BY <2>1, <2>4 DEF EditAt
    <3>2. dino'[x] = n \/ dino'[x] = dino[x]
      BY <1>1, <2>4 DEF EditDisk, DinoSet
    <3>3. dino'[x].type # "free"
      BY <1>4, <2>4, <3>2 DEF EditSeen
    <3>4. UsedMove(p, x)
      BY <3>3 DEF UsedMove
    <3>5. dino'[x] = n \/ Drifts(p, x)' \/ (dino'[x] = dino[x] /\ n = Eff(dino, mem, e) /\ ~Drifts(p, e))
      BY <1>1, <2>4 DEF EditDisk, DinoSet
    <3>6. AgreeMove(p, x)
      <4>1. CASE dino'[x] = n \/ Drifts(p, x)'
        BY <3>1, <4>1 DEF AgreeMove
      <4>2. CASE dino'[x] = dino[x] /\ n = Eff(dino, mem, e) /\ ~Drifts(p, e)
        <5>1. n = dino[e]
          BY <1>3, <4>2, SeenIs
        <5>2. QED BY <2>4, <3>1, <4>2, <5>1 DEF AgreeMove
      <4>3. QED BY <3>5, <4>1, <4>2
    <3>7. QED BY <2>2, <3>4, <3>6 DEF Move
  <2>5. QED BY <2>3, <2>4
<1>9. OwnPut(p)'
  BY <1>1, <1>5 DEF OwnPut, PutStart
<1>10. Own(p)'
  BY <1>9 DEF Own
<1>11. QED BY <1>1, <1>7, <1>8, <1>10, InvFollows

-----------------------------------------------------------------------------
(* The steps that write a copy: the tree. *)

\* Inodes without links lose their blocks, and less is pending.
LEMMA OwnedLess ==
  ASSUME NEW N, NEW O, NEW D, NEW C, NEW B, NEW P, NEW F, Picture(N, O, D, C, B, P, F),
         NEW O2, NEW P2, NEW F2, Picture(N, O2, D, C, B, P2, F2), Sound(N, O, D, C, B, P, F),
         \A x \in Inums : O2[x] = O[x] \/ (O2[x] = 0 /\ N[x] <= 0),
         \A x \in Inums : P2[x] \subseteq P[x], F2 \subseteq F
  PROVE  Sound(N, O2, D, C, B, P2, F2)
<1>1. Owners(O, D, C, B) /\ Counted(N, O, D, C, P)
  BY DEF Sound
<1>2. N[root] > 0 /\ N \in [Inums -> Int]
  BY <1>1, NamedCounted DEF Picture
<1>3. Owners(O2, D, C, B)
  <2>1. \A x \in Inums : O2[x] # 0 => O2[x] = O[x]
    OBVIOUS
  <2>2. O2[root] = O[root]
    BY <1>2, Sizes
  <2>3. \A i \in Inums : O2[i] # 0 => O2[i] \in B
    BY <1>1, <2>1 DEF Owners
  <2>4. ASSUME NEW i \in Inums, NEW j \in Inums, i # j, O2[i] # 0 PROVE O2[i] # O2[j]
    <3>1. O[i] # 0 /\ O2[i] = O[i] /\ O[i] # O[j]
      BY <1>1, <2>1, <2>4 DEF Owners
    <3>2. O2[j] = 0 \/ O2[j] = O[j]
      OBVIOUS
    <3>3. QED BY <2>4, <3>1, <3>2
  <2>5. QED BY <1>1, <2>2, <2>3, <2>4 DEF Owners
<1>4. \A d \in Inums, s \in 1..Slots :
        Named(O2, D, C, d, s) # 0 => Named(O2, D, C, d, s) = Named(O, D, C, d, s)
  BY DEF Named
<1>5. \A d \in Inums, s \in 1..Slots : LET c == Named(O, D, C, d, s) IN
        c # 0 /\ c \in D /\ O[c] # 0 => O2[c] # 0 /\ C[O2[c]].up = C[O[c]].up
  <2>1. SUFFICES ASSUME NEW d \in Inums, NEW s \in 1..Slots, NEW c, c = Named(O, D, C, d, s),
                        c # 0, O[c] # 0
                 PROVE  O2[c] = O[c]
    OBVIOUS
  <2>2. c \in Inums /\ N[c] > 0
    BY <1>1, <2>1, NamedCounted
  <2>3. QED BY <1>2, <2>2
<1>6. /\ \A i \in Inums : N[i] > 0 /\ i \in D => i \in D
      /\ \A i \in F2 : i \in F
  OBVIOUS
<1>7. QED BY <1>3, <1>4, <1>5, <1>6, Fewer

\* What is pending and being made after the step of p.
LEMMA PendFewer ==
  ASSUME NEW p \in Procs, OthersSame(p), NEW e, Fewers(p, e),
         \A x \in Inums : Makes(p, x)' => Makes(p, x)
  PROVE  /\ \A x \in Inums \ {e} : Pend'[x] \subseteq Pend[x]
         /\ e \in Inums => Pend'[e] \subseteq Pend[e] \cup {p}
         /\ e \in Inums /\ (Pending(p, e)' => Pending(p, e)) => Pend'[e] \subseteq Pend[e]
         /\ e \in Inums /\ ~Pending(p, e)' => Pend'[e] \subseteq Pend[e] \ {p}
         /\ InMaking' \subseteq InMaking
<1>1. ASSUME NEW x \in Inums, NEW q \in Procs \ {p} PROVE Pending(q, x)' <=> Pending(q, x)
  BY OthersPend
<1>2. \A x \in Inums : /\ Pend[x] = {q \in Procs : Pending(q, x)}
                       /\ Pend'[x] = {q \in Procs : Pending(q, x)'}
  BY PendIs
<1>3. ASSUME NEW x \in Inums \ {e} PROVE Pend'[x] \subseteq Pend[x]
  BY <1>1, <1>2 DEF Fewers
<1>4. ASSUME e \in Inums
      PROVE  /\ Pend'[e] \subseteq Pend[e] \cup {p}
             /\ (Pending(p, e)' => Pending(p, e)) => Pend'[e] \subseteq Pend[e]
             /\ ~Pending(p, e)' => Pend'[e] \subseteq Pend[e] \ {p}
  BY <1>1, <1>2, <1>4
<1>5. InMaking' \subseteq InMaking
  <2>1. ASSUME NEW x \in Inums, NEW q \in Procs, Makes(q, x)' PROVE Makes(q, x)
    <3>1. CASE q = p
      BY <2>1, <3>1
    <3>2. CASE q # p
      BY <2>1, <3>2, OthersPend
    <3>3. QED BY <3>1, <3>2
  <2>2. InMaking' \subseteq Inums
    BY DEF InMaking
  <2>3. QED BY <2>1, <2>2, PendIs
<1>6. QED BY <1>3, <1>4, <1>5

LEMMA EditTidy ==
  ASSUME Inv, Base', NEW p \in Procs, NEW e \in Inums, NEW lk \in BOOLEAN, NEW n \in Inode,
         NEW s \in Inums, NEW how \in {"hold", "unlock", "drop"}, NEW t,
         Edit(p, e, lk, n, s, how, t), DinoSet(e, n), UNCHANGED <<bitmap, content>>,
         n.type = Eff(dino, mem, e).type, n.blk = Eff(dino, mem, e).blk,
         CountMove(p, e, n), Fewers(p, e), \A x \in Inums : Makes(p, x)' => Makes(p, x)
  PROVE  Tidy'
<1>1. OthersSame(p) /\ EditPtr(p, e, lk, s, how) /\ bitmap' = bitmap /\ content' = content
  BY DEF Edit
<1>2. putting[p] = 0 /\ Points(p, e) /\ (~mem[e].busy \/ Has(p, e))
  BY <1>1 DEF EditPtr
<1>3. dino[e].type # "free" /\ Eff(dino, mem, e).type = dino[e].type
      /\ Owned(dino, mem)[e] = Eff(dino, mem, e).blk
  BY <1>2, SeenIs
<1>4. \A x \in Inums : /\ Eff(dino, mem, x)' = IF x = e THEN n ELSE Eff(dino, mem, x)
                       /\ mem'[x].ref > 0 => mem[x].ref > 0
                       /\ x # e => dino'[x] = dino[x]
  BY EditEff
<1>5. dino'[e] = n
  BY DEF DinoSet
<1>6. Pic /\ Sound(Counts(dino), Owned(dino, mem), DirsOf(dino, mem), content, bitmap, Pend, InMaking)
  BY PicHolds DEF Inv, Tidy
<1>7. (Types => Pic)'
  BY PicHolds, PTL
<1>8. Pic'
  BY <1>7 DEF Base
<1>9. PICK N, O, D, P, F : /\ N = Counts(dino) /\ O = Owned(dino, mem) /\ D = DirsOf(dino, mem)
                           /\ P = Pend /\ F = InMaking
  OBVIOUS
<1>10. PICK N2, O2, D2, P2, F2 : /\ N2 = Counts(dino)' /\ O2 = Owned(dino, mem)'
                                 /\ D2 = DirsOf(dino, mem)' /\ P2 = Pend' /\ F2 = InMaking'
  OBVIOUS
<1>11. Picture(N, O, D, content, bitmap, P, F) /\ Sound(N, O, D, content, bitmap, P, F)
  BY <1>6, <1>9 DEF Pic
<1>12. Picture(N2, O2, D2, content, bitmap, P2, F2)
  BY <1>1, <1>8, <1>10 DEF Pic
<1>13. D2 = D
  BY <1>4, <1>9, <1>10 DEF DirsOf
<1>14. ASSUME NEW x \in Inums
       PROVE  N[x] = dino[x].nlink /\ N2[x] = dino'[x].nlink /\ N[x] \in Int /\ N2[x] \in Int
  BY <1>9, <1>10, <1>11, <1>12 DEF Counts, Picture
<1>15. /\ \A x \in Inums \ {e} : P2[x] \subseteq P[x]
       /\ P2[e] \subseteq P[e] \cup {p}
       /\ (Pending(p, e)' => Pending(p, e)) => P2[e] \subseteq P[e]
       /\ ~Pending(p, e)' => P2[e] \subseteq P[e] \ {p}
       /\ F2 \subseteq F /\ (Pending(p, e) => p \in P[e])
  BY <1>1, <1>9, <1>10, PendFewer, PendIs
<1>16. ASSUME NEW x \in Inums PROVE O2[x] = O[x] \/ (O2[x] = 0 /\ N2[x] <= 0)
  <2>1. O2[x] = IF dino'[x].nlink > 0 \/ mem'[x].ref > 0 THEN Eff(dino, mem, x)'.blk ELSE 0
    BY <1>10 DEF Owned
  <2>2. O[x] = IF dino[x].nlink > 0 \/ mem[x].ref > 0 THEN Eff(dino, mem, x).blk ELSE 0
    BY <1>9 DEF Owned
  <2>3. CASE x = e
    <3>1. O[x] = n.blk /\ Eff(dino, mem, x)'.blk = n.blk
      BY <1>3, <1>4, <1>9, <2>3
    <3>2. QED BY <1>14, <2>1, <2>3, <3>1
  <2>4. CASE x # e
    BY <1>4, <1>14, <2>1, <2>2, <2>4
  <2>5. QED BY <2>3, <2>4
<1>17. Picture(N2, O, D, content, bitmap, P2, F2) /\ Picture(N2, O2, D, content, bitmap, P2, F2)
  BY <1>11, <1>12, <1>13 DEF Picture
<1>18. \A j \in Inums \ {e} : N2[j] = N[j]
  BY <1>4, <1>14
<1>19. Sound(N2, O, D, content, bitmap, P2, F2)
  <2>1. CASE n.nlink = dino[e].nlink /\ (Pending(p, e)' => Pending(p, e))
    <3>1. N2 = N
      <4>1. \A j \in Inums : N2[j] = N[j]
        BY <1>5, <1>14, <1>18, <2>1
      <4>2. QED BY <4>1, <1>11, <1>12 DEF Picture
    <3>2. \A x \in Inums : P2[x] \subseteq P[x]
      BY <1>15, <2>1
    <3>3. QED BY <1>11, <1>15, <1>17, <3>1, <3>2, OwnedLess
  <2>2. CASE n.nlink = dino[e].nlink + 1
    <3>1. N2[e] = N[e] + 1
      BY <1>5, <1>14, <2>2
    <3>2. QED BY <1>11, <1>15, <1>17, <1>18, <3>1, Recounted
  <2>3. CASE n.nlink = dino[e].nlink - 1 /\ Pending(p, e) /\ ~Pending(p, e)'
    <3>1. N2[e] = N[e] - 1
      BY <1>5, <1>14, <2>3
    <3>2. QED BY <1>11, <1>15, <1>17, <1>18, <2>3, <3>1, Recounted
  <2>4. QED BY <2>1, <2>2, <2>3 DEF CountMove
<1>20. Sound(N2, O2, D, content, bitmap, P2, F2)
  BY <1>15, <1>16, <1>17, <1>19, OwnedLess
<1>21. \A i \in Inums : dino'[i].type = "free" => dino'[i].nlink = 0
  BY <1>3, <1>4, <1>5 DEF Inv, Tidy
<1>22. QED BY <1>1, <1>10, <1>13, <1>20, <1>21 DEF Tidy

LEMMA KeepsSame ==
  ASSUME Inv, Base', NEW p \in Procs, NEW pl, NEW k, NEW c, NEW d, NEW i, NEW f, NEW t,
         NEW e \in Inums, NEW lk \in BOOLEAN, NEW n \in Inode, NEW s \in Inums,
         NEW how \in {"hold", "unlock", "drop"}, EditOf(p, pl, k, c, d, i, f, t, e, lk, n, s, how),
         Keeps(p, e, lk, n, s, how, t)
  PROVE  /\ Edit(p, e, lk, n, s, how, t)
         /\ \A x \in Inums : IsDir(x)' = IsDir(x) /\ Block(x)' = Block(x)
                             /\ Eff(dino, mem, x)'.type = Eff(dino, mem, x).type
<1>1. Edit(p, e, lk, n, s, how, t)
  BY DEF EditOf, Mine, Keeps, Edit, EditDisk
<1>2. ASSUME NEW x \in Inums PROVE Eff(dino, mem, x)' = IF x = e THEN n ELSE Eff(dino, mem, x)
  BY <1>1, EditEff
<1>3. n.type = Eff(dino, mem, e).type /\ n.blk = Eff(dino, mem, e).blk
  BY DEF Keeps
<1>4. QED BY <1>1, <1>2, <1>3 DEF IsDir, Block

LEMMA KeepsInv ==
  ASSUME Inv, Base', NEW p \in Procs, NEW pl, NEW k, NEW c, NEW d, NEW i, NEW f, NEW t,
         NEW e \in Inums, NEW lk \in BOOLEAN, NEW n \in Inode, NEW s \in Inums,
         NEW how \in {"hold", "unlock", "drop"}, EditOf(p, pl, k, c, d, i, f, t, e, lk, n, s, how),
         Keeps(p, e, lk, n, s, how, t), Apart(p)', AgreeOwn(p)', OwnMade(p)', Knows(p)'
  PROVE  Inv'
<1>1. Edit(p, e, lk, n, s, how, t)
  BY KeepsSame
<1>2. Tidy'
  BY <1>1, EditTidy DEF Keeps
<1>3. EditSeen(e, n) /\ ContentFrame(p) /\ EditLock(p, e, lk, s, how, t)
      /\ \A x \in Inums : Points(p, x)' => Points(p, x)
  BY DEF Keeps, EditSeen, ContentFrame
<1>4. QED BY <1>1, <1>2, <1>3, EditInv

LEMMA MadeFollows ==
  ASSUME Inv, NEW p \in Procs, OthersSame(p), NEW i \in Inums, MadeBy(p, i), putting[p] = 0,
         NEW pl, NEW d, NEW f,
         NEW st, Mine(p, pl, call[p], 0, d, i, f, 0, st), d = dp[p], f = fd[p],
         pl \in Making \ {"c_lockip"}, pc[p] = "c_lockip" => ~mem[i].busy,
         dino'[i].type = dino[i].type, pl \in {"c_parent", "c_balloc"} => dino'[i].blk = 0
  PROVE  MadeBy(p, i)'
<1>1. ASSUME NEW q \in Procs PROVE putting'[q] # i /\ (Points(q, i)' => q = p)
  <2>1. CASE q = p
    BY <2>1, Sizes DEF Mine
  <2>2. CASE q # p
    <3>1. putting'[q] = putting[q] /\ (Points(q, i)' <=> Points(q, i))
      BY <2>2, SameHolds
    <3>2. ~Points(q, i)
      BY <2>2 DEF MadeBy
    <3>3. putting[q] # i
      <4>1. SUFFICES ASSUME putting[q] = i PROVE FALSE
        OBVIOUS
      <4>2. pc[p] = "c_lockip"
        BY <4>1 DEF MadeBy
      <4>3. Has(q, i)
        BY <4>1 DEF Has
      <4>4. QED BY <4>2, <4>3 DEF Inv, Locks
    <3>4. QED BY <2>2, <3>1, <3>2, <3>3
  <2>3. QED BY <2>1, <2>2
<1>2. cur'[p] # i /\ dp'[p] # i /\ fd'[p] # i /\ call'[p] = call[p] /\ pc'[p] = pl
  BY Sizes DEF MadeBy, Mine
<1>3. QED BY <1>1, <1>2 DEF MadeBy, Making

LEMMA WriteUpdateInv ==
  ASSUME Inv, NEW p \in Procs, WriteUpdate(p) PROVE Inv'
<1>1. /\ Base' /\ pc[p] = "w_upd" /\ putting[p] = 0 /\ fd[p] \in Inums
      /\ cur[p] = 0 /\ dp[p] = 0 /\ ip[p] = 0 /\ UNCHANGED <<bitmap, content>>
  BY WriteUpdateEdits DEF Inv, Base
<1>2. PICK n \in Inode :
        /\ n = [mem[fd[p]].ino EXCEPT !.size = 1] /\ DinoSet(fd[p], n)
        /\ EditOf(p, "idle", call[p], 0, 0, 0, fd[p], 0, fd[p], FALSE, n, fd[p], "unlock")
  BY WriteUpdateEdits DEF Inv, Base
<1>3. PICK e \in Inums : e = fd[p]
  BY <1>1
<1>4. Mine(p, "idle", call[p], 0, 0, 0, e, 0, "clear")
  BY <1>2, <1>3 DEF EditOf
<1>5. Has(p, e) /\ Points(p, e) /\ \A x \in Inums : Has(p, x) <=> x = e
  BY <1>1, <1>3, Sizes DEF Has, Points, LocksDp, LocksIp, Making
<1>6. mem[e].ino = Eff(dino, mem, e) /\ Eff(dino, mem, e) \in Inode
      /\ Eff(dino, mem, e).nlink = dino[e].nlink
  BY <1>1, <1>5, SeenIs
<1>7. n.type = Eff(dino, mem, e).type /\ n.blk = Eff(dino, mem, e).blk /\ n.nlink = dino[e].nlink
  BY <1>2, <1>3, <1>6 DEF Inode
<1>8. \A x \in Inums : ~Pending(p, x)' /\ ~Makes(p, x)' /\ ~Has(p, x)'
  BY <1>4, Sizes DEF Mine, Pending, PendIp, PendDp, Makes, Making, Has, LocksDp, LocksIp
<1>9. CountMove(p, e, n) /\ Fewers(p, e)
  BY <1>3, <1>7, <1>8 DEF CountMove, Fewers
<1>10. \A x \in Inums : Drifts(p, x) => x = e
  BY <1>1, <1>3, Sizes DEF Drifts
<1>11. EditPtr(p, e, FALSE, e, "unlock")
  BY <1>1, <1>5, <1>10 DEF EditPtr
<1>12. EditLock(p, e, FALSE, e, "unlock", 0)
  BY <1>5, <1>8, Sizes DEF EditLock
<1>13. \A x \in Inums : Points(p, x)' => Points(p, x)
  BY <1>3, <1>4, Sizes DEF Mine, Points
<1>14. Keeps(p, e, FALSE, n, e, "unlock", 0)
  BY <1>1, <1>2, <1>3, <1>7, <1>8, <1>9, <1>11, <1>12, <1>13 DEF Keeps
<1>15. Apart(p)' /\ AgreeOwn(p)' /\ OwnMade(p)' /\ Knows(p)'
  BY <1>4 DEF Mine, Apart, LocksDp, LocksIp, Making, AgreeOwn, OwnMade, Knows
<1>16. QED BY <1>1, <1>2, <1>3, <1>14, <1>15, KeepsInv

\* A visit of an inode that is locked, as a step that writes its copy as it is.
LEMMA VisitEdits ==
  ASSUME Inv, NEW p \in Procs, NEW pl, NEW k, NEW c, NEW d, NEW i, NEW f, NEW t, NEW s \in Inums,
         NEW how \in {"hold", "drop"}, Has(p, s),
         StepOf(p, pl, k, c, d, i, f, t, s, FALSE, FALSE, 0, how)
  PROVE  EditOf(p, pl, k, c, d, i, f, t, s, FALSE, mem[s].ino, s, how)
<1>1. /\ CacheTypes' /\ t \in {0, s} /\ (how \in {"hold", "unlock"} => t = 0)
      /\ t # 0 => mem'[s].ref = 1 /\ mem'[s].valid /\ mem'[s].ino.nlink = 0
      /\ \A x \in Inums : VisitAt(s, FALSE, FALSE, 0, how, t, x)
  BY DEF StepOf, Visits
<1>2. ASSUME NEW x \in Inums PROVE EditAt(s, FALSE, mem[s].ino, s, how, t, x)
  <2>1. VisitAt(s, FALSE, FALSE, 0, how, t, x) /\ x # 0
    BY <1>1, Sizes
  <2>2. mem[x].ref \in Int /\ mem[x].busy \in BOOLEAN /\ mem[x].valid \in BOOLEAN
    BY DEF Inv, Types, CacheTypes, Cached
  <2>3. mem'[x].ref = IF x = s /\ how = "drop" /\ t = 0 THEN mem[x].ref - 1 ELSE mem[x].ref
    <3>1. PICK a, b : a = One(x = s /\ FALSE) + Hit(0, x) /\ b = One(x = s /\ how \in {"drop", "put"} /\ t = 0)
      OBVIOUS
    <3>2. a = 0 /\ b = IF x = s /\ how = "drop" /\ t = 0 THEN 1 ELSE 0
      BY <2>1, <3>1 DEF One, Hit
    <3>3. mem'[x].ref = (mem[x].ref + One(x = s /\ FALSE) + Hit(0, x)) - b
      BY <2>1, <3>1 DEF VisitAt
    <3>4. One(x = s /\ FALSE) = 0 /\ Hit(0, x) = 0
      BY <2>1 DEF One, Hit
    <3>5. mem'[x].ref = mem[x].ref - b
      BY <2>2, <3>3, <3>4
    <3>6. CASE x = s /\ how = "drop" /\ t = 0
      BY <3>2, <3>5, <3>6
    <3>7. CASE ~(x = s /\ how = "drop" /\ t = 0)
      <4>1. b = 0
        BY <3>2, <3>7
      <4>2. QED BY <2>2, <3>5, <3>7, <4>1
    <3>8. QED BY <3>6, <3>7
  <2>4. mem'[x].valid = mem[x].valid
    <3>1. s # 0
      BY Sizes
    <3>2. QED BY <2>1, <2>2, <3>1 DEF VisitAt
  <2>5. mem'[x].ino = IF x = s THEN mem[s].ino ELSE mem[x].ino
    BY <2>1 DEF VisitAt
  <2>6. /\ x # s => mem'[x].busy = mem[x].busy
        /\ x = s /\ how = "hold" => mem'[x].busy = mem[x].busy
        /\ x = s /\ how = "drop" => mem'[x].busy = (t = s)
    BY <2>1, <2>2 DEF VisitAt
  <2>7. QED BY <2>2, <2>3, <2>4, <2>5, <2>6 DEF EditAt
<1>3. QED BY <1>1, <1>2 DEF StepOf, EditOf, Edits

\* What a call that makes an inode sees of it and of the directory.
LEMMA MakerSees ==
  ASSUME Inv, NEW p \in Procs, putting[p] = 0, pc[p] \in Making, MakingAt(p)
  PROVE  /\ ip[p] \in Inums /\ dp[p] \in Inums /\ ip[p] # dp[p] /\ MadeBy(p, ip[p])
         /\ Points(p, ip[p]) /\ Points(p, dp[p]) /\ Has(p, dp[p])
         /\ IsDir(dp[p]) /\ Block(dp[p]) # 0
         /\ \A x \in Inums : Has(p, x) <=> x = dp[p] \/ (pc[p] # "c_lockip" /\ x = ip[p])
<1>1. ip[p] \in Inums /\ dp[p] \in Inums /\ MadeBy(p, ip[p])
  BY DEF MakingAt, Inv, Fresh, UsesIp
<1>2. ip[p] # dp[p]
  BY <1>1 DEF MadeBy
<1>3. \A x \in Inums : Has(p, x) <=> x = dp[p] \/ (pc[p] # "c_lockip" /\ x = ip[p])
  BY Sizes DEF Has, LocksDp, LocksIp, Making
<1>4. IsDir(dp[p]) /\ Block(dp[p]) # 0
  BY <1>1, Sizes DEF Inv, Known, Knows
<1>5. QED BY <1>1, <1>2, <1>3, <1>4 DEF Points

LEMMA CreateLink1Inv ==
  ASSUME Inv, NEW p \in Procs, CreateLink1(p) PROVE Inv'
<1>1. /\ Base' /\ pc[p] = "c_lockip" /\ putting[p] = 0 /\ MakingAt(p) /\ ip[p] \in Inums
      /\ ~mem[ip[p]].busy /\ UNCHANGED <<bitmap, content>>
  BY CreateLink1Edits DEF Inv, Base
<1>2. PICK n, pl :
        /\ n \in Inode
        /\ n = [Locked(mem, ip[p])[ip[p]].ino EXCEPT !.nlink = 1] /\ DinoSet(ip[p], n)
        /\ pl = (IF call[p].kind = "mkdir" THEN "c_parent" ELSE "c_link")
        /\ EditOf(p, pl, call[p], 0, dp[p], ip[p], fd[p], 0, ip[p], TRUE, n, ip[p], "hold")
  BY CreateLink1Edits DEF Inv, Base
<1>3. PICK e, d : e = ip[p] /\ d = dp[p]
  OBVIOUS
<1>4. /\ e \in Inums /\ d \in Inums /\ e # d /\ MadeBy(p, e) /\ Points(p, e) /\ cur[p] = 0
      /\ IsDir(d) /\ Block(d) # 0 /\ \A x \in Inums : Has(p, x) <=> x = d
  BY <1>1, <1>3, MakerSees DEF Making, MakingAt
<1>5. Mine(p, pl, call[p], 0, d, e, fd[p], 0, "clear") /\ OthersSame(p)
  BY <1>2, <1>3 DEF EditOf
<1>6. pl \in {"c_parent", "c_link"} /\ (pl = "c_link" => call[p].kind # "mkdir")
  BY <1>2
<1>7. \A x \in Inums : ~Drifts(p, x)
  BY <1>1, Sizes DEF Drifts
<1>8. Locked(mem, e)[e].ino = Eff(dino, mem, e) /\ Eff(dino, mem, e) = dino[e] /\ dino[e] \in Inode
  BY <1>1, <1>3, <1>4, <1>7, SeenIs
<1>9. dino[e].nlink = 0 /\ dino[e].blk = 0
  BY <1>1, <1>4 DEF MadeBy
<1>10. n.type = dino[e].type /\ n.blk = 0 /\ n.nlink = dino[e].nlink + 1 /\ dino'[e] = n
  BY <1>2, <1>3, <1>8, <1>9, <1>4 DEF Inode, DinoSet
<1>11. \A x \in Inums : (Pending(p, x)' => x = e) /\ (Makes(p, x)' => Makes(p, x))
                        /\ (Has(p, x)' <=> x = d \/ x = e) /\ (Points(p, x)' => Points(p, x))
  BY <1>1, <1>3, <1>4, <1>5, <1>6, Sizes
  DEF Mine, Pending, PendIp, PendDp, Makes, Making, Has, LocksDp, LocksIp, Points
<1>12. CountMove(p, e, n) /\ Fewers(p, e)
  <2>1. Fewers(p, e)
    BY <1>11 DEF Fewers
  <2>2. QED BY <1>10, <2>1 DEF CountMove
<1>13. EditPtr(p, e, TRUE, e, "hold") /\ EditLock(p, e, TRUE, e, "hold", 0)
  BY <1>1, <1>3, <1>4, <1>7, <1>11 DEF EditPtr, EditLock
<1>14. Keeps(p, e, TRUE, n, e, "hold", 0)
  BY <1>1, <1>2, <1>3, <1>8, <1>9, <1>10, <1>11, <1>12, <1>13 DEF Keeps
<1>15. IsDir(d)' /\ Block(d)' # 0
  BY <1>1, <1>2, <1>3, <1>4, <1>14, KeepsSame
<1>16. Apart(p)'
  BY <1>4, <1>5 DEF Mine, Apart
<1>17. AgreeOwn(p)'
  BY <1>5, <1>6 DEF Mine, AgreeOwn
<1>18. MadeBy(p, e)'
  <2>1. pl \in Making \ {"c_lockip"}
    BY <1>6 DEF Making
  <2>2. QED BY <1>1, <1>3, <1>4, <1>5, <1>10, <2>1, MadeFollows
<1>19. OwnMade(p)'
  BY <1>5, <1>18 DEF Mine, OwnMade, MadeBy
<1>20. Knows(p)'
  BY <1>5, <1>6, <1>15 DEF Mine, Knows
<1>21. QED BY <1>1, <1>2, <1>3, <1>4, <1>14, <1>16, <1>17, <1>19, <1>20, KeepsInv

LEMMA CreateParentInv ==
  ASSUME Inv, NEW p \in Procs, CreateParent(p) PROVE Inv'
<1>1. /\ Base' /\ pc[p] = "c_parent" /\ putting[p] = 0 /\ MakingAt(p) /\ ip[p] \in Inums
      /\ UNCHANGED <<bitmap, content>>
  BY CreateParentEdits DEF Inv, Base
<1>2. PICK n \in Inode :
        /\ n = [mem[dp[p]].ino EXCEPT !.nlink = mem[dp[p]].ino.nlink + 1] /\ DinoSet(dp[p], n)
        /\ EditOf(p, "c_balloc", call[p], 0, dp[p], ip[p], fd[p], 0, dp[p], FALSE, n, dp[p], "hold")
  BY CreateParentEdits DEF Inv, Base
<1>3. PICK i, e : i = ip[p] /\ e = dp[p]
  OBVIOUS
<1>4. /\ i \in Inums /\ e \in Inums /\ i # e /\ MadeBy(p, i) /\ Points(p, e) /\ cur[p] = 0
      /\ IsDir(e) /\ Block(e) # 0 /\ \A x \in Inums : Has(p, x) <=> x = e \/ x = i
  BY <1>1, <1>3, MakerSees DEF Making, MakingAt
<1>5. Mine(p, "c_balloc", call[p], 0, e, i, fd[p], 0, "clear") /\ OthersSame(p)
  BY <1>2, <1>3 DEF EditOf
<1>6. \A x \in Inums : ~Drifts(p, x)
  BY <1>1, Sizes DEF Drifts
<1>7. mem[e].ino = Eff(dino, mem, e) /\ Eff(dino, mem, e) = dino[e] /\ dino[e] \in Inode
  BY <1>1, <1>3, <1>4, <1>6, SeenIs
<1>8. n.type = dino[e].type /\ n.blk = dino[e].blk /\ n.nlink = dino[e].nlink + 1
      /\ dino'[i] = dino[i]
  BY <1>2, <1>3, <1>4, <1>7 DEF Inode, DinoSet
<1>9. \A x \in Inums : /\ x # e /\ Pending(p, x)' => Pending(p, x)
                       /\ (Makes(p, x)' => Makes(p, x))
                       /\ (Has(p, x)' <=> Has(p, x)) /\ (Points(p, x)' => Points(p, x))
  BY <1>1, <1>3, <1>4, <1>5, Sizes
  DEF Mine, Pending, PendIp, PendDp, Makes, Making, Has, LocksDp, LocksIp, Points
<1>10. CountMove(p, e, n) /\ Fewers(p, e)
  BY <1>8, <1>9 DEF CountMove, Fewers
<1>11. EditPtr(p, e, FALSE, e, "hold") /\ EditLock(p, e, FALSE, e, "hold", 0)
  BY <1>1, <1>4, <1>6, <1>9 DEF EditPtr, EditLock
<1>12. Keeps(p, e, FALSE, n, e, "hold", 0)
  BY <1>1, <1>2, <1>3, <1>7, <1>8, <1>9, <1>10, <1>11 DEF Keeps
<1>13. IsDir(e)' /\ Block(e)' # 0
  BY <1>1, <1>2, <1>3, <1>4, <1>12, KeepsSame
<1>14. Apart(p)' /\ AgreeOwn(p)'
  BY <1>4, <1>5 DEF Mine, Apart, AgreeOwn
<1>15. MadeBy(p, i)'
  <2>1. "c_balloc" \in Making \ {"c_lockip"} /\ dino[i].blk = 0
    BY <1>1, <1>4 DEF Making, MadeBy
  <2>2. QED BY <1>1, <1>3, <1>4, <1>5, <1>8, <2>1, MadeFollows
<1>16. OwnMade(p)' /\ Knows(p)'
  BY <1>5, <1>13, <1>15 DEF Mine, OwnMade, Knows
<1>17. QED BY <1>1, <1>2, <1>3, <1>4, <1>12, <1>14, <1>16, KeepsInv

LEMMA DotsInodeInv ==
  ASSUME Inv, Base', NEW p \in Procs, putting[p] = 0, MakingAt(p), DotsInode(p) PROVE Inv'
<1>1. /\ pc[p] = "c_dot" /\ DinoSet(ip[p], mem[ip[p]].ino) /\ UNCHANGED <<bitmap, content>>
      /\ StepOf(p, "c_dotdot", call[p], 0, dp[p], ip[p], fd[p], 0, ip[p], FALSE, FALSE, 0, "hold")
  BY DEF DotsInode
<1>2. PICK e, d, n : e = ip[p] /\ d = dp[p] /\ n = mem[ip[p]].ino
  OBVIOUS
<1>3. /\ e \in Inums /\ d \in Inums /\ e # d /\ MadeBy(p, e) /\ Points(p, e) /\ Has(p, e) /\ cur[p] = 0
      /\ IsDir(d) /\ Block(d) # 0 /\ \A x \in Inums : Has(p, x) <=> x = d \/ x = e
  BY <1>1, <1>2, MakerSees DEF Making, MakingAt
<1>4. EditOf(p, "c_dotdot", call[p], 0, d, e, fd[p], 0, e, FALSE, n, e, "hold")
  BY <1>1, <1>2, <1>3, VisitEdits
<1>5. Mine(p, "c_dotdot", call[p], 0, d, e, fd[p], 0, "clear") /\ OthersSame(p)
  BY <1>4 DEF EditOf
<1>6. \A x \in Inums : Drifts(p, x) => x = e
  BY <1>1, <1>2, Sizes DEF Drifts
<1>7. n = Eff(dino, mem, e) /\ n.type = dino[e].type /\ n.nlink = dino[e].nlink /\ n \in Inode
  BY <1>2, <1>3, SeenIs
<1>8. Block(e) # 0
  <2>1. NewBlock(e)
    BY <1>1, <1>2 DEF Inv, Agree
  <2>2. QED BY <1>2, <1>7, <2>1 DEF NewBlock, Block
<1>9. \A x \in Inums : /\ Pending(p, x)' => Pending(p, x)
                       /\ (Makes(p, x)' => Makes(p, x))
                       /\ (Has(p, x)' <=> Has(p, x)) /\ (Points(p, x)' => Points(p, x))
  BY <1>1, <1>2, <1>3, <1>5, Sizes
  DEF Mine, Pending, PendIp, PendDp, Makes, Making, Has, LocksDp, LocksIp, Points
<1>10. CountMove(p, e, n) /\ Fewers(p, e)
  BY <1>3, <1>7, <1>9 DEF CountMove, Fewers
<1>11. EditPtr(p, e, FALSE, e, "hold") /\ EditLock(p, e, FALSE, e, "hold", 0)
  BY <1>1, <1>3, <1>6, <1>9 DEF EditPtr, EditLock
<1>12. Keeps(p, e, FALSE, n, e, "hold", 0)
  BY <1>1, <1>2, <1>7, <1>9, <1>10, <1>11 DEF Keeps
<1>13. IsDir(d)' /\ Block(d)' # 0 /\ Block(e)' # 0
  BY <1>3, <1>4, <1>7, <1>8, <1>12, KeepsSame
<1>14. Apart(p)' /\ AgreeOwn(p)'
  BY <1>3, <1>5 DEF Mine, Apart, AgreeOwn
<1>15. MadeBy(p, e)'
  <2>1. "c_dotdot" \in Making \ {"c_lockip"} /\ dino'[e].type = dino[e].type
    BY <1>1, <1>2, <1>3, <1>7 DEF Making, DinoSet
  <2>2. QED BY <1>1, <1>2, <1>3, <1>5, <2>1, MadeFollows
<1>16. OwnMade(p)' /\ Knows(p)'
  BY <1>5, <1>13, <1>15 DEF Mine, OwnMade, Knows
<1>17. QED BY <1>3, <1>4, <1>7, <1>12, <1>14, <1>16, KeepsInv

LEMMA ExtendInv ==
  ASSUME Inv, NEW p \in Procs, CreateExtend(p) \/ LinkExtend(p) PROVE Inv'
<1>1. /\ ExtendEdit(p) /\ Base' /\ putting[p] = 0 /\ LinkingAt(p)
  BY ExtendEdits DEF Inv, Base
<1>2. pc[p] \in {"c_size", "l_size"} /\ UNCHANGED <<bitmap, content>>
  BY <1>1 DEF ExtendEdit
<1>3. PICK n, t, pl :
        /\ n \in Inode
        /\ n = [mem[dp[p]].ino EXCEPT !.size = mem[dp[p]].ino.size + 1] /\ DinoSet(dp[p], n)
        /\ pl = (IF pc[p] = "c_size" THEN "c_end" ELSE "l_end")
        /\ EditOf(p, pl, call[p], 0, 0, ip[p], fd[p], t, dp[p], FALSE, n, dp[p], "drop")
  BY <1>1 DEF ExtendEdit
<1>4. PICK i, e : i = ip[p] /\ e = dp[p] /\ i \in Inums /\ e \in Inums /\ cur[p] = 0
  BY <1>1 DEF LinkingAt
<1>5. Mine(p, pl, call[p], 0, 0, i, fd[p], t, "clear") /\ t \in {0, e}
  BY <1>3, <1>4 DEF EditOf, Edits
<1>6. Has(p, e) /\ Points(p, e) /\ (pc[p] = "c_size" => e # i)
      /\ \A x \in Inums : Has(p, x) <=> x = e \/ (pc[p] = "c_size" /\ x = i)
  <2>1. pc[p] = "c_size" => e # i
    BY <1>4 DEF Inv, Locks, Apart, LocksDp, LocksIp
  <2>2. \A x \in Inums : Has(p, x) <=> x = e \/ (pc[p] = "c_size" /\ x = i)
    BY <1>1, <1>2, <1>4, Sizes DEF Has, LocksDp, LocksIp, Making
  <2>3. QED BY <1>4, <2>1, <2>2 DEF Points
<1>7. mem[e].ino = Eff(dino, mem, e) /\ Eff(dino, mem, e) \in Inode
      /\ Eff(dino, mem, e).nlink = dino[e].nlink
  BY <1>1, <1>4, <1>6, SeenIs
<1>8. n.type = Eff(dino, mem, e).type /\ n.blk = Eff(dino, mem, e).blk /\ n.nlink = dino[e].nlink
  BY <1>3, <1>4, <1>7 DEF Inode
<1>9. pl = IF pc[p] = "c_size" THEN "c_end" ELSE "l_end"
  BY <1>3
<1>10. \A x \in Inums : /\ ~Pending(p, x)' /\ ~Makes(p, x)' /\ (Points(p, x)' => Points(p, x))
                        /\ Has(p, x)' <=> (pc[p] = "c_size" /\ x = i) \/ t = x
  BY <1>2, <1>4, <1>5, <1>9, Sizes
  DEF Mine, Pending, PendIp, PendDp, Makes, Making, Has, LocksDp, LocksIp, Points
<1>11. CountMove(p, e, n) /\ Fewers(p, e)
  BY <1>4, <1>8, <1>10 DEF CountMove, Fewers
<1>12. \A x \in Inums : ~Drifts(p, x)
  BY <1>1, <1>2, Sizes DEF Drifts
<1>13. EditPtr(p, e, FALSE, e, "drop")
  BY <1>1, <1>2, <1>6, <1>12 DEF EditPtr
<1>14. EditLock(p, e, FALSE, e, "drop", t)
  BY <1>4, <1>5, <1>6, <1>10, Sizes DEF EditLock
<1>15. Keeps(p, e, FALSE, n, e, "drop", t)
  BY <1>2, <1>3, <1>4, <1>8, <1>10, <1>11, <1>13, <1>14 DEF Keeps
<1>16. Apart(p)'
  BY <1>2, <1>4, <1>5, <1>6, <1>9, Sizes DEF Mine, Apart, LocksDp, LocksIp, Making
<1>17. AgreeOwn(p)' /\ OwnMade(p)' /\ Knows(p)'
  BY <1>5, <1>9 DEF Mine, Making, AgreeOwn, OwnMade, Knows
<1>18. QED BY <1>1, <1>3, <1>4, <1>15, <1>16, <1>17, KeepsInv

LEMMA LinkOldInv ==
  ASSUME Inv, NEW p \in Procs, LinkOld(p), Ino(Locked(mem, ip[p]), ip[p]).type # "dir" PROVE Inv'
<1>1. /\ Base' /\ pc[p] = "l_old" /\ putting[p] = 0 /\ ip[p] \in Inums /\ dp[p] = 0 /\ cur[p] = 0
      /\ call[p].kind = "link" /\ ~mem[ip[p]].busy /\ UNCHANGED <<bitmap, content>>
      /\ Locked(mem, ip[p])[ip[p]].ino.type # "dir"
  BY LinkOldEdits DEF Inv, Base
<1>2. PICK n, v :
        /\ n \in Inode
        /\ v = Locked(mem, ip[p])[ip[p]].ino.nlink + 1
        /\ n = [Locked(mem, ip[p])[ip[p]].ino EXCEPT !.nlink = v] /\ DinoSet(ip[p], n)
        /\ EditOf(p, "walkp", call[p], 0, 0, ip[p], fd[p], 0, ip[p], TRUE, n, ip[p], "unlock")
  BY LinkOldEdits DEF Inv, Base
<1>3. PICK e \in Inums : e = ip[p]
  BY <1>1
<1>4. Mine(p, "walkp", call[p], 0, 0, e, fd[p], 0, "clear")
  BY <1>2, <1>3 DEF EditOf
<1>5. Points(p, e) /\ \A x \in Inums : ~Has(p, x) /\ ~Drifts(p, x)
  BY <1>1, <1>3, Sizes DEF Has, Points, LocksDp, LocksIp, Making, Drifts
<1>6. /\ Locked(mem, e)[e].ino = Eff(dino, mem, e) /\ Eff(dino, mem, e) \in Inode
      /\ Eff(dino, mem, e) = dino[e] /\ dino[e].type # "free"
  BY <1>1, <1>3, <1>5, SeenIs
<1>7. n.type = dino[e].type /\ n.blk = dino[e].blk /\ n.nlink = dino[e].nlink + 1 /\ n.type = "file"
  BY <1>1, <1>2, <1>3, <1>6 DEF Inode, InodeTypes
<1>8. \A x \in Inums : ~Makes(p, x)' /\ ~Has(p, x)' /\ (Points(p, x)' => Points(p, x))
                       /\ (Pending(p, x)' => x = e)
  BY <1>3, <1>4, Sizes
  DEF Mine, Pending, PendIp, PendDp, Makes, Making, Has, LocksDp, LocksIp, Points
<1>9. CountMove(p, e, n) /\ Fewers(p, e)
  <2>1. Fewers(p, e)
    BY <1>8 DEF Fewers
  <2>2. QED BY <1>7, <2>1 DEF CountMove
<1>10. EditPtr(p, e, TRUE, e, "unlock")
  BY <1>1, <1>3, <1>5 DEF EditPtr
<1>11. EditLock(p, e, TRUE, e, "unlock", 0)
  BY <1>5, <1>8, Sizes DEF EditLock
<1>12. Keeps(p, e, TRUE, n, e, "unlock", 0)
  BY <1>1, <1>2, <1>3, <1>6, <1>7, <1>8, <1>9, <1>10, <1>11 DEF Keeps
<1>13. Eff(dino, mem, e)'.type = "file"
  BY <1>1, <1>2, <1>3, <1>6, <1>7, <1>12, KeepsSame
<1>14. Apart(p)' /\ AgreeOwn(p)' /\ OwnMade(p)' /\ Knows(p)'
  BY <1>4, <1>13 DEF Mine, Apart, LocksDp, LocksIp, Making, AgreeOwn, OwnMade, Knows
<1>15. QED BY <1>1, <1>2, <1>3, <1>12, <1>14, KeepsInv

\* A call ends with one link less for e, which it owed.
LEMMA LessInv ==
  ASSUME Inv, Base', NEW p \in Procs, putting[p] = 0, NEW e \in Inums, Points(p, e), NEW lk \in BOOLEAN,
         lk => ~mem[e].busy, ~lk => Has(p, e), Pending(p, e),
         \A x \in Inums : ~Drifts(p, x) /\ (Has(p, x) => x = e /\ ~lk), UNCHANGED <<bitmap, content>>,
         NEW n \in Inode, n.type = dino[e].type, n.blk = dino[e].blk, n.nlink = dino[e].nlink - 1,
         DinoSet(e, n), NEW t, EditOf(p, "idle", NoCall, 0, 0, 0, fd[p], t, e, lk, n, e, "drop"),
         pc[p] # "c_lockip"
  PROVE  Inv'
<1>1. Mine(p, "idle", NoCall, 0, 0, 0, fd[p], t, "clear") /\ t \in {0, e}
  BY DEF EditOf, Edits
<1>2. Eff(dino, mem, e) = dino[e]
  BY SeenIs
<1>3. \A x \in Inums : ~Makes(p, x)' /\ (Has(p, x)' <=> t = x) /\ (Points(p, x)' => Points(p, x))
                       /\ ~Pending(p, x)'
  BY <1>1, Sizes
  DEF Mine, Pending, PendIp, PendDp, Makes, Making, Has, LocksDp, LocksIp, Points
<1>4. CountMove(p, e, n) /\ Fewers(p, e)
  BY <1>3 DEF CountMove, Fewers
<1>5. EditPtr(p, e, lk, e, "drop")
  BY DEF EditPtr
<1>6. EditLock(p, e, lk, e, "drop", t)
  BY <1>1, <1>3, Sizes DEF EditLock
<1>7. Keeps(p, e, lk, n, e, "drop", t)
  BY <1>2, <1>3, <1>4, <1>5, <1>6 DEF Keeps
<1>8. Apart(p)' /\ AgreeOwn(p)' /\ OwnMade(p)' /\ Knows(p)'
  BY <1>1 DEF Mine, Apart, LocksDp, LocksIp, Making, AgreeOwn, OwnMade, Knows
<1>9. QED BY <1>7, <1>8, KeepsInv

LEMMA LinkBadInv ==
  ASSUME Inv, NEW p \in Procs, LinkBad(p) PROVE Inv'
<1>1. /\ Base' /\ pc[p] = "l_bad" /\ putting[p] = 0 /\ ip[p] \in Inums /\ dp[p] = 0 /\ cur[p] = 0
      /\ ~mem[ip[p]].busy /\ UNCHANGED <<bitmap, content>>
  BY LinkBadEdits DEF Inv, Base
<1>2. PICK n, v, t :
        /\ n \in Inode
        /\ v = Locked(mem, ip[p])[ip[p]].ino.nlink - 1
        /\ n = [Locked(mem, ip[p])[ip[p]].ino EXCEPT !.nlink = v] /\ DinoSet(ip[p], n)
        /\ EditOf(p, "idle", NoCall, 0, 0, 0, fd[p], t, ip[p], TRUE, n, ip[p], "drop")
  BY LinkBadEdits DEF Inv, Base
<1>3. PICK e \in Inums : e = ip[p]
  BY <1>1
<1>4. Points(p, e) /\ Pending(p, e) /\ \A x \in Inums : ~Has(p, x) /\ ~Drifts(p, x)
  BY <1>1, <1>3, Sizes DEF Has, Points, LocksDp, LocksIp, Making, Drifts, Pending, PendIp
<1>5. Locked(mem, e)[e].ino = dino[e] /\ dino[e] \in Inode
  BY <1>1, <1>3, <1>4, SeenIs
<1>6. n.type = dino[e].type /\ n.blk = dino[e].blk /\ n.nlink = dino[e].nlink - 1
  BY <1>2, <1>3, <1>5 DEF Inode
<1>7. QED BY <1>1, <1>2, <1>3, <1>4, <1>6, LessInv

LEMMA UnlinkNlinkInv ==
  ASSUME Inv, NEW p \in Procs, UnlinkNlink(p) PROVE Inv'
<1>1. /\ Base' /\ pc[p] = "u_nlink" /\ putting[p] = 0 /\ ip[p] \in Inums /\ dp[p] = 0 /\ cur[p] = 0
      /\ UNCHANGED <<bitmap, content>>
  BY UnlinkNlinkEdits DEF Inv, Base
<1>2. PICK n, v, t :
        /\ n \in Inode
        /\ v = mem[ip[p]].ino.nlink - 1
        /\ n = [mem[ip[p]].ino EXCEPT !.nlink = v] /\ DinoSet(ip[p], n)
        /\ EditOf(p, "idle", NoCall, 0, 0, 0, fd[p], t, ip[p], FALSE, n, ip[p], "drop")
  BY UnlinkNlinkEdits DEF Inv, Base
<1>3. PICK e \in Inums : e = ip[p]
  BY <1>1
<1>4. Points(p, e) /\ Pending(p, e) /\ \A x \in Inums : (Has(p, x) <=> x = e) /\ ~Drifts(p, x)
  BY <1>1, <1>3, Sizes DEF Has, Points, LocksDp, LocksIp, Making, Drifts, Pending, PendIp
<1>5. mem[e].ino = dino[e] /\ dino[e] \in Inode
  <2>1. mem[e].ino = Eff(dino, mem, e) /\ Eff(dino, mem, e) = dino[e] /\ dino[e] \in Inode
    BY <1>1, <1>3, <1>4, SeenIs
  <2>2. QED BY <2>1
<1>6. n.type = dino[e].type /\ n.blk = dino[e].blk /\ n.nlink = dino[e].nlink - 1
  BY <1>2, <1>3, <1>5 DEF Inode
<1>7. QED BY <1>1, <1>2, <1>3, <1>4, <1>6, LessInv

LEMMA UnlinkParentInv ==
  ASSUME Inv, NEW p \in Procs, UnlinkParent(p) PROVE Inv'
<1>1. /\ Base' /\ pc[p] = "u_dp" /\ putting[p] = 0 /\ dp[p] \in Inums /\ ip[p] \in Inums /\ cur[p] = 0
      /\ UNCHANGED <<bitmap, content>>
  BY UnlinkParentEdits DEF Inv, Base
<1>2. PICK n, v, t :
        /\ n \in Inode
        /\ v = mem[dp[p]].ino.nlink - 1
        /\ n = [mem[dp[p]].ino EXCEPT !.nlink = v] /\ DinoSet(dp[p], n)
        /\ EditOf(p, "u_nlink", call[p], 0, 0, ip[p], fd[p], t, dp[p], FALSE, n, dp[p], "drop")
  BY UnlinkParentEdits DEF Inv, Base
<1>3. PICK e, i \in Inums : e = dp[p] /\ i = ip[p]
  BY <1>1
<1>4. e # i
  BY <1>1, <1>3 DEF Inv, Locks, Apart, LocksDp, LocksIp
<1>5. Mine(p, "u_nlink", call[p], 0, 0, i, fd[p], t, "clear") /\ t \in {0, e}
  BY <1>2, <1>3 DEF EditOf, Edits
<1>6. Points(p, e) /\ Pending(p, e) /\ \A x \in Inums : (Has(p, x) <=> x = e \/ x = i) /\ ~Drifts(p, x)
  BY <1>1, <1>3, Sizes DEF Has, Points, LocksDp, LocksIp, Making, Drifts, Pending, PendDp
<1>7. mem[e].ino = dino[e] /\ dino[e] \in Inode /\ Eff(dino, mem, e) = dino[e]
  <2>1. mem[e].ino = Eff(dino, mem, e) /\ Eff(dino, mem, e) = dino[e] /\ dino[e] \in Inode
    BY <1>1, <1>3, <1>6, SeenIs
  <2>2. QED BY <2>1
<1>8. n.type = dino[e].type /\ n.blk = dino[e].blk /\ n.nlink = dino[e].nlink - 1
  BY <1>2, <1>3, <1>7 DEF Inode
<1>9. \A x \in Inums : ~Makes(p, x)' /\ (Has(p, x)' <=> x = i \/ t = x) /\ (Points(p, x)' => Points(p, x))
                       /\ (Pending(p, x)' <=> x = i) /\ Pending(p, i)
  BY <1>1, <1>3, <1>5, Sizes
  DEF Mine, Pending, PendIp, PendDp, Makes, Making, Has, LocksDp, LocksIp, Points
<1>10. CountMove(p, e, n) /\ Fewers(p, e)
  BY <1>4, <1>6, <1>8, <1>9 DEF CountMove, Fewers
<1>11. EditPtr(p, e, FALSE, e, "drop")
  BY <1>1, <1>6 DEF EditPtr
<1>12. EditLock(p, e, FALSE, e, "drop", t)
  BY <1>4, <1>5, <1>6, <1>9, Sizes DEF EditLock
<1>13. Keeps(p, e, FALSE, n, e, "drop", t)
  BY <1>1, <1>2, <1>3, <1>7, <1>8, <1>9, <1>10, <1>11, <1>12 DEF Keeps
<1>14. Apart(p)' /\ AgreeOwn(p)' /\ OwnMade(p)' /\ Knows(p)'
  BY <1>4, <1>5, Sizes DEF Mine, Apart, LocksDp, LocksIp, Making, AgreeOwn, OwnMade, Knows
<1>15. QED BY <1>1, <1>2, <1>3, <1>13, <1>14, KeepsInv

-----------------------------------------------------------------------------
(* The steps that take a block. *)

LEMMA BlockTidy ==
  ASSUME Inv, Base', NEW p \in Procs, NEW e \in Inums, NEW lk \in BOOLEAN, NEW n \in Inode, NEW b,
         BlockFor(p, e, lk, n, b)
  PROVE  Tidy' /\ EffSet(e, n)
<1>1. /\ OthersSame(p) /\ Edit(p, e, lk, n, e, "hold", 0) /\ EditPtr(p, e, lk, e, "hold")
      /\ dino' = dino /\ content' = content /\ b \in Blocks \ bitmap /\ bitmap' = bitmap \cup {b}
      /\ \A x \in Inums : EditAt(e, lk, n, e, "hold", 0, x)
  BY DEF BlockFor, Edit, Edits
<1>2. mem[e].ref > 0 /\ Owned(dino, mem)[e] = 0
  BY <1>1, SeenIs DEF EditPtr, BlockFor
<1>3. \A x \in Inums : /\ Eff(dino, mem, x)' = IF x = e THEN n ELSE Eff(dino, mem, x)
                       /\ mem'[x].ref = mem[x].ref
  <2>1. ASSUME NEW x \in Inums PROVE Eff(dino, mem, x)' = IF x = e THEN n ELSE Eff(dino, mem, x)
    BY <1>1, EditEff
  <2>2. QED BY <1>1, <2>1 DEF EditAt
<1>4. Pic /\ Sound(Counts(dino), Owned(dino, mem), DirsOf(dino, mem), content, bitmap, Pend, InMaking)
  BY PicHolds DEF Inv, Tidy
<1>5. (Types => Pic)'
  BY PicHolds, PTL
<1>6. Pic'
  BY <1>5 DEF Base
<1>7. PICK N, O, D, P, F : /\ N = Counts(dino) /\ O = Owned(dino, mem) /\ D = DirsOf(dino, mem)
                           /\ P = Pend /\ F = InMaking
  OBVIOUS
<1>8. PICK O2, P2, F2, B2 : /\ O2 = Owned(dino, mem)' /\ P2 = Pend' /\ F2 = InMaking'
                            /\ B2 = bitmap \cup {b}
  OBVIOUS
<1>9. Counts(dino)' = N
  BY <1>1, <1>7 DEF Counts
<1>10. Picture(N, O, D, content, bitmap, P, F) /\ Sound(N, O, D, content, bitmap, P, F)
  BY <1>4, <1>7 DEF Pic
<1>11. DirsOf(dino, mem)' = D
  BY <1>3, <1>7 DEF DirsOf, BlockFor
<1>12. Picture(N, O2, D, content, B2, P2, F2)
  BY <1>1, <1>6, <1>8, <1>9, <1>11 DEF Pic
<1>13. ASSUME NEW x \in Inums PROVE O2[x] = IF x = e THEN b ELSE O[x]
  <2>1. O2[x] = IF dino'[x].nlink > 0 \/ mem'[x].ref > 0 THEN Eff(dino, mem, x)'.blk ELSE 0
    BY <1>8 DEF Owned
  <2>2. O[x] = IF dino[x].nlink > 0 \/ mem[x].ref > 0 THEN Eff(dino, mem, x).blk ELSE 0
    BY <1>7 DEF Owned
  <2>3. QED BY <1>1, <1>2, <1>3, <2>1, <2>2 DEF BlockFor
<1>14. O[e] = 0 /\ Owners(O, D, content, bitmap)
  BY <1>2, <1>7, <1>10 DEF Sound
<1>15. content[b] = EmptyDir /\ \A i \in Inums : O[i] # b
  BY <1>1, <1>14, Sizes DEF Owners
<1>16. Owners(O2, D, content, B2)
  <2>1. \A i \in Inums : O2[i] # 0 => O2[i] \in B2
    BY <1>8, <1>13, <1>14 DEF Owners
  <2>2. ASSUME NEW i \in Inums, NEW j \in Inums, i # j, O2[i] # 0 PROVE O2[i] # O2[j]
    <3>1. (O[i] # 0 => O[i] # O[j]) /\ O[i] # b /\ O[j] # b
      BY <1>14, <1>15, <2>2 DEF Owners
    <3>2. O2[i] = (IF i = e THEN b ELSE O[i]) /\ O2[j] = (IF j = e THEN b ELSE O[j])
      BY <1>13
    <3>3. QED BY <2>2, <3>1, <3>2
  <2>3. O2[root] # 0
    BY <1>1, <1>13, <1>14, Sizes DEF Owners
  <2>4. QED BY <1>8, <1>14, <2>1, <2>2, <2>3 DEF Owners
<1>17. ASSUME NEW d \in Inums, NEW s \in 1..Slots, Named(O2, D, content, d, s) # 0
       PROVE  Named(O2, D, content, d, s) = Named(O, D, content, d, s)
  <2>1. CASE d = e
    <3>1. content[O2[d]].ent[s] = NoEnt
      <4>1. O2[d] = b /\ EmptyDir.ent[s] = NoEnt
        BY <1>13, <2>1 DEF EmptyDir
      <4>2. QED BY <1>15, <4>1
    <3>2. QED BY <1>17, <3>1 DEF Named
  <2>2. CASE d # e
    BY <1>13, <2>2 DEF Named
  <2>3. QED BY <2>1, <2>2
<1>18. ASSUME NEW c \in Inums, O[c] # 0 PROVE O2[c] = O[c]
  BY <1>13, <1>14, <1>18
<1>19. \A d \in Inums, s \in 1..Slots : LET c == Named(O, D, content, d, s) IN
         c # 0 /\ c \in D /\ O[c] # 0 => O2[c] # 0 /\ content[O2[c]].up = content[O[c]].up
  <2>1. D \subseteq Inums
    BY <1>10 DEF Picture
  <2>2. QED BY <1>18, <2>1
<1>20. (\A x \in Inums : P2[x] \subseteq P[x]) /\ F2 \subseteq F
  <2>1. Fewers(p, e)
    BY DEF BlockFor, Fewers
  <2>2. (Pending(p, e)' => Pending(p, e)) /\ \A x \in Inums : Makes(p, x)' => Makes(p, x)
    BY DEF BlockFor
  <2>3. QED BY <1>1, <1>7, <1>8, <2>1, <2>2, PendFewer
<1>21. Sound(N, O2, D, content, B2, P2, F2)
  <2>1. /\ \A i \in Inums : N[i] > 0 /\ i \in D => i \in D
        /\ \A i \in F2 : i \in F
    BY <1>20
  <2>2. QED BY <1>10, <1>12, <1>16, <1>17, <1>19, <1>20, <2>1, Fewer
<1>22. \A i \in Inums : dino'[i].type = "free" => dino'[i].nlink = 0
  BY <1>1 DEF Inv, Tidy
<1>23. EffSet(e, n)
  BY <1>3 DEF EffSet
<1>24. QED BY <1>1, <1>8, <1>9, <1>11, <1>21, <1>22, <1>23 DEF Tidy

LEMMA BlockCopy ==
  ASSUME NEW e, mem'[e].ino = [dino[e] EXCEPT !.blk = mem'[e].ino.blk], dino'[e] = dino[e],
         dino[e].blk = 0, mem'[e].ino.blk # 0
  PROVE  NewBlock(e)'
  BY DEF NewBlock

LEMMA WriteBlockInv ==
  ASSUME Inv, NEW p \in Procs, WriteBlock(p) PROVE Inv'
<1>1. /\ Base' /\ pc[p] = "idle" /\ putting[p] = 0 /\ fd[p] \in Inums
      /\ cur[p] = 0 /\ dp[p] = 0 /\ ip[p] = 0 /\ ~mem[fd[p]].busy /\ UNCHANGED <<dino, content>>
  BY WriteBlockEdits DEF Inv, Base
<1>2. PICK n \in Inode, b \in Unused :
        /\ b \in Blocks /\ bitmap' = bitmap \cup {b}
        /\ Locked(mem, fd[p])[fd[p]].ino.type = "file"
        /\ Locked(mem, fd[p])[fd[p]].ino.blk = 0
        /\ n = [Locked(mem, fd[p])[fd[p]].ino EXCEPT !.blk = b]
        /\ EditOf(p, "w_upd", call[p], 0, 0, 0, fd[p], 0, fd[p], TRUE, n, fd[p], "hold")
  BY WriteBlockEdits DEF Inv, Base
<1>3. PICK e \in Inums : e = fd[p]
  BY <1>1
<1>4. Mine(p, "w_upd", call[p], 0, 0, 0, e, 0, "clear") /\ OthersSame(p) /\ Edits(e, TRUE, n, e, "hold", 0)
  BY <1>2, <1>3 DEF EditOf
<1>5. Points(p, e) /\ \A x \in Inums : ~Has(p, x) /\ ~Drifts(p, x)
  BY <1>1, <1>3, Sizes DEF Has, Points, LocksDp, LocksIp, Making, Drifts
<1>6. /\ Locked(mem, e)[e].ino = Eff(dino, mem, e) /\ dino[e] \in Inode
      /\ Eff(dino, mem, e) = dino[e]
  BY <1>1, <1>3, <1>5, SeenIs
<1>7. n.type = dino[e].type /\ n.blk = b /\ dino[e].blk = 0 /\ dino[e].type = "file"
      /\ n = [dino[e] EXCEPT !.blk = n.blk] /\ b # 0
  BY <1>2, <1>3, <1>6, Sizes DEF Inode
<1>8. \A x \in Inums : ~Makes(p, x)' /\ ~Pending(p, x)' /\ (Has(p, x)' <=> x = e)
                       /\ (Points(p, x)' => Points(p, x))
  BY <1>3, <1>4, Sizes
  DEF Mine, Pending, PendIp, PendDp, Makes, Making, Has, LocksDp, LocksIp, Points
<1>9. EditPtr(p, e, TRUE, e, "hold") /\ EditLock(p, e, TRUE, e, "hold", 0)
  BY <1>1, <1>3, <1>5, <1>8 DEF EditPtr, EditLock
<1>10. Drifts(p, e)'
  BY <1>4 DEF Mine, Drifts
<1>11. Edit(p, e, TRUE, n, e, "hold", 0)
  BY <1>1, <1>4, <1>9, <1>10 DEF Edit, EditDisk, Mine
<1>12. b \in Blocks \ bitmap
  BY <1>2 DEF Unused
<1>13. BlockFor(p, e, TRUE, n, b)
  BY <1>1, <1>2, <1>6, <1>7, <1>8, <1>11, <1>12 DEF BlockFor
<1>14. Tidy'
  BY <1>1, <1>13, BlockTidy
<1>15. NewBlock(e)'
  <2>1. mem'[e].ino = n
    BY <1>4 DEF Edits, EditAt
  <2>2. QED BY <1>1, <1>7, <2>1, BlockCopy
<1>16. AgreeOwn(p)'
  BY <1>1, <1>4, <1>7, <1>15 DEF Mine, AgreeOwn
<1>17. Apart(p)' /\ OwnMade(p)' /\ Knows(p)'
  BY <1>4 DEF Mine, Apart, LocksDp, LocksIp, Making, OwnMade, Knows
<1>18. EditSeen(e, n) /\ ContentFrame(p) /\ \A x \in Inums : Points(p, x)' => Points(p, x)
  BY <1>1, <1>6, <1>7, <1>8 DEF EditSeen, ContentFrame
<1>19. QED BY <1>1, <1>9, <1>11, <1>14, <1>16, <1>17, <1>18, EditInv

LEMMA DotsBlockInv ==
  ASSUME Inv, Base', NEW p \in Procs, putting[p] = 0, MakingAt(p), DotsBlock(p) PROVE Inv'
<1>1. pc[p] = "c_balloc" /\ UNCHANGED <<dino, content>>
  BY DEF DotsBlock
<1>2. PICK n \in Inode, b \in Unused :
        /\ b \in Blocks /\ bitmap' = bitmap \cup {b} /\ n = [mem[ip[p]].ino EXCEPT !.blk = b]
        /\ EditOf(p, "c_dot", call[p], 0, dp[p], ip[p], fd[p], 0, ip[p], FALSE, n, ip[p], "hold")
  BY DEF DotsBlock
<1>3. PICK e, d : e = ip[p] /\ d = dp[p]
  OBVIOUS
<1>4. /\ e \in Inums /\ d \in Inums /\ e # d /\ MadeBy(p, e) /\ Points(p, e) /\ Has(p, e) /\ cur[p] = 0
      /\ IsDir(d) /\ Block(d) # 0 /\ \A x \in Inums : Has(p, x) <=> x = d \/ x = e
  BY <1>1, <1>3, MakerSees DEF Making, MakingAt
<1>5. /\ Mine(p, "c_dot", call[p], 0, d, e, fd[p], 0, "clear") /\ OthersSame(p)
      /\ Edits(e, FALSE, n, e, "hold", 0)
  BY <1>2, <1>3 DEF EditOf
<1>6. \A x \in Inums : ~Drifts(p, x)
  BY <1>1, Sizes DEF Drifts
<1>7. mem[e].ino = dino[e] /\ Eff(dino, mem, e) = dino[e] /\ dino[e] \in Inode
  <2>1. mem[e].ino = Eff(dino, mem, e) /\ Eff(dino, mem, e) = dino[e] /\ dino[e] \in Inode
    BY <1>3, <1>4, <1>6, SeenIs
  <2>2. QED BY <2>1
<1>8. dino[e].blk = 0
  BY <1>1, <1>4 DEF MadeBy
<1>9. n.type = dino[e].type /\ n.blk = b /\ n = [dino[e] EXCEPT !.blk = n.blk] /\ b # 0
  BY <1>2, <1>3, <1>7, Sizes DEF Inode
<1>10. \A x \in Inums : /\ Pending(p, x)' => Pending(p, x)
                        /\ (Makes(p, x)' => Makes(p, x))
                        /\ (Has(p, x)' <=> Has(p, x)) /\ (Points(p, x)' => Points(p, x))
  BY <1>1, <1>3, <1>4, <1>5, Sizes
  DEF Mine, Pending, PendIp, PendDp, Makes, Making, Has, LocksDp, LocksIp, Points
<1>11. EditPtr(p, e, FALSE, e, "hold") /\ EditLock(p, e, FALSE, e, "hold", 0)
  BY <1>1, <1>4, <1>6, <1>10 DEF EditPtr, EditLock
<1>12. Drifts(p, e)'
  BY <1>5 DEF Mine, Drifts
<1>13. Edit(p, e, FALSE, n, e, "hold", 0)
  BY <1>1, <1>5, <1>11, <1>12 DEF Edit, EditDisk, Mine
<1>14. b \in Blocks \ bitmap
  BY <1>2 DEF Unused
<1>15. BlockFor(p, e, FALSE, n, b)
  BY <1>1, <1>2, <1>7, <1>8, <1>9, <1>10, <1>13, <1>14 DEF BlockFor
<1>16. Tidy' /\ EffSet(e, n)
  BY <1>4, <1>15, BlockTidy
<1>17. NewBlock(e)'
  <2>1. mem'[e].ino = n
    BY <1>4, <1>5 DEF Edits, EditAt
  <2>2. QED BY <1>1, <1>8, <1>9, <2>1, BlockCopy
<1>18. AgreeOwn(p)' /\ Apart(p)'
  BY <1>4, <1>5, <1>17 DEF Mine, AgreeOwn, Apart
<1>19. IsDir(d)' /\ Block(d)' # 0
  <2>1. Eff(dino, mem, d)' = Eff(dino, mem, d)
    BY <1>4, <1>16 DEF EffSet
  <2>2. QED BY <1>4, <2>1 DEF IsDir, Block
<1>20. MadeBy(p, e)'
  <2>1. "c_dot" \in Making \ {"c_lockip"}
    BY DEF Making
  <2>2. QED BY <1>1, <1>3, <1>4, <1>5, <2>1, MadeFollows
<1>21. OwnMade(p)' /\ Knows(p)'
  BY <1>5, <1>19, <1>20 DEF Mine, OwnMade, Knows
<1>22. EditSeen(e, n) /\ ContentFrame(p)
  BY <1>1, <1>7, <1>8, <1>9 DEF EditSeen, ContentFrame
<1>23. QED BY <1>4, <1>10, <1>11, <1>13, <1>16, <1>18, <1>21, <1>22, EditInv

-----------------------------------------------------------------------------
(* The steps that write a directory. *)

LEMMA WrittenPic == Inv /\ Base' /\ bitmap' = bitmap => PicWritten /\ Pic
<1> SUFFICES ASSUME Inv, Base', bitmap' = bitmap PROVE PicWritten /\ Pic
  OBVIOUS
<1>1. (Types => Pic)'
  BY PicHolds, PTL
<1>2. Pic /\ Pic'
  BY <1>1, PicHolds DEF Base, Inv
<1>3. content' \in [Blocks -> DirBlock] /\ Pend' \in [Inums -> SUBSET Procs] /\ InMaking' \subseteq Inums
  BY <1>2 DEF Pic, Picture
<1>4. QED BY <1>2, <1>3 DEF Pic, Picture, PicWritten

\* Only content and who points where change.
LEMMA WrittenTidy ==
  ASSUME Inv, Base', dino' = dino, bitmap' = bitmap, SoundWritten, \A x \in Inums : EffSame(x),
         \A x \in Inums : mem'[x].ref > 0 => mem[x].ref > 0
  PROVE  Tidy'
<1>1. (Types => Pic)'
  BY PicHolds, PTL
<1>2. Pic' /\ PicWritten
  BY <1>1, WrittenPic DEF Base
<1>3. PICK N, O, D, C, P, F : /\ N = Counts(dino) /\ O = Owned(dino, mem) /\ D = DirsOf(dino, mem)
                              /\ C = content' /\ P = Pend' /\ F = InMaking'
  OBVIOUS
<1>4. PICK O2 : O2 = Owned(dino, mem)'
  OBVIOUS
<1>5. Counts(dino)' = N /\ DirsOf(dino, mem)' = D
  BY <1>3 DEF Counts, DirsOf, EffSame
<1>6. Picture(N, O, D, C, bitmap, P, F) /\ Sound(N, O, D, C, bitmap, P, F)
  BY <1>2, <1>3 DEF PicWritten, SoundWritten
<1>7. Picture(N, O2, D, C, bitmap, P, F)
  BY <1>2, <1>3, <1>4, <1>5 DEF Pic
<1>8. ASSUME NEW x \in Inums PROVE O2[x] = O[x] \/ (O2[x] = 0 /\ N[x] <= 0)
  <2>1. O2[x] = IF dino[x].nlink > 0 \/ mem'[x].ref > 0 THEN Eff(dino, mem, x)'.blk ELSE 0
    BY <1>4 DEF Owned
  <2>2. O[x] = IF dino[x].nlink > 0 \/ mem[x].ref > 0 THEN Eff(dino, mem, x).blk ELSE 0
    BY <1>3 DEF Owned
  <2>3. N[x] = dino[x].nlink /\ dino[x].nlink \in Int /\ EffSame(x)
    BY <1>3 DEF Counts, Inv, Types, DiskTypes, Inode
  <2>4. QED BY <2>1, <2>2, <2>3 DEF EffSame
<1>9. (\A x \in Inums : P[x] \subseteq P[x]) /\ F \subseteq F
  OBVIOUS
<1>10. Sound(N, O2, D, C, bitmap, P, F)
  BY <1>6, <1>7, <1>8, <1>9, OwnedLess
<1>11. \A i \in Inums : dino'[i].type = "free" => dino'[i].nlink = 0
  BY DEF Inv, Tidy
<1>12. QED BY <1>3, <1>4, <1>5, <1>10, <1>11 DEF Tidy

LEMMA EntryEff ==
  ASSUME Inv, Base', NEW p \in Procs, NEW pl, NEW k, NEW c, NEW d, NEW i, NEW f, NEW t,
         NEW e \in Inums, NEW lk \in BOOLEAN, NEW n, NEW s \in Inums,
         NEW how \in {"hold", "unlock", "drop"}, EditOf(p, pl, k, c, d, i, f, t, e, lk, n, s, how),
         EntryEdit(p, e, lk, n, s, how, t)
  PROVE  Edit(p, e, lk, n, s, how, t) /\ EffStays
<1>1. putting[p] = 0 /\ Points(p, e) /\ (~mem[e].busy \/ Has(p, e))
  BY DEF EntryEdit, EditPtr
<1>2. Eff(dino, mem, e) = dino[e]
  BY <1>1, SeenIs DEF EntryEdit
<1>3. DinoSet(e, n)
  BY <1>2 DEF EntryEdit, DinoSet
<1>4. Edit(p, e, lk, n, s, how, t)
  BY <1>3 DEF EditOf, Mine, EntryEdit, Edit, EditDisk
<1>5. \A x \in Inums : /\ Eff(dino, mem, x)' = IF x = e THEN n ELSE Eff(dino, mem, x)
                       /\ mem'[x].ref > 0 => mem[x].ref > 0
  BY <1>4, EditEff
<1>6. n = Eff(dino, mem, e)
  BY DEF EntryEdit
<1>7. QED BY <1>4, <1>5, <1>6 DEF EffStays, EffSame, IsDir, Block

LEMMA EntryInv ==
  ASSUME Inv, Base', NEW p \in Procs, NEW pl, NEW k, NEW c, NEW d, NEW i, NEW f, NEW t,
         NEW e \in Inums, NEW lk \in BOOLEAN, NEW n, NEW s \in Inums,
         NEW how \in {"hold", "unlock", "drop"}, EditOf(p, pl, k, c, d, i, f, t, e, lk, n, s, how),
         EntryEdit(p, e, lk, n, s, how, t), SoundWritten,
         Apart(p)', AgreeOwn(p)', OwnMade(p)', Knows(p)'
  PROVE  Inv'
<1>1. Edit(p, e, lk, n, s, how, t) /\ EffStays
  BY EntryEff
<1>2. Tidy'
  BY <1>1, WrittenTidy DEF EntryEdit, EffStays
<1>3. /\ EditLock(p, e, lk, s, how, t) /\ EditSeen(e, n) /\ ContentFrame(p)
      /\ \A x \in Inums : Points(p, x)' => Points(p, x)
  BY DEF EntryEdit, EditSeen
<1>4. QED BY <1>1, <1>2, <1>3, EditInv

\* The counts and blocks of the picture.
LEMMA OwnedIs ==
  ASSUME NEW x \in Inums, mem[x].ref > 0
  PROVE  /\ Owned(dino, mem)[x] = Block(x) /\ (x \in DirsOf(dino, mem) <=> IsDir(x))
  BY DEF Owned, DirsOf, IsDir, Block

LEMMA MadeSound ==
  ASSUME Inv, Base', NEW p \in Procs, OthersSame(p), NEW d \in Inums, NEW i \in Inums, EntryDue(p, d, i),
         bitmap' = bitmap, NEW s \in 1..Slots, NEW n \in Names,
         Writes(content, content', Block(d), s, <<n, i>>),
         \A x \in Inums : ~Pending(p, x)' /\ ~Makes(p, x)'
  PROVE  /\ SoundWritten
         /\ \A b \in Blocks : b # Block(d) => content'[b] = content[b]
<1>1. PicWritten /\ Pic
  BY WrittenPic
<1>2. PICK N, O, D, P, F : /\ N = Counts(dino) /\ O = Owned(dino, mem) /\ D = DirsOf(dino, mem)
                           /\ P = Pend /\ F = InMaking
  OBVIOUS
<1>3. PICK C, C2, P2, F2 : C = content /\ C2 = content' /\ P2 = Pend' /\ F2 = InMaking'
  OBVIOUS
<1>4. Picture(N, O, D, C, bitmap, P, F) /\ Sound(N, O, D, C, bitmap, P, F)
  BY <1>1, <1>2, <1>3 DEF Pic, Inv, Tidy
<1>5. Picture(N, O, D, C2, bitmap, P2, F2)
  BY <1>1, <1>2, <1>3 DEF PicWritten
<1>6. /\ O[d] = Block(d) /\ d \in D /\ O[d] # 0
      /\ O[i] = Block(i) /\ (i \in D <=> IsDir(i))
  BY <1>2, OwnedIs DEF EntryDue
<1>7. OneEntry(O, D, C, C2, d, s, i)
  <2>1. PICK v : v = <<n, i>>
    OBVIOUS
  <2>2. v \in Item /\ v # NoEnt /\ v[2] = i
    BY <2>1 DEF Item, NoEnt
  <2>3. IsPic(O, D, C) /\ Owners(O, D, C, bitmap)
    BY <1>4 DEF Picture, IsPic, Sound
  <2>4. Writes(C, C2, O[d], s, v)
    BY <1>3, <1>6, <2>1
  <2>5. OneEntry(O, D, C, C2, d, s, IF v = NoEnt THEN 0 ELSE v[2])
    BY <1>6, <2>2, <2>3, <2>4, EntryWritten
  <2>6. (IF v = NoEnt THEN 0 ELSE v[2]) = i
    BY <2>2
  <2>7. QED BY <2>5, <2>6
<1>8. \A x \in Inums : /\ P[x] = {q \in Procs : Pending(q, x)} /\ P2[x] = {q \in Procs : Pending(q, x)'}
                       /\ x \in F <=> \E q \in Procs : Makes(q, x)
                       /\ x \in F2 <=> \E q \in Procs : Makes(q, x)'
  BY <1>2, <1>3, PendIs
<1>9. ASSUME NEW x \in Inums, NEW q \in Procs
      PROVE  (Pending(q, x)' => Pending(q, x) /\ q # p) /\ (Makes(q, x)' => Makes(q, x) /\ q # p)
  BY OthersPend
<1>10. \A x \in Inums : P2[x] \subseteq P[x] \ {p}
  BY <1>8, <1>9
<1>11. p \in P[i] /\ (IsDir(i) => p \in P[d])
  BY <1>8 DEF EntryDue
<1>12. F2 \subseteq F \ {i}
  <2>1. F2 \subseteq Inums
    BY <1>5 DEF Picture
  <2>2. ASSUME NEW x \in F2 PROVE x \in F /\ x # i
    <3>1. PICK q \in Procs : Makes(q, x)'
      BY <1>8, <2>1, <2>2
    <3>2. Makes(q, x) /\ q # p
      BY <1>9, <2>1, <2>2, <3>1
    <3>3. QED BY <1>8, <2>1, <2>2, <3>2 DEF EntryDue
  <2>3. QED BY <2>2
<1>13. i \in D => /\ p \in P[d] /\ P2[d] \subseteq P[d] \ {p} /\ O[i] # 0 /\ C[O[i]].up = d
                  /\ \A e \in Inums, u \in 1..Slots : Named(O, D, C, e, u) # i
  <2>1. SUFFICES ASSUME i \in D PROVE \A e \in Inums, u \in 1..Slots : Named(O, D, C, e, u) # i
    BY <1>3, <1>6, <1>10, <1>11 DEF EntryDue
  <2>2. i \in F /\ i # 0
    BY <1>2, <1>6, <2>1, Sizes DEF EntryDue
  <2>3. Tree(O, D, C, F)
    BY <1>4 DEF Sound
  <2>4. ASSUME NEW e \in Inums, NEW u \in 1..Slots, Named(O, D, C, e, u) = i PROVE FALSE
    <3>1. Hangs(O, D, C, F, e, u, i)
      BY <2>2, <2>3, <2>4 DEF Tree
    <3>2. QED BY <2>2, <3>1 DEF Hangs
  <2>5. QED BY <2>4
<1>14. /\ \A j \in Inums \ {i, d} : P2[j] \subseteq P[j]
       /\ P2[i] \subseteq P[i] \ {p} /\ P2[d] \subseteq P[d] /\ i # d /\ i # root
  BY <1>10 DEF EntryDue
<1>15. d \notin F /\ NamesNone(O, D, C, i)
  <2>1. i \in D => i \in F
    BY <1>2, <1>6 DEF EntryDue
  <2>2. \A j \in F : NamesNone(O, D, C, j)
    BY <1>4 DEF Sound
  <2>3. i \notin D => NamesNone(O, D, C, i)
    BY DEF NamesNone, Named
  <2>4. QED BY <1>2, <2>1, <2>2, <2>3 DEF EntryDue
<1>16. Sound(N, O, D, C2, bitmap, P2, F2)
  BY <1>4, <1>5, <1>6, <1>7, <1>11, <1>12, <1>13, <1>14, <1>15, EntryMade
<1>17. SoundWritten
  BY <1>2, <1>3, <1>16 DEF SoundWritten
<1>18. \A b \in Blocks : b # Block(d) => content'[b] = content[b]
  BY <1>3, <1>6, <1>7 DEF OneEntry
<1>19. QED BY <1>17, <1>18

LEMMA DueIs ==
  ASSUME Inv, NEW p \in Procs, putting[p] = 0, pc[p] \in {"c_link", "l_link"}, LinkingAt(p)
  PROVE  EntryDue(p, dp[p], ip[p])
<1>1. PICK i, d \in Inums : i = ip[p] /\ d = dp[p]
  BY DEF LinkingAt
<1>2. IsDir(d) /\ Block(d) # 0
  BY <1>1, Sizes DEF Inv, Known, Knows
<1>3. Has(p, d) /\ Points(p, d) /\ Points(p, i) /\ Pending(p, i)
  BY <1>1 DEF Has, LocksDp, Making, Points, Pending, PendIp
<1>4. /\ mem[i].ref > 0 /\ mem[d].ref > 0 /\ mem[d].ino = Eff(dino, mem, d)
      /\ d \notin InMaking
  <2>1. ASSUME NEW q \in Procs, Makes(q, d) PROVE FALSE
    <3>1. MadeBy(q, d)
      BY <2>1 DEF Inv, Fresh, Makes
    <3>2. q = p /\ dp[q] # d
      BY <1>3, <3>1 DEF MadeBy
    <3>3. QED BY <1>1, <3>2
  <2>2. QED BY <1>3, <2>1, PointsRef, HasIs, PendIs
<1>5. CASE pc[p] = "c_link"
  <2>1. MadeBy(p, i) /\ Makes(p, i) /\ Has(p, i)
    BY <1>1, <1>5 DEF Inv, Fresh, Makes, Making, Has, LocksIp
  <2>2. i # d /\ i # root /\ \A q \in Procs : Makes(q, i) => q = p
    BY <1>1, <2>1 DEF MadeBy, Makes, Points
  <2>3. i \in InMaking
    BY <2>1, PendIs
  <2>4. IsDir(i) => call[p].kind = "mkdir"
    <3>1. Eff(dino, mem, i).type = dino[i].type
      BY <1>3, <2>1, SeenIs
    <3>2. QED BY <2>1, <3>1 DEF MadeBy, IsDir
  <2>5. call[p].kind = "mkdir" => Pending(p, d) /\ Block(i) # 0 /\ content[Block(i)].up = d
    BY <1>1, <1>5 DEF Pending, PendDp, Inv, Known, Knows
  <2>6. QED BY <1>1, <1>2, <1>3, <1>4, <2>2, <2>3, <2>4, <2>5 DEF EntryDue
<1>6. CASE pc[p] = "l_link"
  <2>1. Eff(dino, mem, i).type = "file"
    BY <1>1, <1>6 DEF Inv, Known, Knows
  <2>2. ~IsDir(i) /\ i # d
    BY <1>2, <2>1 DEF IsDir
  <2>3. i # root
    <3>1. root \in DirsOf(dino, mem)
      BY DEF Inv, Tidy, Sound, Owners
    <3>2. QED BY <2>2, <3>1 DEF DirsOf, IsDir
  <2>4. ASSUME NEW q \in Procs, Makes(q, i) PROVE q = p
    <3>1. MadeBy(q, i)
      BY <2>4 DEF Makes, Inv, Fresh
    <3>2. QED BY <1>3, <3>1 DEF MadeBy
  <2>5. QED BY <1>1, <1>2, <1>3, <1>4, <2>2, <2>3, <2>4 DEF EntryDue
<1>7. QED BY <1>5, <1>6

LEMMA DirlinkKeeps ==
  ASSUME Inv, Base', NEW p \in Procs, putting[p] = 0, LinkingAt(p), pc[p] \in {"c_link", "l_link"},
         UNCHANGED <<dino, bitmap>>, NameOf(p) \in Names, NEW i \in Inums, NEW d \in Inums,
         i = ip[p], d = dp[p], NEW x1 \in 1..Slots,
         Writes(content, content', mem[d].ino.blk, x1, <<NameOf(p), i>>), NEW n \in Inode, n = mem[d].ino,
         NEW pl, NEW w, NEW t, NEW how \in {"hold", "unlock", "drop"}, NEW lk \in BOOLEAN, ~lk,
         EditOf(p, pl, call[p], 0, w, i, fd[p], t, d, lk, n, d, how), DirlinkTo(p, i, d, pl, w, t, how)
  PROVE  Inv'
<1>1. EntryDue(p, d, i) /\ cur[p] = 0
  BY DueIs DEF LinkingAt
<1>2. mem[d].ino.blk = Block(d)
  BY <1>1 DEF EntryDue, Block
<1>3. Mine(p, pl, call[p], 0, w, i, fd[p], t, "clear") /\ OthersSame(p) /\ Edits(d, lk, n, d, how, t)
      /\ t \in {0, d}
  BY DEF EditOf, Edits
<1>4. /\ \/ pl \in {"c_size", "l_size"} /\ w = d /\ t = 0 /\ how = "hold"
         \/ pl \in {"c_end", "l_end"} /\ w = 0 /\ how = "drop"
      /\ (pc[p] = "c_link" <=> pl \in {"c_size", "c_end"})
  BY DEF LinkMakes, LinkEnds, DirlinkTo
<1>5. \A x \in Inums : ~Pending(p, x)' /\ ~Makes(p, x)'
  BY <1>3, <1>4, Sizes DEF Mine, Pending, PendIp, PendDp, Makes, Making
<1>6. SoundWritten /\ \A b \in Blocks : b # Block(d) => content'[b] = content[b]
  BY <1>1, <1>2, <1>3, <1>5, MadeSound
<1>7. \A x \in Inums : /\ Points(p, x)' => Points(p, x)
                       /\ Has(p, x) <=> x = d \/ (pc[p] = "c_link" /\ x = i)
  BY <1>1, <1>3, <1>4, Sizes DEF Mine, Points, Has, LocksDp, LocksIp, Making
<1>8. \A x \in Inums : Has(p, x)' <=> (how = "hold" /\ x = d) \/ (pc[p] = "c_link" /\ x = i) \/ t = x
  BY <1>3, <1>4, Sizes DEF Mine, Has, LocksDp, LocksIp, Making
<1>9. i # d /\ Points(p, d) /\ \A x \in Inums : ~Drifts(p, x)
  BY <1>1, Sizes DEF Drifts, EntryDue, Points
<1>10. EditPtr(p, d, lk, d, how)
  BY <1>7, <1>9 DEF EditPtr
<1>11. EditLock(p, d, lk, d, how, t)
  BY <1>3, <1>4, <1>7, <1>8, <1>9, Sizes DEF EditLock
<1>12. ContentFrame(p)
  BY <1>1, <1>2, <1>6 DEF ContentFrame, EntryDue
<1>13. EntryEdit(p, d, lk, n, d, how, t)
  BY <1>1, <1>3, <1>7, <1>9, <1>10, <1>11, <1>12 DEF EntryEdit, EntryDue
<1>14. IsDir(d)' /\ Block(d)' # 0
  <2>1. IsDir(d) /\ Block(d) # 0
    BY <1>1 DEF EntryDue
  <2>2. EffStays
    BY <1>13, EntryEff
  <2>3. QED BY <2>1, <2>2 DEF EffStays
<1>15. Apart(p)'
  BY <1>3, <1>4, <1>9, Sizes DEF Mine, Apart, LocksDp, LocksIp, Making
<1>16. AgreeOwn(p)' /\ OwnMade(p)'
  BY <1>3, <1>4 DEF Mine, AgreeOwn, OwnMade, Making
<1>17. Knows(p)'
  BY <1>3, <1>4, <1>14 DEF Mine, Knows
<1>18. QED BY <1>6, <1>13, <1>15, <1>16, <1>17, EntryInv

LEMMA DirlinkInv ==
  ASSUME Inv, NEW p \in Procs, CreateDirlink(p) \/ LinkDirlink(p) PROVE Inv'
<1>1. DirlinkStep(p) /\ Base' /\ putting[p] = 0 /\ LinkingAt(p)
  BY DirlinkSteps DEF Inv, Base
<1>2. pc[p] \in {"c_link", "l_link"} /\ UNCHANGED <<dino, bitmap>> /\ NameOf(p) \in Names
  BY <1>1 DEF DirlinkStep
<1>3. PICK i, d \in Inums : i = ip[p] /\ d = dp[p] /\ cur[p] = 0
  BY <1>1 DEF LinkingAt
<1>4. PICK x1 \in 1..Slots : Writes(content, content', mem[d].ino.blk, x1, <<NameOf(p), i>>)
  BY <1>1, <1>3 DEF DirlinkStep
<1>5. PICK n \in Inode : n = mem[d].ino
  BY InodeIs DEF Inv, Base
<1>6. Has(p, d)
  BY <1>1, <1>2, <1>3, DueIs DEF EntryDue
<1>7. CASE StepOf(p, LinkMakes(p), call[p], 0, dp[p], ip[p], fd[p], 0, dp[p], FALSE, FALSE, 0, "hold")
  <2>1. StepOf(p, LinkMakes(p), call[p], 0, d, i, fd[p], 0, d, FALSE, FALSE, 0, "hold")
    BY <1>3, <1>7
  <2>2. EditOf(p, LinkMakes(p), call[p], 0, d, i, fd[p], 0, d, FALSE, n, d, "hold")
    BY <1>5, <1>6, <2>1, VisitEdits
  <2>3. DirlinkTo(p, i, d, LinkMakes(p), d, 0, "hold")
    BY DEF DirlinkTo
  <2>4. QED BY <1>1, <1>2, <1>3, <1>4, <1>5, <2>2, <2>3, DirlinkKeeps
<1>8. CASE \E t : StepOf(p, LinkEnds(p), call[p], 0, 0, ip[p], fd[p], t, dp[p], FALSE, FALSE, 0, "drop")
  <2>1. PICK t : StepOf(p, LinkEnds(p), call[p], 0, 0, i, fd[p], t, d, FALSE, FALSE, 0, "drop")
    BY <1>3, <1>8
  <2>2. EditOf(p, LinkEnds(p), call[p], 0, 0, i, fd[p], t, d, FALSE, n, d, "drop")
    BY <1>5, <1>6, <2>1, VisitEdits
  <2>3. DirlinkTo(p, i, d, LinkEnds(p), 0, t, "drop")
    BY DEF DirlinkTo
  <2>4. QED BY <1>1, <1>2, <1>3, <1>4, <1>5, <2>2, <2>3, DirlinkKeeps
<1>9. QED BY <1>1, <1>7, <1>8 DEF DirlinkStep

LEMMA GoneSound ==
  ASSUME Inv, Base', NEW p \in Procs, OthersSame(p), NEW d \in Inums, NEW i \in Inums, i # d,
         IsDir(d), Block(d) # 0, mem[d].ref > 0, bitmap' = bitmap, NEW s \in 1..Slots,
         content[Block(d)].ent[s] # NoEnt, content[Block(d)].ent[s][2] = i,
         Writes(content, content', Block(d), s, NoEnt),
         \A x \in Inums : ~Makes(p, x)' /\ (Pending(p, x)' => x = i \/ (x = d /\ IsDir(i)))
  PROVE  /\ SoundWritten
         /\ \A b \in Blocks : b # Block(d) => content'[b] = content[b]
<1>1. PicWritten /\ Pic
  BY WrittenPic
<1>2. PICK N, O, D, P, F : /\ N = Counts(dino) /\ O = Owned(dino, mem) /\ D = DirsOf(dino, mem)
                           /\ P = Pend /\ F = InMaking
  OBVIOUS
<1>3. PICK C, C2, P2, F2 : C = content /\ C2 = content' /\ P2 = Pend' /\ F2 = InMaking'
  OBVIOUS
<1>4. Picture(N, O, D, C, bitmap, P, F) /\ Sound(N, O, D, C, bitmap, P, F)
  BY <1>1, <1>2, <1>3 DEF Pic, Inv, Tidy
<1>5. Picture(N, O, D, C2, bitmap, P2, F2) /\ Picture(N, O, D, C2, bitmap, P2, F)
  BY <1>1, <1>2, <1>3, <1>4 DEF PicWritten, Picture
<1>6. O[d] = Block(d) /\ d \in D /\ O[d] # 0
  BY <1>2, OwnedIs
<1>7. i \in D => IsDir(i)
  BY <1>2 DEF DirsOf, IsDir
<1>8. OneEntry(O, D, C, C2, d, s, 0)
  <2>1. PICK v : v = NoEnt
    OBVIOUS
  <2>2. v \in Item
    BY <2>1 DEF Item
  <2>3. IsPic(O, D, C) /\ Owners(O, D, C, bitmap)
    BY <1>4 DEF Picture, IsPic, Sound
  <2>4. Writes(C, C2, O[d], s, v)
    BY <1>3, <1>6, <2>1
  <2>5. OneEntry(O, D, C, C2, d, s, IF v = NoEnt THEN 0 ELSE v[2])
    BY <1>6, <2>2, <2>3, <2>4, EntryWritten
  <2>6. (IF v = NoEnt THEN 0 ELSE v[2]) = 0
    BY <2>1
  <2>7. QED BY <2>5, <2>6
<1>9. i = Named(O, D, C, d, s)
  BY <1>3, <1>6 DEF Named
<1>10. \A x \in Inums : /\ P[x] = {q \in Procs : Pending(q, x)} /\ P2[x] = {q \in Procs : Pending(q, x)'}
                        /\ x \in F <=> \E q \in Procs : Makes(q, x)
                        /\ x \in F2 <=> \E q \in Procs : Makes(q, x)'
  BY <1>2, <1>3, PendIs
<1>11. ASSUME NEW x \in Inums, NEW q \in Procs
       PROVE  /\ Pending(q, x)' => Pending(q, x) \/ (q = p /\ (x = i \/ (x = d /\ IsDir(i))))
              /\ Makes(q, x)' => Makes(q, x)
  BY OthersPend
<1>12. /\ \A j \in Inums \ {i, d} : P2[j] \subseteq P[j]
       /\ P2[i] \subseteq P[i] \cup {p} /\ P2[d] \subseteq P[d] \cup {p}
       /\ i \notin D => P2[d] \subseteq P[d]
  <2>1. \A j \in Inums \ {i, d} : P2[j] \subseteq P[j]
    BY <1>10, <1>11
  <2>2. P2[i] \subseteq P[i] \cup {p} /\ P2[d] \subseteq P[d] \cup {p}
    BY <1>10, <1>11
  <2>3. ~IsDir(i) => P2[d] \subseteq P[d]
    BY <1>10, <1>11
  <2>4. IsDir(i) => i \in D
    BY <1>2 DEF DirsOf, IsDir
  <2>5. QED BY <2>1, <2>2, <2>3, <2>4
<1>13. F2 \subseteq F
  <2>1. F2 \subseteq Inums
    BY <1>5 DEF Picture
  <2>2. QED BY <1>10, <1>11, <2>1
<1>14. Sound(N, O, D, C2, bitmap, P2, F)
  BY <1>4, <1>5, <1>6, <1>8, <1>9, <1>12, EntryGone
<1>15. Sound(N, O, D, C2, bitmap, P2, F2)
  <2>1. (\A x \in Inums : O[x] = O[x] \/ (O[x] = 0 /\ N[x] <= 0)) /\ \A x \in Inums : P2[x] \subseteq P2[x]
    OBVIOUS
  <2>2. QED BY <1>5, <1>13, <1>14, <2>1, OwnedLess
<1>16. SoundWritten
  BY <1>2, <1>3, <1>15 DEF SoundWritten
<1>17. \A b \in Blocks : b # Block(d) => content'[b] = content[b]
  BY <1>3, <1>6, <1>8 DEF OneEntry
<1>18. QED BY <1>16, <1>17

LEMMA EntryOfEff ==
  ASSUME Inv, Base', NEW p \in Procs, NEW pl, NEW k, NEW c, NEW d, NEW i, NEW f, NEW t,
         NEW e \in Inums, NEW lk \in BOOLEAN, NEW n, NEW s \in Inums,
         NEW how \in {"hold", "unlock", "drop"}, EntryOf(p, pl, k, c, d, i, f, t, e, lk, n, s, how)
  PROVE  EffStays
<1>1. EditOf(p, pl, k, c, d, i, f, t, e, lk, n, s, how) /\ EntryEdit(p, e, lk, n, s, how, t)
  BY DEF EntryOf
<1>2. QED BY <1>1, EntryEff

LEMMA EntryOfInv ==
  ASSUME Inv, Base', NEW p \in Procs, NEW pl, NEW k, NEW c, NEW d, NEW i, NEW f, NEW t,
         NEW e \in Inums, NEW lk \in BOOLEAN, NEW n, NEW s \in Inums,
         NEW how \in {"hold", "unlock", "drop"}, EntryOf(p, pl, k, c, d, i, f, t, e, lk, n, s, how),
         SoundWritten, Apart(p)', AgreeOwn(p)', OwnMade(p)', Knows(p)'
  PROVE  Inv'
<1>1. EditOf(p, pl, k, c, d, i, f, t, e, lk, n, s, how) /\ EntryEdit(p, e, lk, n, s, how, t)
  BY DEF EntryOf
<1>2. QED BY <1>1, EntryInv

LEMMA WhereIn == ASSUME NEW m, NEW i, NEW n PROVE Where(m, i, n) \in SUBSET Nat
<1>1. Where(m, i, n) \subseteq 1..Slots
  BY DEF Where
<1>2. 1..Slots \subseteq Nat
  OBVIOUS
<1>3. QED BY <1>1, <1>2

LEMMA GoneKeeps ==
  ASSUME Inv, Base', NEW p \in Procs, putting[p] = 0, cur[p] = 0, pc[p] = "u_ip",
         UNCHANGED <<dino, bitmap>>, NEW i \in Inums, NEW d \in Inums,
         i = ip[p], d = dp[p], ~mem[i].busy,
         Writes(content, content', Locked(mem, i)[d].ino.blk,
                First(Where(Locked(mem, i), d, NameOf(p))), NoEnt),
         NEW n \in Inode, n = Locked(mem, i)[i].ino,
         NEW pl, NEW w, NEW t, NEW s \in Inums, NEW how \in {"hold", "unlock", "drop"},
         NEW lk \in BOOLEAN,
         EditOf(p, pl, call[p], 0, w, i, fd[p], t, i, lk, n, s, how), GoneTo(p, i, d, pl, w, t, lk, s, how)
  PROVE  Inv'
<1>1. /\ Mine(p, pl, call[p], 0, w, i, fd[p], t, "clear") /\ OthersSame(p) /\ Edits(i, lk, n, s, how, t)
      /\ t \in {0, s} /\ (how = "hold" => t = 0)
  BY DEF EditOf, Edits
<1>2. /\ Points(p, i) /\ Points(p, d) /\ Has(p, d)
      /\ \A x \in Inums : (Has(p, x) <=> x = d) /\ ~Drifts(p, x)
  BY Sizes DEF Points, Has, LocksDp, LocksIp, Making, Drifts
<1>3. i # d /\ mem[d].busy
  BY <1>2, HasIs
<1>4. mem[d].ref > 0 /\ mem[d].ino = Eff(dino, mem, d) /\ n = Eff(dino, mem, i)
  BY <1>2, SeenIs, PointsRef, HasIs
<1>5. IsDir(d) /\ Block(d) # 0
  BY Sizes DEF Inv, Known, Knows
<1>6. PICK u : u = First(Where(mem, d, NameOf(p)))
  OBVIOUS
<1>7. Locked(mem, i)[d].ino = mem[d].ino
  <2>1. CacheOK(mem) /\ DiskTypes
    BY DEF Inv, Types, CacheTypes, CacheOK
  <2>2. LockRel(mem, Locked(mem, i), i)
    BY <2>1, LockedIs, Zenon
  <2>3. QED BY <1>3, <2>2 DEF LockRel, LockRelAt
<1>8. Where(Locked(mem, i), d, NameOf(p)) = Where(mem, d, NameOf(p))
  BY <1>7, Zenon DEF Where, Ino
<1>9. Where(mem, d, NameOf(p)) # {} /\ content[mem[d].ino.blk].ent[u][2] = i
  BY <1>6, Zenon DEF Inv, Known, Knows
<1>10. u \in 1..Slots /\ content[mem[d].ino.blk].ent[u] # NoEnt
  <2>1. Where(mem, d, NameOf(p)) \in SUBSET Nat
    BY WhereIn
  <2>2. u \in Where(mem, d, NameOf(p))
    BY <1>6, <1>9, <2>1, FirstFound
  <2>3. QED BY <1>4, <1>5, <2>2, Zenon DEF Where, Ino, Block
<1>11. mem[d].ino.blk = Block(d) /\ Writes(content, content', Block(d), u, NoEnt)
  <2>1. mem[d].ino.blk = Block(d)
    BY <1>4 DEF Block
  <2>2. QED BY <1>6, <1>7, <1>8, <2>1
<1>12. \/ lk /\ how = "hold" /\ s = i /\ w = d /\ t = 0 /\ pl = "u_dp" /\ IsDir(i)
       \/ lk /\ how = "drop" /\ s = d /\ w = 0 /\ pl = "u_nlink"
  BY DEF GoneTo
<1>13. \A x \in Inums : ~Makes(p, x)' /\ (Pending(p, x)' => x = i \/ (x = d /\ IsDir(i)))
  BY <1>1, <1>12, Sizes DEF Mine, Pending, PendIp, PendDp, Makes, Making
<1>14. SoundWritten /\ \A b \in Blocks : b # Block(d) => content'[b] = content[b]
  BY <1>1, <1>3, <1>4, <1>5, <1>9, <1>10, <1>11, <1>13, GoneSound
<1>15. \A x \in Inums : /\ Points(p, x)' => Points(p, x)
                        /\ Has(p, x)' <=> (how = "hold" /\ x = d) \/ x = i \/ t = x
  BY <1>1, <1>12, Sizes DEF Mine, Points, Has, LocksDp, LocksIp, Making
<1>16. EditPtr(p, i, lk, s, how)
  BY <1>2, <1>12 DEF EditPtr
<1>17. EditLock(p, i, lk, s, how, t)
  BY <1>1, <1>2, <1>3, <1>12, <1>15, Sizes DEF EditLock
<1>18. ContentFrame(p)
  BY <1>2, <1>11, <1>14 DEF ContentFrame
<1>18a. EntryEdit(p, i, lk, n, s, how, t)
  BY <1>1, <1>2, <1>4, <1>15, <1>16, <1>17, <1>18 DEF EntryEdit
<1>19. EntryOf(p, pl, call[p], 0, w, i, fd[p], t, i, lk, n, s, how)
  BY <1>18a DEF EntryOf
<1>20. IsDir(d)' /\ Block(d)' # 0
  <2>1. EffStays
    BY <1>19, EntryOfEff
  <2>2. QED BY <1>5, <2>1 DEF EffStays
<1>21. Apart(p)'
  BY <1>1, <1>3, <1>12, Sizes DEF Mine, Apart, LocksDp, LocksIp, Making
<1>22. AgreeOwn(p)' /\ OwnMade(p)'
  BY <1>1, <1>12 DEF Mine, AgreeOwn, OwnMade, Making
<1>23. Knows(p)'
  BY <1>1, <1>12, <1>20 DEF Mine, Knows
<1>24. QED BY <1>14, <1>19, <1>21, <1>22, <1>23, EntryOfInv

LEMMA GoneInv ==
  ASSUME Inv, NEW p \in Procs, UnlinkEntry(p),
         ~(Ino(Locked(mem, ip[p]), ip[p]).type = "dir" /\ ~Empty(Locked(mem, ip[p]), ip[p]))
  PROVE  Inv'
<1>1. GoneStep(p) /\ Base' /\ putting[p] = 0 /\ dp[p] \in Inums /\ ip[p] \in Inums /\ cur[p] = 0
  BY GoneSteps DEF Inv, Base
<1>2. PICK i, d \in Inums : i = ip[p] /\ d = dp[p]
  BY <1>1
<1>3. /\ pc[p] = "u_ip" /\ UNCHANGED <<dino, bitmap>> /\ ~mem[i].busy
      /\ Writes(content, content', Locked(mem, i)[d].ino.blk,
                First(Where(Locked(mem, i), d, NameOf(p))), NoEnt)
  BY <1>1, <1>2 DEF GoneStep
<1>4. PICK n \in Inode :
        /\ n = Locked(mem, ip[p])[ip[p]].ino
        /\ \/ /\ n.type = "dir"
              /\ EditOf(p, "u_dp", call[p], 0, dp[p], ip[p], fd[p], 0, ip[p], TRUE, n, ip[p], "hold")
           \/ /\ n.type # "dir"
              /\ \E t : EditOf(p, "u_nlink", call[p], 0, 0, ip[p], fd[p], t, ip[p], TRUE, n, dp[p], "drop")
  BY <1>1 DEF GoneStep
<1>5. n = Locked(mem, i)[i].ino
  BY <1>2, <1>4
<1>6. CASE /\ n.type = "dir"
           /\ EditOf(p, "u_dp", call[p], 0, dp[p], ip[p], fd[p], 0, ip[p], TRUE, n, ip[p], "hold")
  <2>1. EditOf(p, "u_dp", call[p], 0, d, i, fd[p], 0, i, TRUE, n, i, "hold")
    BY <1>2, <1>6
  <2>2. IsDir(i)
    <3>1. Points(p, i)
      BY <1>2 DEF Points
    <3>2. n = Eff(dino, mem, i)
      BY <1>1, <1>3, <1>5, <3>1, SeenIs
    <3>3. QED BY <1>6, <3>2 DEF IsDir
  <2>3. GoneTo(p, i, d, "u_dp", d, 0, TRUE, i, "hold")
    BY <2>2 DEF GoneTo
  <2>4. QED BY <1>1, <1>2, <1>3, <1>5, <2>1, <2>3, GoneKeeps
<1>7. CASE \E t : EditOf(p, "u_nlink", call[p], 0, 0, ip[p], fd[p], t, ip[p], TRUE, n, dp[p], "drop")
  <2>1. PICK t : EditOf(p, "u_nlink", call[p], 0, 0, i, fd[p], t, i, TRUE, n, d, "drop")
    BY <1>2, <1>7
  <2>2. GoneTo(p, i, d, "u_nlink", 0, t, TRUE, d, "drop")
    BY DEF GoneTo
  <2>3. QED BY <1>1, <1>2, <1>3, <1>5, <2>1, <2>2, GoneKeeps
<1>8. QED BY <1>4, <1>6, <1>7

-----------------------------------------------------------------------------
(* .. of a new directory. *)

LEMMA UpSound ==
  ASSUME Inv, Base', NEW p \in Procs, OthersSame(p), NEW i \in Inums, i \in InMaking,
         Block(i) # 0, mem[i].ref > 0, bitmap' = bitmap, NEW d \in Inums,
         content' = UpSet(content, Block(i), d),
         \A x \in Inums : (Makes(p, x)' => Makes(p, x)) /\ (Pending(p, x)' => Pending(p, x))
  PROVE  /\ SoundWritten /\ content'[Block(i)].up = d
         /\ \A b \in Blocks : b # Block(i) => content'[b] = content[b]
<1>1. PicWritten /\ Pic
  BY WrittenPic
<1>2. PICK N, O, D, P, F : /\ N = Counts(dino) /\ O = Owned(dino, mem) /\ D = DirsOf(dino, mem)
                           /\ P = Pend /\ F = InMaking
  OBVIOUS
<1>3. PICK C, C2, P2, F2 : C = content /\ C2 = content' /\ P2 = Pend' /\ F2 = InMaking'
  OBVIOUS
<1>4. Picture(N, O, D, C, bitmap, P, F) /\ Sound(N, O, D, C, bitmap, P, F)
  BY <1>1, <1>2, <1>3 DEF Pic, Inv, Tidy
<1>5. Picture(N, O, D, C2, bitmap, P2, F2)
  BY <1>1, <1>2, <1>3 DEF PicWritten
<1>6. O[i] = Block(i) /\ O[i] \in Blocks
  <2>1. O[i] = Block(i)
    BY <1>2, OwnedIs
  <2>2. QED BY <1>4, <2>1 DEF Picture
<1>7. /\ C2[O[i]].up = d /\ C2[O[i]].ent = C[O[i]].ent
      /\ \A a \in Blocks : a # O[i] => C2[a] = C[a]
  <2>1. C \in [Blocks -> DirBlock] /\ C2 = UpSet(C, O[i], d)
    BY <1>3, <1>4, <1>6 DEF Picture
  <2>2. QED BY <1>6, <2>1, UpWritten
<1>8. Owners(O, D, C, bitmap) /\ Tree(O, D, C, F)
  BY <1>4 DEF Sound
<1>9. Owners(O, D, C2, bitmap)
  <2>1. O[i] \in bitmap
    BY <1>6, <1>8, Sizes DEF Owners
  <2>2. \A b \in Blocks \ bitmap : C2[b] = EmptyDir
    BY <1>7, <1>8, <2>1 DEF Owners
  <2>3. QED BY <1>8, <2>2 DEF Owners
<1>10. \A e \in Inums, s \in 1..Slots : Named(O, D, C2, e, s) = Named(O, D, C, e, s)
  <2>1. ASSUME NEW e \in Inums, O[e] # 0 PROVE C2[O[e]].ent = C[O[e]].ent
    <3>1. O[e] \in Blocks
      BY <1>4, <2>1 DEF Picture
    <3>2. QED BY <1>7, <3>1
  <2>2. QED BY <2>1 DEF Named
<1>11. \A e \in Inums, s \in 1..Slots : LET c == Named(O, D, C, e, s) IN
         c # 0 /\ c \in D /\ O[c] # 0 => O[c] # 0 /\ C2[O[c]].up = C[O[c]].up
  <2>1. SUFFICES ASSUME NEW e \in Inums, NEW s \in 1..Slots, NEW c, c = Named(O, D, C, e, s),
                        c # 0, c \in D, O[c] # 0
                 PROVE  C2[O[c]].up = C[O[c]].up
    OBVIOUS
  <2>2. c \notin F
    BY <1>8, <2>1 DEF Tree, Hangs
  <2>3. c # i /\ c \in Inums
    BY <1>2, <1>4, <2>1, <2>2 DEF Picture
  <2>4. O[c] # O[i] /\ O[c] \in Blocks
    BY <1>4, <1>8, <2>1, <2>3 DEF Owners, Picture
  <2>5. QED BY <1>7, <2>4
<1>12. (\A x \in Inums : P2[x] \subseteq P[x]) /\ F2 \subseteq F
  <2>1. \A x \in Inums : /\ P[x] = {q \in Procs : Pending(q, x)} /\ P2[x] = {q \in Procs : Pending(q, x)'}
                         /\ x \in F <=> \E q \in Procs : Makes(q, x)
                         /\ x \in F2 <=> \E q \in Procs : Makes(q, x)'
    BY <1>2, <1>3, PendIs
  <2>2. ASSUME NEW x \in Inums, NEW q \in Procs
        PROVE  (Pending(q, x)' => Pending(q, x)) /\ (Makes(q, x)' => Makes(q, x))
    BY OthersPend
  <2>3. F2 \subseteq Inums
    BY <1>5 DEF Picture
  <2>4. QED BY <2>1, <2>2, <2>3
<1>13. Sound(N, O, D, C2, bitmap, P2, F2)
  <2>1. /\ \A j \in Inums : N[j] > 0 /\ j \in D => j \in D
        /\ \A j \in F2 : j \in F
    BY <1>12
  <2>2. QED BY <1>4, <1>5, <1>9, <1>10, <1>11, <1>12, <2>1, Fewer
<1>14. SoundWritten
  BY <1>2, <1>3, <1>13 DEF SoundWritten
<1>15. content'[Block(i)].up = d /\ \A b \in Blocks : b # Block(i) => content'[b] = content[b]
  BY <1>3, <1>6, <1>7
<1>16. QED BY <1>14, <1>15

LEMMA DotsParentInv ==
  ASSUME Inv, Base', NEW p \in Procs, putting[p] = 0, MakingAt(p), DotsParent(p) PROVE Inv'
<1>1. pc[p] = "c_dotdot" /\ UNCHANGED <<bitmap, dino>>
  BY DEF DotsParent
<1>2. PICK i, d : i = ip[p] /\ d = dp[p]
  OBVIOUS
<1>3. /\ i \in Inums /\ d \in Inums /\ i # d /\ MadeBy(p, i) /\ Points(p, i) /\ Has(p, i) /\ cur[p] = 0
      /\ IsDir(d) /\ Block(d) # 0 /\ \A x \in Inums : Has(p, x) <=> x = d \/ x = i
  BY <1>1, <1>2, MakerSees DEF Making, MakingAt
<1>4. PICK n \in Inode : n = mem[i].ino
  BY <1>3, InodeIs DEF Inv, Base
<1>5. PICK lk \in BOOLEAN, how \in {"hold", "unlock", "drop"} : ~lk /\ how = "hold"
  OBVIOUS
<1>6. EditOf(p, "c_link", call[p], 0, d, i, fd[p], 0, i, lk, n, i, how)
  <2>1. StepOf(p, "c_link", call[p], 0, d, i, fd[p], 0, i, FALSE, FALSE, 0, "hold")
    BY <1>2 DEF DotsParent
  <2>2. EditOf(p, "c_link", call[p], 0, d, i, fd[p], 0, i, FALSE, n, i, "hold")
    BY <1>3, <1>4, <2>1, VisitEdits
  <2>3. lk = FALSE
    BY <1>5
  <2>4. QED BY <1>5, <2>2, <2>3
<1>7. Mine(p, "c_link", call[p], 0, d, i, fd[p], 0, "clear") /\ OthersSame(p) /\ Edits(i, lk, n, i, how, 0)
  BY <1>6 DEF EditOf
<1>8. \A x \in Inums : ~Drifts(p, x)
  BY <1>1, Sizes DEF Drifts
<1>9. n = Eff(dino, mem, i) /\ mem[i].ref > 0 /\ mem[i].ino.blk = Block(i)
  BY <1>3, <1>4, SeenIs DEF Block
<1>10. Block(i) # 0 /\ i \in InMaking
  <2>1. Makes(p, i)
    BY <1>1, <1>2 DEF Makes, Making
  <2>2. QED BY <1>1, <1>2, <1>3, <2>1, PendIs DEF Inv, Known, Knows
<1>11. content' = UpSet(content, Block(i), d)
  BY <1>2, <1>9 DEF DotsParent
<1>12. \A x \in Inums : /\ Pending(p, x)' => Pending(p, x)
                        /\ (Makes(p, x)' => Makes(p, x))
                        /\ (Has(p, x)' <=> Has(p, x)) /\ (Points(p, x)' => Points(p, x))
  BY <1>1, <1>2, <1>3, <1>7, Sizes
  DEF Mine, Pending, PendIp, PendDp, Makes, Making, Has, LocksDp, LocksIp, Points
<1>13. /\ SoundWritten /\ content'[Block(i)].up = d
       /\ \A b \in Blocks : b # Block(i) => content'[b] = content[b]
  BY <1>1, <1>3, <1>7, <1>9, <1>10, <1>11, <1>12, UpSound
<1>14. EditPtr(p, i, lk, i, how) /\ EditLock(p, i, lk, i, how, 0)
  BY <1>1, <1>3, <1>5, <1>8, <1>12 DEF EditPtr, EditLock
<1>15. ContentFrame(p)
  BY <1>3, <1>9, <1>13 DEF ContentFrame
<1>16. EntryEdit(p, i, lk, n, i, how, 0)
  BY <1>1, <1>3, <1>7, <1>8, <1>9, <1>12, <1>14, <1>15 DEF EntryEdit
<1>17. EffStays
  BY <1>3, <1>6, <1>16, EntryEff
<1>18. IsDir(d)' /\ Block(d)' # 0 /\ Block(i)' = Block(i)
  BY <1>3, <1>17 DEF EffStays
<1>19. Apart(p)' /\ AgreeOwn(p)'
  BY <1>3, <1>7 DEF Mine, Apart, AgreeOwn
<1>20. MadeBy(p, i)'
  <2>1. "c_link" \in Making \ {"c_lockip"} /\ dino'[i].type = dino[i].type
    BY <1>1 DEF Making
  <2>2. QED BY <1>1, <1>2, <1>3, <1>7, <2>1, MadeFollows
<1>21. OwnMade(p)'
  BY <1>7, <1>20 DEF Mine, OwnMade
<1>22. Knows(p)'
  <2>1. Block(i)' # 0 /\ content'[Block(i)'].up = d
    BY <1>10, <1>13, <1>18
  <2>2. QED BY <1>7, <1>18, <2>1 DEF Mine, Knows
<1>23. QED BY <1>3, <1>6, <1>13, <1>16, <1>19, <1>21, <1>22, EntryInv

-----------------------------------------------------------------------------
(* The rest of iput. *)

\* What nobody points to is not counted.
LEMMA UnpointedIs == Base => \A x \in Inums : Unpointed(x)
<1> SUFFICES ASSUME Base, NEW x \in Inums, \A q \in Procs : ~Points(q, x) /\ putting[q] # x
             PROVE  mem[x].ref = 0
  BY DEF Unpointed
<1>1. /\ With(fd, x) = {} /\ With(cur, x) = {} /\ With(dp, x) = {} /\ With(ip, x) = {}
      /\ With(putting, x) = {}
  BY DEF With, Points
<1>2. Cardinality({}) = 0
  BY FS_EmptySet
<1>3. RefCounted(x)
  BY RefCountedIs DEF Base
<1>4. QED BY <1>1, <1>2, <1>3 DEF RefCounted

LEMMA PutFacts ==
  ASSUME Inv, NEW p \in Procs, NEW i \in Inums, putting[p] = i
  PROVE  /\ Has(p, i) /\ PutOf(p, i) /\ mem[i].busy /\ mem[i].valid /\ mem[i].ref > 0
         /\ Eff(dino, mem, i) = mem[i].ino /\ Owned(dino, mem)[i] = mem[i].ino.blk
         /\ i # root /\ pc[p] # "w_upd" /\ dino[i].nlink = 0
         /\ \A q \in Procs \ {p} : ~Has(q, i)
         /\ \A q \in Procs : Points(q, i) => stage[p] = "end" /\ Maker(q, i)
<1>1. Has(p, i) /\ PutOf(p, i)
  BY Sizes DEF Has, Inv, Puts
<1>2. /\ mem[i].busy /\ mem[i].valid /\ mem[i].ref > 0
      /\ Eff(dino, mem, i) = mem[i].ino /\ Owned(dino, mem)[i] = mem[i].ino.blk
      /\ \A q \in Procs \ {p} : ~Has(q, i)
  BY <1>1, HasIs
<1>3. dino[i].nlink = 0 /\ \A q \in Procs : Points(q, i) => stage[p] = "end" /\ Maker(q, i)
  BY <1>1 DEF PutOf
<1>4. i # root
  BY <1>3, Linked0
<1>5. pc[p] # "w_upd"
  BY Sizes DEF Inv, Locks, Apart
<1>6. QED BY <1>1, <1>2, <1>3, <1>4, <1>5

LEMMA PutEff ==
  ASSUME Inv, NEW p \in Procs, NEW i \in Inums, putting[p] = i, NEW st, PutRest(p, i, st)
  PROVE  /\ Eff(dino, mem, i)' = mem'[i].ino
         /\ \A x \in Inums \ {i} : EffSame(x)
         /\ \A x \in Inums : mem'[x].ref > 0 <=> mem[x].ref > 0
<1>1. mem[i].ref > 0 /\ mem[i].valid
  BY PutFacts
<1>2. \A x \in Inums : /\ mem'[x].ref = mem[x].ref /\ mem'[x].valid = mem[x].valid
                       /\ x # i => mem'[x].ino = mem[x].ino /\ dino'[x] = dino[x]
  BY DEF PutRest
<1>3. QED BY <1>1, <1>2 DEF Eff, EffSame

LEMMA PutRestInv ==
  ASSUME Inv, Base', NEW p \in Procs, NEW i \in Inums, putting[p] = i, NEW st, PutRest(p, i, st),
         PutOf(p, i)', Tidy', dino'[i].type = "free" => st = "end", AgreeMove(p, i)
  PROVE  Inv'
<1>1. /\ Has(p, i) /\ mem[i].busy /\ i # root /\ pc[p] # "w_upd"
      /\ \A q \in Procs : ~Points(q, i)
  BY PutFacts DEF PutRest
<1>2. Mine(p, pc[p], call[p], cur[p], dp[p], ip[p], fd[p], i, st) /\ OthersSame(p)
  BY DEF PutRest, StaysAt
<1>3. /\ pc'[p] = pc[p] /\ call'[p] = call[p] /\ cur'[p] = cur[p] /\ dp'[p] = dp[p]
      /\ ip'[p] = ip[p] /\ fd'[p] = fd[p] /\ putting'[p] = putting[p] /\ stage'[p] = st
  BY <1>2 DEF Mine
<1>4. ASSUME NEW x \in Inums
      PROVE  /\ mem'[x].ref = mem[x].ref /\ mem'[x].busy = mem[x].busy
             /\ mem'[x].valid = mem[x].valid
             /\ x # i => mem'[x].ino = mem[x].ino /\ dino'[x] = dino[x]
  BY DEF PutRest
<1>5. ASSUME NEW x \in Inums
      PROVE  /\ Has(p, x)' <=> Has(p, x)
             /\ Points(p, x)' <=> Points(p, x)
             /\ Maker(p, x)' <=> Maker(p, x)
             /\ x # i => (Drifts(p, x)' <=> Drifts(p, x))
  BY <1>3 DEF Has, Points, Maker, Drifts
<1>6. ASSUME NEW x \in Inums, x # i PROVE EffKept(x)
  BY <1>6, PutEff DEF EffKept, EffSame
<1>7. ContentFrame(p)
  BY <1>1 DEF ContentFrame, PutRest
<1>8. ASSUME NEW x \in Inums PROVE FrameAt(p, x)
  <2>1. stage[p] # "end"
    BY DEF PutRest
  <2>2. x = i => putting[p] = x /\ Has(p, x)
    BY <1>1
  <2>3. QED BY <1>1, <1>3, <1>4, <1>5, <1>6, <2>1, <2>2 DEF FrameAt
<1>9. Frame(p)
  BY <1>7, <1>8 DEF Frame
<1>10. ASSUME NEW x \in Inums PROVE Move(p, x)
  <2>1. LockMove(p, x)
    BY <1>4, <1>5 DEF LockMove
  <2>2. AgreeMove(p, x)
    BY <1>4, <1>5 DEF AgreeMove
  <2>3. UsedMove(p, x)
    BY <1>3, <1>4 DEF UsedMove
  <2>4. QED BY <2>1, <2>2, <2>3 DEF Move
<1>11. Apart(p)'
  BY <1>3 DEF Inv, Locks, Apart
<1>12. AgreeOwn(p)'
  <2>1. SUFFICES ASSUME pc[p] = "c_dot" PROVE NewBlock(ip[p])'
    BY <1>1, <1>3 DEF AgreeOwn
  <2>2. PICK x \in Inums : x = ip[p]
    BY <2>1, Pointed DEF Inv, Base, PhaseOf, IpSet, UsesIp, Making
  <2>3. x # i
    BY <1>1, <2>2 DEF Points
  <2>4. NewBlock(x)
    BY <2>1, <2>2 DEF Inv, Agree
  <2>5. NewBlock(x)'
    BY <1>4, <2>3, <2>4 DEF NewBlock
  <2>6. QED BY <1>3, <2>2, <2>5
<1>13. OwnMade(p)'
  <2>1. SUFFICES ASSUME pc[p] \in Making PROVE MadeBy(p, ip[p])'
    BY <1>3 DEF OwnMade
  <2>2. PICK x \in Inums : x = ip[p]
    BY <2>1, Pointed DEF Inv, Base, PhaseOf, IpSet, UsesIp
  <2>3. x # i
    BY <1>1, <2>2 DEF Points
  <2>4. MadeBy(p, x)
    BY <2>1, <2>2 DEF Inv, Fresh
  <2>5. ASSUME NEW q \in Procs PROVE (Points(q, x)' <=> Points(q, x)) /\ putting'[q] = putting[q]
    <3>1. CASE q = p
      BY <1>3, <1>5, <3>1
    <3>2. CASE q # p
      BY <1>2, <3>2, SameHolds
    <3>3. QED BY <3>1, <3>2
  <2>6. ip'[p] = x /\ dino'[x] = dino[x]
    BY <1>3, <1>4, <2>2, <2>3
  <2>7. MadeBy(p, x)'
    BY <1>3, <2>4, <2>5, <2>6 DEF MadeBy
  <2>8. QED BY <2>6, <2>7
<1>14. Knows(p)'
  <2>1. SameCall(p)
    BY <1>3 DEF SameCall
  <2>2. ASSUME NEW x \in Inums PROVE SameInode(p, x)
    <3>1. CASE x = i
      BY <1>1, <3>1 DEF SameInode
    <3>2. CASE x # i
      <4>1. EffKept(x) /\ mem'[x].ino = mem[x].ino
        BY <1>4, <1>6, <3>2
      <4>2. ASSUME Has(p, x), mem[x].ino.blk # 0 PROVE content'[mem[x].ino.blk] = content[mem[x].ino.blk]
        <5>1. Owned(dino, mem)[x] = mem[x].ino.blk /\ Owned(dino, mem)[i] = mem[i].ino.blk
          BY <1>1, <4>2, HasIs
        <5>2. mem[x].ino.blk # mem[i].ino.blk
          BY <3>2, <4>2, <5>1 DEF Inv, Tidy, Sound, Owners
        <5>3. mem[x].ino.blk \in Blocks
          BY <4>2, InodeIs DEF Inv, Base, Inode
        <5>4. QED BY <5>2, <5>3 DEF PutRest
      <4>3. QED BY <4>1, <4>2 DEF SameInode
    <3>3. QED BY <3>1, <3>2
  <2>3. QED BY <2>1, <2>2, KnowsStay
<1>15. OwnPut(p)'
  BY <1>3 DEF OwnPut
<1>16. Own(p)'
  BY <1>11, <1>12, <1>13, <1>14, <1>15 DEF Own
<1>17. QED BY <1>2, <1>9, <1>10, <1>16, InvFollows

\* What i owned can go, and i can become free: no entry names it.
LEMMA PutTidy ==
  ASSUME Inv, Base', NEW p \in Procs, NEW i \in Inums, putting[p] = i, NEW st, PutRest(p, i, st),
         PutOf(p, i), PutSafe(i), dino'[i].nlink = 0
  PROVE  Tidy'
<1>1. /\ Owned(dino, mem)[i] = mem[i].ino.blk /\ Eff(dino, mem, i) = mem[i].ino
      /\ mem[i].ref > 0 /\ i # root /\ dino[i].nlink = 0
  BY PutFacts
<1>2. /\ Eff(dino, mem, i)' = mem'[i].ino
      /\ \A x \in Inums \ {i} : EffSame(x)
      /\ \A x \in Inums : mem'[x].ref > 0 <=> mem[x].ref > 0
  BY PutEff
<1>3. \A x \in Inums : x # i => dino'[x] = dino[x]
  BY DEF PutRest
<1>4. Pic /\ Sound(Counts(dino), Owned(dino, mem), DirsOf(dino, mem), content, bitmap, Pend, InMaking)
  BY PicHolds DEF Inv, Tidy
<1>5. (Types => Pic)'
  BY PicHolds, PTL
<1>6. Pic'
  BY <1>5 DEF Base
<1>7. PICK N, O, D, C, P, F : /\ N = Counts(dino) /\ O = Owned(dino, mem) /\ D = DirsOf(dino, mem)
                              /\ C = content /\ P = Pend /\ F = InMaking
  OBVIOUS
<1>8. PICK O2, D2, C2, B2, P2, F2 : /\ O2 = Owned(dino, mem)' /\ D2 = DirsOf(dino, mem)'
                                    /\ C2 = content' /\ B2 = bitmap' /\ P2 = Pend' /\ F2 = InMaking'
  OBVIOUS
<1>9. Counts(dino)' = N
  BY <1>1, <1>3, <1>7 DEF Counts
<1>10. Picture(N, O, D, C, bitmap, P, F) /\ Sound(N, O, D, C, bitmap, P, F)
  BY <1>4, <1>7 DEF Pic
<1>11. Picture(N, O2, D2, C2, B2, P2, F2)
  BY <1>6, <1>8, <1>9 DEF Pic
<1>12. PICK b : b = mem[i].ino.blk
  OBVIOUS
<1>13. O[i] = b /\ O2[i] \in {0, b} /\ N[i] = 0 /\ b \in {0} \cup Blocks
  <2>1. O2[i] = mem'[i].ino.blk
    BY <1>1, <1>2, <1>8 DEF Owned
  <2>2. O[i] = b /\ N[i] = 0
    BY <1>1, <1>7, <1>12 DEF Counts
  <2>3. mem'[i].ino.blk \in {0, b}
    BY <1>12 DEF PutSafe
  <2>4. QED BY <2>1, <2>2, <2>3, <1>10 DEF Picture
<1>14. \A x \in Inums \ {i} : O2[x] = O[x]
  BY <1>2, <1>3, <1>7, <1>8 DEF Owned, EffSame
<1>15. \A x \in Inums \ {i} : x \in D2 <=> x \in D
  BY <1>2, <1>7, <1>8 DEF DirsOf, EffSame
<1>16. i \in D2 => i \in D
  <2>1. mem'[i].ino.type \in {mem[i].ino.type, "free"}
    BY DEF PutSafe
  <2>2. QED BY <1>1, <1>2, <1>7, <1>8, <2>1 DEF DirsOf
<1>17. /\ \A y \in Blocks : y # b => C2[y] = C[y]
       /\ b # 0 => C2[b] = C[b] \/ C2[b] = EmptyDir
  BY <1>7, <1>8, <1>12 DEF PutRest, PutSafe
<1>18. /\ B2 \subseteq bitmap /\ \A y \in bitmap : y \in B2 \/ y = b
       /\ b \notin B2 /\ b # 0 /\ b \in bitmap => C2[b] = EmptyDir /\ O2[i] = 0
       /\ B2 # bitmap => O2[i] = 0
  <2>1. O2[i] = mem'[i].ino.blk
    BY <1>1, <1>2, <1>8 DEF Owned
  <2>2. B2 = bitmap \/ (B2 = bitmap \ {b} /\ O2[i] = 0 /\ (b # 0 => C2[b] = EmptyDir))
    BY <1>8, <1>12, <2>1 DEF PutSafe
  <2>3. QED BY <2>2
<1>19. Owners(O, D, C, bitmap) /\ Counted(N, O, D, C, P)
  BY <1>10 DEF Sound
<1>20. Owners(O2, D2, C2, B2)
  <2>1. ASSUME NEW x \in Inums, O2[x] # 0 PROVE O2[x] \in B2
    <3>1. CASE x = i
      BY <1>13, <1>18, <1>19, <2>1, <3>1 DEF Owners
    <3>2. CASE x # i
      <4>1. O[x] \in bitmap /\ O[x] # 0 /\ O[x] # b
        BY <1>13, <1>14, <1>19, <2>1, <3>2 DEF Owners
      <4>2. QED BY <1>14, <1>18, <3>2, <4>1
    <3>3. QED BY <3>1, <3>2
  <2>2. ASSUME NEW x \in Inums, NEW y \in Inums, x # y, O2[x] # 0 PROVE O2[x] # O2[y]
    <3>1. O2[x] = O[x] /\ O[x] # 0
      BY <1>13, <1>14, <2>2
    <3>2. O[x] # O[y]
      BY <1>19, <2>2, <3>1 DEF Owners
    <3>3. O2[y] = O[y] \/ O2[y] = 0
      BY <1>13, <1>14
    <3>4. QED BY <2>2, <3>1, <3>2, <3>3
  <2>3. ASSUME NEW y \in Blocks \ B2 PROVE C2[y] = EmptyDir
    <3>1. CASE y \notin bitmap
      <4>1. C[y] = EmptyDir
        BY <1>19, <2>3, <3>1 DEF Owners
      <4>2. QED BY <1>17, <2>3, <4>1, Sizes
    <3>2. CASE y \in bitmap
      BY <1>18, <2>3, <3>2, Sizes
    <3>3. QED BY <3>1, <3>2
  <2>4. root \in D2 /\ O2[root] # 0
    BY <1>1, <1>14, <1>15, <1>19, Sizes DEF Owners
  <2>5. QED BY <2>1, <2>2, <2>3, <2>4 DEF Owners
<1>21. ASSUME NEW x \in Inums \ {i}, O[x] # 0 PROVE O2[x] = O[x] /\ C2[O2[x]] = C[O[x]]
  <2>1. O[x] # b /\ O[x] \in Blocks
    BY <1>10, <1>13, <1>19, <1>21 DEF Owners, Picture
  <2>2. QED BY <1>14, <1>17, <2>1
<1>22. ASSUME NEW d \in Inums, NEW s \in 1..Slots, Named(O2, D2, C2, d, s) # 0
       PROVE  Named(O2, D2, C2, d, s) = Named(O, D, C, d, s)
  <2>1. CASE d = i
    <3>1. i \in D2 /\ O2[i] # 0 /\ C2[O2[i]].ent[s] # NoEnt
      BY <1>22, <2>1 DEF Named
    <3>2. O2[i] = b /\ b # 0 /\ i \in D /\ O[i] = b
      BY <1>13, <1>16, <3>1
    <3>3. C2[b] # EmptyDir
      <4>1. EmptyDir.ent[s] = NoEnt
        BY DEF EmptyDir
      <4>2. C2[b].ent[s] # NoEnt
        BY <3>1, <3>2
      <4>3. QED BY <4>1, <4>2
    <3>4. C2[b] = C[b]
      BY <1>17, <3>2, <3>3
    <3>5. QED BY <2>1, <3>1, <3>2, <3>4 DEF Named
  <2>2. CASE d # i
    <3>1. d \in D /\ O2[d] # 0 /\ O[d] = O2[d]
      BY <1>14, <1>15, <1>22, <2>2 DEF Named
    <3>2. C2[O2[d]] = C[O[d]]
      BY <1>21, <2>2, <3>1
    <3>3. QED BY <1>22, <3>1, <3>2 DEF Named
  <2>3. QED BY <2>1, <2>2
<1>23. \A d \in Inums, s \in 1..Slots : LET c == Named(O, D, C, d, s) IN
         c # 0 /\ c \in D /\ O[c] # 0 => O2[c] # 0 /\ C2[O2[c]].up = C[O[c]].up
  <2>1. SUFFICES ASSUME NEW d \in Inums, NEW s \in 1..Slots, NEW c, c = Named(O, D, C, d, s),
                        c # 0, O[c] # 0
                 PROVE  O2[c] # 0 /\ C2[O2[c]].up = C[O[c]].up
    OBVIOUS
  <2>2. c \in Inums /\ N[c] > 0
    BY <1>10, <1>19, <2>1, NamedCounted
  <2>3. c # i
    BY <1>13, <2>2
  <2>4. QED BY <1>21, <2>1, <2>2, <2>3
<1>24. \A x \in Inums : P2[x] = P[x] /\ (x \in F2 <=> x \in F)
  <2>1. Mine(p, pc[p], call[p], cur[p], dp[p], ip[p], fd[p], i, st) /\ OthersSame(p)
    BY DEF PutRest, StaysAt
  <2>2. ASSUME NEW q \in Procs, NEW x
        PROVE  (Pending(q, x)' <=> Pending(q, x)) /\ (Makes(q, x)' <=> Makes(q, x))
    <3>1. CASE q = p
      BY <2>1, <3>1 DEF Mine, Pending, PendIp, PendDp, Makes
    <3>2. CASE q # p
      BY <2>1, <3>2, OthersPend
    <3>3. QED BY <3>1, <3>2
  <2>3. QED BY <1>7, <1>8, <2>2, PendIs
<1>25. /\ \A x \in Inums : N[x] > 0 /\ x \in D2 => x \in D
       /\ \A x \in Inums : P2[x] \subseteq P[x]
       /\ \A x \in F2 : x \in F
  <2>1. F2 \subseteq Inums
    BY <1>11 DEF Picture
  <2>2. QED BY <1>15, <1>16, <1>24, <2>1
<1>26. Sound(N, O2, D2, C2, B2, P2, F2)
  BY <1>10, <1>11, <1>20, <1>22, <1>23, <1>25, Fewer
<1>27. \A x \in Inums : dino'[x].type = "free" => dino'[x].nlink = 0
  BY <1>3 DEF Inv, Tidy
<1>28. QED BY <1>8, <1>9, <1>26, <1>27 DEF Tidy

LEMMA PutClearsInv ==
  ASSUME Inv, Base', NEW p \in Procs, NEW i \in Inums, putting[p] = i, PutClears(p, i)
  PROVE  Inv'
<1>1. /\ PutOf(p, i) /\ mem[i].ref > 0 /\ mem[i].valid /\ dino[i].nlink = 0
      /\ \A q \in Procs : ~Points(q, i)
  BY PutFacts DEF PutClears
<1>2. StaysAt(p, i, "free") /\ dino' = dino /\ bitmap' = bitmap /\ mem' = mem /\ stage[p] = "clear"
      /\ \A b \in Blocks : content'[b] = IF b = mem[i].ino.blk THEN EmptyDir ELSE content[b]
  BY DEF PutClears
<1>3. PutRest(p, i, "free")
  BY <1>2 DEF PutRest
<1>4. mem[i].ino.blk # 0 => content'[mem[i].ino.blk] = EmptyDir
  BY <1>2, InodeIs DEF Inv, Base, Inode
<1>5. PutSafe(i)
  BY <1>1, <1>2, <1>4 DEF PutSafe
<1>6. Tidy'
  BY <1>1, <1>2, <1>3, <1>5, PutTidy
<1>7. PutOf(p, i)'
  <2>1. Mine(p, pc[p], call[p], cur[p], dp[p], ip[p], fd[p], i, "free") /\ OthersSame(p)
    BY <1>2 DEF StaysAt
  <2>2. stage'[p] = "free"
    BY <2>1 DEF Mine
  <2>3. ASSUME NEW q \in Procs PROVE ~Points(q, i)' /\ (q # p => putting'[q] # i)
    <3>1. CASE q = p
      BY <1>1, <2>1, <3>1 DEF Mine, Points
    <3>2. CASE q # p
      BY <1>1, <2>1, <3>2, SameHolds DEF PutOf
    <3>3. QED BY <3>1, <3>2
  <2>4. mem[i].ino.nlink = 0 /\ dino[i].nlink = 0 /\ mem[i].ino.type # "free"
        /\ dino[i].type = mem[i].ino.type
    BY <1>1, <1>2 DEF PutOf
  <2>5. QED BY <1>2, <1>4, <2>2, <2>3, <2>4 DEF PutOf
<1>8. dino'[i].type = "free" => "free" = "end"
  BY <1>1, <1>2 DEF PutOf
<1>9. AgreeMove(p, i)
  <2>1. ~Drifts(p, i)
    BY <1>1, <1>2 DEF Drifts, Points
  <2>2. QED BY <1>1, <1>2, <2>1 DEF AgreeMove
<1>10. QED BY <1>3, <1>6, <1>7, <1>8, <1>9, PutRestInv

LEMMA PutFreesInv ==
  ASSUME Inv, Base', NEW p \in Procs, NEW i \in Inums, putting[p] = i, PutFrees(p, i)
  PROVE  Inv'
<1>1. /\ PutOf(p, i) /\ mem[i].ref > 0 /\ mem[i].valid /\ mem[i].busy /\ dino[i].nlink = 0
      /\ \A q \in Procs : ~Points(q, i)
  BY PutFacts DEF PutFrees
<1>2. StaysAt(p, i, "trunc") /\ dino' = dino /\ content' = content /\ stage[p] = "free"
      /\ bitmap' = bitmap \ {mem[i].ino.blk}
  BY DEF PutFrees
<1>3. PICK n \in Inode : n = [mem[i].ino EXCEPT !.blk = 0, !.size = 0] /\ Edits(i, FALSE, n, i, "hold", 0)
  BY DEF PutFrees
<1>4. n.type = mem[i].ino.type /\ n.nlink = mem[i].ino.nlink /\ n.blk = 0
  BY <1>3, InodeIs DEF Inv, Base, Inode
<1>5. ASSUME NEW x \in Inums
      PROVE  /\ mem'[x].ref = mem[x].ref /\ mem'[x].busy = mem[x].busy
             /\ mem'[x].valid = mem[x].valid
             /\ mem'[x].ino = IF x = i THEN n ELSE mem[x].ino
  <2>1. EditAt(i, FALSE, n, i, "hold", 0, x)
    BY <1>3 DEF Edits
  <2>2. mem[x].busy \in BOOLEAN /\ mem[x].valid \in BOOLEAN
    BY DEF Inv, Types, CacheTypes, Cached
  <2>3. QED BY <2>1, <2>2 DEF EditAt
<1>6. PutRest(p, i, "trunc")
  BY <1>2, <1>5 DEF PutRest
<1>7. stage[p] = "free" /\ mem[i].ino.blk # 0 => content[mem[i].ino.blk] = EmptyDir
  BY <1>1 DEF PutOf
<1>8. PutSafe(i)
  BY <1>1, <1>2, <1>4, <1>5, <1>7 DEF PutSafe
<1>9. Tidy'
  BY <1>1, <1>2, <1>6, <1>8, PutTidy
<1>10. PutOf(p, i)'
  <2>1. Mine(p, pc[p], call[p], cur[p], dp[p], ip[p], fd[p], i, "trunc") /\ OthersSame(p)
    BY <1>2 DEF StaysAt
  <2>2. stage'[p] = "trunc"
    BY <2>1 DEF Mine
  <2>3. ASSUME NEW q \in Procs PROVE ~Points(q, i)' /\ (q # p => putting'[q] # i)
    <3>1. CASE q = p
      BY <1>1, <2>1, <3>1 DEF Mine, Points
    <3>2. CASE q # p
      BY <1>1, <2>1, <3>2, SameHolds DEF PutOf
    <3>3. QED BY <3>1, <3>2
  <2>4. mem'[i].ino = n /\ n.nlink = 0 /\ dino[i].nlink = 0 /\ n.type # "free"
        /\ dino[i].type = n.type
    BY <1>1, <1>2, <1>4, <1>5 DEF PutOf
  <2>5. QED BY <1>2, <1>4, <2>2, <2>3, <2>4 DEF PutOf
<1>11. dino'[i].type = "free" => "trunc" = "end"
  BY <1>1, <1>2 DEF PutOf
<1>12. AgreeMove(p, i)
  <2>1. putting'[p] = i /\ stage'[p] = "trunc"
    BY <1>2 DEF StaysAt, Mine
  <2>2. QED BY <2>1 DEF AgreeMove, Drifts
<1>13. QED BY <1>6, <1>9, <1>10, <1>11, <1>12, PutRestInv

LEMMA PutWritesInv ==
  ASSUME Inv, Base', NEW p \in Procs, NEW i \in Inums, putting[p] = i, PutWrites(p, i)
  PROVE  Inv'
<1>1. /\ PutOf(p, i) /\ mem[i].ref > 0 /\ mem[i].valid
      /\ \A q \in Procs : ~Points(q, i)
  BY PutFacts DEF PutWrites
<1>2. StaysAt(p, i, "type") /\ mem' = mem /\ content' = content /\ bitmap' = bitmap
      /\ stage[p] = "trunc" /\ DinoSet(i, mem[i].ino)
  BY DEF PutWrites
<1>3. dino'[i] = mem[i].ino /\ \A x \in Inums : x # i => dino'[x] = dino[x]
  BY <1>2 DEF DinoSet
<1>4. PutRest(p, i, "type")
  BY <1>2, <1>3 DEF PutRest
<1>5. mem[i].ino.nlink = 0 /\ mem[i].ino.type # "free" /\ mem[i].ino.blk = 0
  BY <1>1, <1>2 DEF PutOf
<1>6. PutSafe(i)
  BY <1>2, <1>3, <1>5 DEF PutSafe
<1>7. Tidy'
  BY <1>1, <1>3, <1>4, <1>5, <1>6, PutTidy
<1>8. PutOf(p, i)'
  <2>1. Mine(p, pc[p], call[p], cur[p], dp[p], ip[p], fd[p], i, "type") /\ OthersSame(p)
    BY <1>2 DEF StaysAt
  <2>2. stage'[p] = "type"
    BY <2>1 DEF Mine
  <2>3. ASSUME NEW q \in Procs PROVE ~Points(q, i)' /\ (q # p => putting'[q] # i)
    <3>1. CASE q = p
      BY <1>1, <2>1, <3>1 DEF Mine, Points
    <3>2. CASE q # p
      BY <1>1, <2>1, <3>2, SameHolds DEF PutOf
    <3>3. QED BY <3>1, <3>2
  <2>4. QED BY <1>2, <1>3, <1>5, <2>2, <2>3 DEF PutOf
<1>9. dino'[i].type = "free" => "type" = "end"
  BY <1>3, <1>5
<1>10. AgreeMove(p, i)
  BY <1>2, <1>3 DEF AgreeMove
<1>11. QED BY <1>4, <1>7, <1>8, <1>9, <1>10, PutRestInv

LEMMA PutTypesInv ==
  ASSUME Inv, Base', NEW p \in Procs, NEW i \in Inums, putting[p] = i, PutTypes(p, i)
  PROVE  Inv'
<1>1. /\ PutOf(p, i) /\ mem[i].ref > 0 /\ mem[i].valid /\ mem[i].busy
      /\ \A q \in Procs : ~Points(q, i)
  BY PutFacts DEF PutTypes
<1>2. StaysAt(p, i, "end") /\ bitmap' = bitmap /\ content' = content /\ stage[p] = "type"
  BY DEF PutTypes
<1>3. PICK n \in Inode : /\ n = [mem[i].ino EXCEPT !.type = "free"]
                         /\ DinoSet(i, n) /\ Edits(i, FALSE, n, i, "hold", 0)
  BY DEF PutTypes
<1>4. n.type = "free" /\ n.nlink = mem[i].ino.nlink /\ n.blk = mem[i].ino.blk
  BY <1>3, InodeIs DEF Inv, Base, Inode
<1>5. ASSUME NEW x \in Inums
      PROVE  /\ mem'[x].ref = mem[x].ref /\ mem'[x].busy = mem[x].busy
             /\ mem'[x].valid = mem[x].valid
             /\ mem'[x].ino = IF x = i THEN n ELSE mem[x].ino
             /\ dino'[x] = IF x = i THEN n ELSE dino[x]
  <2>1. EditAt(i, FALSE, n, i, "hold", 0, x) /\ dino'[x] = IF x = i THEN n ELSE dino[x]
    BY <1>3 DEF Edits, DinoSet
  <2>2. mem[x].busy \in BOOLEAN /\ mem[x].valid \in BOOLEAN
    BY DEF Inv, Types, CacheTypes, Cached
  <2>3. QED BY <2>1, <2>2 DEF EditAt
<1>6. PutRest(p, i, "end")
  BY <1>2, <1>5 DEF PutRest
<1>7. n.nlink = 0 /\ n.blk = 0
  BY <1>1, <1>2, <1>4 DEF PutOf
<1>8. mem'[i].ino = n /\ dino'[i] = n
  BY <1>5
<1>9. PutSafe(i)
  BY <1>2, <1>4, <1>7, <1>8 DEF PutSafe
<1>10. Tidy'
  BY <1>1, <1>6, <1>7, <1>8, <1>9, PutTidy
<1>11. PutOf(p, i)'
  <2>1. Mine(p, pc[p], call[p], cur[p], dp[p], ip[p], fd[p], i, "end") /\ OthersSame(p)
    BY <1>2 DEF StaysAt
  <2>2. stage'[p] = "end"
    BY <2>1 DEF Mine
  <2>3. ASSUME NEW q \in Procs PROVE ~Points(q, i)' /\ (q # p => putting'[q] # i)
    <3>1. CASE q = p
      BY <1>1, <2>1, <3>1 DEF Mine, Points
    <3>2. CASE q # p
      BY <1>1, <2>1, <3>2, SameHolds DEF PutOf
    <3>3. QED BY <3>1, <3>2
  <2>4. QED BY <1>4, <1>7, <1>8, <2>2, <2>3 DEF PutOf
<1>12. AgreeMove(p, i)
  BY <1>8 DEF AgreeMove
<1>13. dino'[i].type = "free" => "end" = "end"
  OBVIOUS
<1>14. QED BY <1>6, <1>10, <1>11, <1>12, <1>13, PutRestInv

\* An inode that is not linked changes, of which no block is owned.
LEMMA TidySame ==
  ASSUME Inv, Base', NEW i \in Inums, i # root, content' = content, bitmap' = bitmap,
         Bare(i), Bare(i)', OtherSame(i), PendSame(i)
  PROVE  Tidy'
<1>1. Pic /\ Sound(Counts(dino), Owned(dino, mem), DirsOf(dino, mem), content, bitmap, Pend, InMaking)
  BY PicHolds DEF Inv, Tidy
<1>2. (Types => Pic)'
  BY PicHolds, PTL
<1>3. Pic'
  BY <1>2 DEF Base
<1>4. PICK N, O, D, P, F : /\ N = Counts(dino) /\ O = Owned(dino, mem) /\ D = DirsOf(dino, mem)
                           /\ P = Pend /\ F = InMaking
  OBVIOUS
<1>5. PICK O2, D2, P2, F2 : O2 = Owned(dino, mem)' /\ D2 = DirsOf(dino, mem)' /\ P2 = Pend' /\ F2 = InMaking'
  OBVIOUS
<1>6. Counts(dino)' = N
  BY <1>4 DEF Counts, OtherSame, Bare
<1>7. Picture(N, O, D, content, bitmap, P, F) /\ Sound(N, O, D, content, bitmap, P, F)
  BY <1>1, <1>4 DEF Pic
<1>8. Picture(N, O2, D2, content, bitmap, P2, F2)
  BY <1>3, <1>5, <1>6 DEF Pic
<1>9. O[i] = 0 /\ O2[i] = 0 /\ N[i] = 0
  BY <1>4, <1>5 DEF Counts, Bare
<1>10. ASSUME NEW x \in Inums PROVE O2[x] = O[x]
  <2>1. CASE x = i
    BY <1>9, <2>1
  <2>2. CASE x # i
    BY <1>4, <1>5, <2>2 DEF Owned, EffSame, OtherSame
  <2>3. QED BY <2>1, <2>2
<1>11. ASSUME NEW x \in Inums, x # i PROVE x \in D2 <=> x \in D
  BY <1>4, <1>5, <1>11 DEF DirsOf, EffSame, OtherSame
<1>12. Owners(O, D, content, bitmap)
  BY <1>7 DEF Sound
<1>13. Owners(O2, D2, content, bitmap)
  BY <1>10, <1>11, <1>12, Sizes DEF Owners
<1>14. ASSUME NEW d \in Inums, NEW s \in 1..Slots
       PROVE  Named(O2, D2, content, d, s) = Named(O, D, content, d, s)
  <2>1. CASE d = i
    BY <1>9, <2>1 DEF Named
  <2>2. CASE d # i
    BY <1>10, <1>11, <2>2 DEF Named
  <2>3. QED BY <2>1, <2>2
<1>15. \A d \in Inums, s \in 1..Slots : LET c == Named(O, D, content, d, s) IN
         c # 0 /\ c \in D /\ O[c] # 0 => O2[c] # 0 /\ content[O2[c]].up = content[O[c]].up
  <2>1. \A c \in D : O2[c] = O[c]
    BY <1>7, <1>10 DEF Picture
  <2>2. QED BY <2>1
<1>16. \A x \in Inums : P2[x] \subseteq P[x] /\ (x \in F2 => x \in F \/ x = i)
  BY <1>4, <1>5, PendIs DEF PendSame
<1>17. /\ \A x \in Inums : N[x] > 0 /\ x \in D2 => x \in D
       /\ \A x \in Inums : P2[x] \subseteq P[x]
       /\ \A x \in F2 : x \in F \/ (N[x] = 0 /\ O2[x] = 0)
  <2>1. F2 \subseteq Inums
    BY <1>8 DEF Picture
  <2>2. QED BY <1>9, <1>11, <1>16, <2>1
<1>18. Sound(N, O2, D2, content, bitmap, P2, F2)
  BY <1>7, <1>8, <1>13, <1>14, <1>15, <1>17, Fewer
<1>19. \A x \in Inums : dino'[x].type = "free" => dino'[x].nlink = 0
  BY DEF Inv, Tidy, OtherSame, Bare
<1>20. QED BY <1>5, <1>6, <1>18, <1>19 DEF Tidy

\* The end of iput: who has got the number meanwhile reads the new inode.
LEMMA PutEndsInv ==
  ASSUME Inv, Base', NEW p \in Procs, NEW i \in Inums, putting[p] = i, PutEnds(p, i)
  PROVE  Inv'
<1>1. /\ Has(p, i) /\ PutOf(p, i) /\ mem[i].busy /\ mem[i].valid /\ mem[i].ref > 0
      /\ Eff(dino, mem, i) = mem[i].ino /\ Owned(dino, mem)[i] = mem[i].ino.blk
      /\ i # root /\ pc[p] # "w_upd" /\ dino[i].nlink = 0
      /\ \A q \in Procs : Points(q, i) => Maker(q, i)
  BY PutFacts
<1>2. StaysAt(p, 0, "clear") /\ dino' = dino /\ bitmap' = bitmap /\ content' = content
      /\ stage[p] = "end" /\ UNCHANGED diskVars
  BY DEF PutEnds, diskVars
<1>3. Mine(p, pc[p], call[p], cur[p], dp[p], ip[p], fd[p], 0, "clear") /\ OthersSame(p)
  BY <1>2 DEF StaysAt
<1>4. /\ pc'[p] = pc[p] /\ call'[p] = call[p] /\ cur'[p] = cur[p] /\ dp'[p] = dp[p]
      /\ ip'[p] = ip[p] /\ fd'[p] = fd[p] /\ putting'[p] = 0 /\ stage'[p] = "clear"
  BY <1>3 DEF Mine
<1>5. ASSUME NEW x \in Inums
      PROVE  /\ mem'[x].ref = IF x = i THEN mem[x].ref - 1 ELSE mem[x].ref
             /\ mem'[x].busy = (x # i /\ mem[x].busy) /\ mem'[x].valid = (x # i /\ mem[x].valid)
             /\ mem'[x].ino = mem[x].ino
  BY DEF PutEnds, EndAt
<1>6. ASSUME NEW x \in Inums, x # i
      PROVE  /\ mem'[x].ref = mem[x].ref /\ mem'[x].busy = mem[x].busy
             /\ mem'[x].valid = mem[x].valid
  <2>1. mem[x].busy \in BOOLEAN /\ mem[x].valid \in BOOLEAN
    BY DEF Inv, Types, CacheTypes, Cached
  <2>2. QED BY <1>5, <1>6, <2>1
<1>7. ~mem'[i].busy /\ ~mem'[i].valid /\ mem'[i].ref = mem[i].ref - 1
  BY <1>5
<1>8. ASSUME NEW x \in Inums
      PROVE  /\ Points(p, x)' <=> Points(p, x)
             /\ Maker(p, x)' <=> Maker(p, x)
             /\ x # i => (Drifts(p, x)' <=> Drifts(p, x)) /\ (Has(p, x)' <=> Has(p, x))
  BY <1>4, Sizes DEF Has, Points, Maker, Drifts
<1>9. ~Has(p, i)'
  <2>1. SUFFICES ASSUME Has(p, i)' PROVE FALSE
    OBVIOUS
  <2>2. (pc[p] \in LocksDp /\ dp[p] = i) \/ (pc[p] \in LocksIp /\ ip[p] = i)
    BY <1>1, <1>4, <2>1, Sizes DEF Has
  <2>3. Maker(p, i)
    BY <1>1, <2>2 DEF Points
  <2>4. QED BY <2>2, <2>3 DEF Maker, LocksIp
<1>10. ASSUME NEW x \in Inums, x # i PROVE EffSame(x)
  BY <1>2, <1>5, <1>6, <1>10 DEF EffSame, Eff
<1>11. Eff(dino, mem, i)' = dino[i]
  BY <1>2, <1>7 DEF Eff
<1>12. mem[i].ino.blk = 0 /\ dino[i].blk = 0
  BY <1>1, <1>2 DEF PutOf
<1>13. ASSUME NEW x \in Inums PROVE FrameAt(p, x)
  <2>1. CASE x = i
    <3>1. \A q \in Procs \ {p} : ~(Points(q, x) /\ ~Maker(q, x))
      BY <1>1, <2>1
    <3>2. QED BY <1>1, <1>2, <1>4, <1>8, <2>1, <3>1, Sizes DEF FrameAt
  <2>2. CASE x # i
    <3>1. EffKept(x)
      BY <1>10, <2>2 DEF EffSame, EffKept
    <3>2. QED BY <1>2, <1>4, <1>5, <1>8, <2>2, <3>1, Sizes DEF FrameAt
  <2>3. QED BY <2>1, <2>2
<1>14. Frame(p)
  BY <1>2, <1>13 DEF Frame, ContentFrame
<1>15. ASSUME mem'[i].ref > 0 PROVE dino[i].type # "free"
  <2>1. (Base => \A x \in Inums : Unpointed(x))'
    BY UnpointedIs, PTL
  <2>2. PICK q \in Procs : Points(q, i)' \/ putting'[q] = i
    BY <1>15, <2>1 DEF Unpointed
  <2>3. putting'[q] # i
    <3>1. CASE q = p
      BY <1>4, <3>1, Sizes
    <3>2. CASE q # p
      BY <1>1, <1>3, <3>2, SameHolds DEF PutOf
    <3>3. QED BY <3>1, <3>2
  <2>4. Points(q, i)
    <3>1. CASE q = p
      BY <1>8, <2>2, <2>3, <3>1
    <3>2. CASE q # p
      BY <1>3, <2>2, <2>3, <3>2, SameHolds
    <3>3. QED BY <3>1, <3>2
  <2>5. Maker(q, i)
    BY <1>1, <2>4
  <2>6. MadeBy(q, i)
    BY <2>5 DEF Maker, Inv, Fresh, Making
  <2>7. QED BY <2>6 DEF MadeBy
<1>16. ASSUME NEW x \in Inums PROVE Move(p, x)
  <2>1. CASE x = i
    <3>1. LockMove(p, x)
      BY <1>1, <1>7, <1>9, <2>1 DEF LockMove
    <3>2. AgreeMove(p, x) /\ UsedMove(p, x)
      BY <1>2, <1>7, <1>15, <2>1 DEF AgreeMove, UsedMove
    <3>3. QED BY <3>1, <3>2 DEF Move
  <2>2. CASE x # i
    <3>1. LockMove(p, x)
      BY <1>6, <1>8, <2>2 DEF LockMove
    <3>2. AgreeMove(p, x)
      BY <1>2, <1>5, <1>6, <1>8, <2>2 DEF AgreeMove
    <3>3. UsedMove(p, x)
      BY <1>2, <1>6, <2>2 DEF UsedMove
    <3>4. QED BY <3>1, <3>2, <3>3 DEF Move
  <2>3. QED BY <2>1, <2>2
<1>17. Apart(p)'
  BY <1>4, Sizes DEF Inv, Locks, Apart
<1>18. AgreeOwn(p)'
  <2>1. SUFFICES ASSUME pc[p] = "c_dot" PROVE NewBlock(ip[p])'
    BY <1>1, <1>4 DEF AgreeOwn
  <2>2. PICK x \in Inums : x = ip[p]
    BY <2>1, Pointed DEF Inv, Base, PhaseOf, IpSet, UsesIp, Making
  <2>4. NewBlock(x)
    BY <2>1, <2>2 DEF Inv, Agree
  <2>5. NewBlock(x)'
    BY <1>2, <1>5, <2>4 DEF NewBlock
  <2>6. QED BY <1>4, <2>2, <2>5
<1>19. ASSUME NEW q \in Procs, NEW x \in Inums
       PROVE  (Points(q, x)' <=> Points(q, x)) /\ (putting'[q] = x => putting[q] = x)
  <2>1. CASE q = p
    BY <1>4, <1>8, <2>1, Sizes
  <2>2. CASE q # p
    BY <1>3, <2>2, SameHolds
  <2>3. QED BY <2>1, <2>2
<1>20. OwnMade(p)'
  <2>1. SUFFICES ASSUME pc[p] \in Making PROVE MadeBy(p, ip[p])'
    BY <1>4 DEF OwnMade
  <2>2. PICK x \in Inums : x = ip[p]
    BY <2>1, Pointed DEF Inv, Base, PhaseOf, IpSet, UsesIp
  <2>3. MadeBy(p, x)
    BY <2>1, <2>2 DEF Inv, Fresh
  <2>4. MadeBy(p, x)'
    BY <1>2, <1>4, <1>19, <2>3 DEF MadeBy
  <2>5. QED BY <1>4, <2>2, <2>4
<1>21. Knows(p)'
  <2>1. SameCall(p)
    BY <1>4 DEF SameCall
  <2>2. ASSUME NEW x \in Inums PROVE SameInode(p, x)
    <3>1. Points(p, x) /\ ~Maker(p, x) => EffKept(x)
      BY <1>1, <1>10 DEF EffSame, EffKept
    <3>2. QED BY <1>2, <1>5, <3>1 DEF SameInode
  <2>3. QED BY <2>1, <2>2, KnowsStay
<1>22. OwnPut(p)'
  BY <1>4 DEF OwnPut
<1>23. Own(p)'
  BY <1>17, <1>18, <1>20, <1>21, <1>22 DEF Own
<1>24. Tidy'
  <2>1. Owned(dino, mem)[i] = 0 /\ Owned(dino, mem)'[i] = 0
    BY <1>1, <1>11, <1>12 DEF Owned
  <2>2. ASSUME NEW q \in Procs, NEW x \in Inums
        PROVE  (Pending(q, x)' => Pending(q, x)) /\ (Makes(q, x)' => Makes(q, x) \/ x = i)
    <3>1. CASE q = p
      BY <1>4, <3>1 DEF Pending, PendIp, PendDp, Makes
    <3>2. CASE q # p
      BY <1>3, <3>2, OthersPend
    <3>3. QED BY <3>1, <3>2
  <2>3. \A x \in Inums \ {i} : /\ EffSame(x) /\ dino'[x] = dino[x]
                               /\ mem'[x].ref > 0 <=> mem[x].ref > 0
    BY <1>2, <1>6, <1>10
  <2>4. Bare(i) /\ Bare(i)' /\ OtherSame(i) /\ PendSame(i)
    <3>1. Bare(i) /\ Bare(i)'
      BY <1>1, <1>2, <2>1 DEF Bare
    <3>2. OtherSame(i)
      BY <2>3 DEF OtherSame
    <3>3. PendSame(i)
      BY <2>2 DEF PendSame
    <3>4. QED BY <3>1, <3>2, <3>3
  <2>5. QED BY <1>1, <1>2, <2>4, TidySame
<1>25. QED BY <1>3, <1>14, <1>16, <1>23, <1>24, InvFollows

LEMMA PutStepInv ==
  ASSUME Inv, NEW p \in Procs, PutStep(p) PROVE Inv'
<1>1. Base
  BY DEF Inv, Base
<1>2. CASE PutClear(p)
  BY <1>1, <1>2, PutClearIs, PutClearsInv
<1>3. CASE PutBfree(p)
  BY <1>1, <1>3, PutBfreeIs, PutFreesInv
<1>4. CASE PutUpdate(p)
  BY <1>1, <1>4, PutUpdateIs, PutWritesInv, PutTypesInv
<1>5. CASE PutEnd(p)
  BY <1>1, <1>5, PutEndIs, PutEndsInv
<1>6. QED BY <1>2, <1>3, <1>4, <1>5 DEF PutStep

-----------------------------------------------------------------------------
(* ialloc *)

\* Nobody has a pointer to an inode that is free on the disk.
LEMMA FreeIs ==
  ASSUME Inv, NEW p \in Procs, NEW i \in Inums, dino[i].type = "free"
  PROVE  /\ \A q \in Procs : ~Points(q, i)
         /\ mem[i].ref > 0 => mem[i].valid /\ mem[i].ino.blk = 0
                              /\ \E q \in Procs : putting[q] = i /\ stage[q] = "end"
         /\ dino[i].nlink = 0 /\ i # root /\ mem[i].ref \in Nat
         /\ (mem[i].busy => mem[i].ref > 0)
<1>1. ASSUME mem[i].ref > 0
      PROVE  /\ \A q \in Procs : ~Points(q, i)
             /\ mem[i].valid /\ mem[i].ino.blk = 0
             /\ \E q \in Procs : putting[q] = i /\ stage[q] = "end"
  <2>1. PICK r \in Procs : putting[r] = i /\ stage[r] = "end"
    BY <1>1 DEF Inv, Used
  <2>2. PutOf(r, i) /\ mem[i].valid /\ \A q \in Procs : Points(q, i) => Maker(q, i)
    BY <2>1, PutFacts
  <2>3. ASSUME NEW q \in Procs, Points(q, i) PROVE FALSE
    <3>1. Maker(q, i)
      BY <2>2, <2>3
    <3>2. MadeBy(q, i)
      BY <3>1 DEF Maker, Inv, Fresh, Making
    <3>3. QED BY <3>2 DEF MadeBy
  <2>4. QED BY <2>1, <2>2, <2>3 DEF PutOf
<1>2. ASSUME NEW q \in Procs, Points(q, i) PROVE FALSE
  <2>1. RefAt(q, i)
    BY RefsHold DEF Inv, Base, Refs
  <2>2. QED BY <1>1, <1>2, <2>1 DEF RefAt
<1>3. dino[i].nlink = 0 /\ i # root
  BY Linked0 DEF Inv, Tidy
<1>4. mem[i].busy => mem[i].ref > 0
  BY HasIs DEF Inv, Locks
<1>5. mem[i].ref \in Nat
  BY RefsHold DEF Inv, Base, Refs, RefAt
<1>6. QED BY <1>1, <1>2, <1>3, <1>4, <1>5

LEMMA CreateAllocInv ==
  ASSUME Inv, NEW p \in Procs, CreateAlloc(p) PROVE Inv'
<1>1. Base
  BY DEF Inv, Base
<1>2. /\ Base' /\ pc[p] = "c_alloc" /\ putting[p] = 0 /\ MakingAt(p)
      /\ UNCHANGED <<bitmap, content>>
  BY <1>1, CreateAllocSteps
<1>3. PICK i \in Inums, n \in Inode :
        /\ dino[i].type = "free" /\ DinoSet(i, n)
        /\ n.type = (IF call[p].kind = "mkdir" THEN "dir" ELSE "file")
        /\ n.nlink = 0 /\ n.blk = 0
        /\ StepOf(p, "c_lockip", call[p], 0, dp[p], i, fd[p], 0, dp[p], FALSE, FALSE, i, "hold")
  BY <1>1, CreateAllocSteps
<1>4. /\ \A q \in Procs : ~Points(q, i)
      /\ mem[i].ref > 0 => mem[i].valid /\ mem[i].ino.blk = 0
                           /\ \E q \in Procs : putting[q] = i /\ stage[q] = "end"
      /\ dino[i].nlink = 0 /\ i # root /\ mem[i].ref \in Nat
      /\ (mem[i].busy => mem[i].ref > 0)
  BY <1>3, FreeIs
<1>5. PICK d \in Inums : d = dp[p]
  BY <1>2 DEF MakingAt
<1>6. /\ Mine(p, "c_lockip", call[p], 0, d, i, fd[p], 0, "clear") /\ OthersSame(p)
      /\ \A x \in Inums : VisitAt(d, FALSE, FALSE, i, "hold", 0, x)
  BY <1>3, <1>5 DEF StepOf, Visits
<1>7. /\ pc'[p] = "c_lockip" /\ call'[p] = call[p] /\ cur'[p] = 0 /\ dp'[p] = d
      /\ ip'[p] = i /\ fd'[p] = fd[p] /\ putting'[p] = 0 /\ stage'[p] = "clear"
      /\ cur[p] = 0 /\ fd[p] # i /\ d # i /\ d # 0 /\ i # 0
  BY <1>2, <1>4, <1>5, <1>6, Sizes DEF Mine, MakingAt, Points
<1>8. Has(p, d) /\ mem[d].ref > 0 /\ mem[d].valid /\ Points(p, d)
  <2>1. Has(p, d) /\ Points(p, d)
    BY <1>2, <1>5 DEF Has, LocksDp, Points
  <2>2. QED BY <2>1, HasIs
<1>9. ASSUME NEW x \in Inums
      PROVE  /\ mem'[x].ref = IF x = i THEN mem[x].ref + 1 ELSE mem[x].ref
             /\ mem'[x].busy = mem[x].busy /\ mem'[x].ino = mem[x].ino
             /\ mem'[x].valid = (mem[x].valid /\ (x = i => mem[x].ref > 0))
             /\ dino'[x] = IF x = i THEN n ELSE dino[x]
  <2>1. VisitAt(d, FALSE, FALSE, i, "hold", 0, x) /\ mem[x].ref \in Nat
        /\ mem[x].busy \in BOOLEAN /\ mem[x].valid \in BOOLEAN
    BY <1>6, RefsHold DEF Inv, Base, Refs, RefAt, Types, CacheTypes, Cached
  <2>2. One(x = d /\ FALSE) = 0 /\ One(x = d /\ "hold" \in {"drop", "put"} /\ 0 = 0) = 0
        /\ Hit(i, x) = IF x = i THEN 1 ELSE 0
    BY DEF One, Hit
  <2>3. mem'[x].ref = IF x = i THEN mem[x].ref + 1 ELSE mem[x].ref
    BY <2>1, <2>2 DEF VisitAt
  <2>4. mem'[x].busy = mem[x].busy /\ mem'[x].ino = mem[x].ino
    BY <2>1 DEF VisitAt
  <2>5. mem'[x].valid = (mem[x].valid /\ (x = i => mem[x].ref > 0))
    BY <1>7, <2>1 DEF VisitAt
  <2>6. QED BY <1>3, <2>3, <2>4, <2>5 DEF DinoSet
<1>10. ASSUME NEW x \in Inums, x # i
       PROVE  /\ mem'[x].ref = mem[x].ref /\ mem'[x].valid = mem[x].valid
              /\ dino'[x] = dino[x] /\ EffSame(x)
  <2>1. mem'[x].ref = mem[x].ref /\ mem'[x].valid = mem[x].valid /\ mem'[x].ino = mem[x].ino
        /\ dino'[x] = dino[x]
    <3>1. mem[x].valid \in BOOLEAN
      BY DEF Inv, Types, CacheTypes, Cached
    <3>2. QED BY <1>9, <1>10, <3>1
  <2>2. QED BY <2>1 DEF EffSame, Eff
<1>11. dino'[i] = n /\ mem'[i].ref = mem[i].ref + 1 /\ mem'[i].ino = mem[i].ino
       /\ mem'[i].valid = (mem[i].valid /\ mem[i].ref > 0) /\ n.type # "free"
  BY <1>3, <1>9
<1>12. Alloc(p, i)
  BY <1>3, <1>7, <1>11, Sizes DEF Alloc, Maker
<1>13. ASSUME NEW x \in Inums
       PROVE  /\ Has(p, x)' <=> Has(p, x)
              /\ Points(p, x)' => Points(p, x) \/ x = i
              /\ ~Maker(p, x) /\ ~Drifts(p, x)
  BY <1>2, <1>5, <1>7, Sizes DEF Has, LocksDp, LocksIp, Making, Points, Maker, Drifts
<1>14. ASSUME NEW x \in Inums PROVE FrameAt(p, x)
  <2>1. CASE x = i
    BY <1>4, <1>7, <1>9, <1>12, <1>13, <2>1 DEF FrameAt
  <2>2. CASE x # i
    <3>1. EffKept(x)
      BY <1>10, <2>2 DEF EffSame, EffKept
    <3>2. QED BY <1>7, <1>9, <1>10, <1>13, <2>2, <3>1, Sizes DEF FrameAt
  <2>3. QED BY <2>1, <2>2
<1>15. Frame(p)
  BY <1>2, <1>14 DEF Frame, ContentFrame
<1>16. ASSUME mem'[i].valid PROVE \E q \in Procs \ {p} : Drifts(q, i)'
  <2>1. mem[i].ref > 0
    BY <1>11, <1>16
  <2>2. PICK q \in Procs : putting[q] = i /\ stage[q] = "end"
    BY <1>4, <2>1
  <2>3. q # p
    BY <1>2, <1>7, <2>2
  <2>4. putting'[q] = i /\ stage'[q] = "end"
    BY <1>6, <2>2, <2>3, SameHolds
  <2>5. QED BY <2>3, <2>4 DEF Drifts
<1>17. ASSUME NEW x \in Inums PROVE Move(p, x)
  <2>1. LockMove(p, x)
    BY <1>4, <1>9, <1>10, <1>13 DEF LockMove
  <2>2. AgreeMove(p, x) /\ UsedMove(p, x)
    <3>1. CASE x = i
      BY <1>11, <1>16, <3>1 DEF AgreeMove, UsedMove
    <3>2. CASE x # i
      BY <1>2, <1>7, <1>9, <1>10, <1>13, <3>2, Sizes DEF AgreeMove, UsedMove
    <3>3. QED BY <3>1, <3>2
  <2>3. QED BY <2>1, <2>2 DEF Move
<1>18. Apart(p)' /\ AgreeOwn(p)' /\ OwnPut(p)'
  BY <1>7 DEF Apart, LocksIp, AgreeOwn, OwnPut
<1>19. ASSUME NEW q \in Procs PROVE Points(q, i)' => q = p
  <2>1. CASE q # p
    BY <1>4, <1>6, <2>1, SameHolds
  <2>2. QED BY <2>1
<1>20. OwnMade(p)'
  <2>1. MadeBy(p, i)'
    BY <1>3, <1>4, <1>7, <1>11, <1>19, Sizes DEF MadeBy
  <2>2. QED BY <1>7, <2>1 DEF OwnMade
<1>21. Knows(p)'
  <2>1. IsDir(d) /\ Block(d) # 0
    BY <1>5, <1>7 DEF Inv, Known, Knows
  <2>2. EffSame(d)
    BY <1>7, <1>10
  <2>3. IsDir(d)' /\ Block(d)' # 0
    BY <2>1, <2>2 DEF EffSame, IsDir, Block
  <2>4. QED BY <1>7, <2>3 DEF Knows
<1>22. Own(p)'
  BY <1>18, <1>20, <1>21 DEF Own
<1>23. Tidy'
  <2>1. Owned(dino, mem)[i] = 0 /\ Owned(dino, mem)'[i] = 0
    <3>1. mem[i].ref > 0 => Eff(dino, mem, i).blk = 0
      BY <1>4 DEF Eff
    <3>2. Eff(dino, mem, i)'.blk = 0
      <4>1. CASE mem'[i].valid
        <5>1. mem[i].ref > 0
          BY <1>11, <4>1
        <5>2. QED BY <1>4, <1>11, <4>1, <5>1 DEF Eff
      <4>2. CASE ~mem'[i].valid
        BY <1>3, <1>11, <4>2 DEF Eff
      <4>3. QED BY <4>1, <4>2
    <3>3. QED BY <1>4, <3>1, <3>2 DEF Owned
  <2>2. ASSUME NEW q \in Procs, NEW x \in Inums
        PROVE  (Pending(q, x)' => Pending(q, x)) /\ (Makes(q, x)' => Makes(q, x) \/ x = i)
    <3>1. CASE q = p
      BY <1>7, <3>1 DEF Pending, PendIp, PendDp, Makes
    <3>2. CASE q # p
      BY <1>6, <3>2, OthersPend
    <3>3. QED BY <3>1, <3>2
  <2>3. \A x \in Inums \ {i} : /\ EffSame(x) /\ dino'[x] = dino[x]
                               /\ mem'[x].ref > 0 <=> mem[x].ref > 0
    BY <1>10
  <2>4. dino'[i].nlink = 0 /\ content' = content /\ bitmap' = bitmap
    BY <1>2, <1>3, <1>11
  <2>5. Bare(i) /\ Bare(i)' /\ OtherSame(i) /\ PendSame(i)
    <3>1. Bare(i) /\ Bare(i)'
      BY <1>4, <2>1, <2>4 DEF Bare
    <3>2. OtherSame(i)
      BY <2>3 DEF OtherSame
    <3>3. PendSame(i)
      BY <2>2 DEF PendSame
    <3>4. QED BY <3>1, <3>2, <3>3
  <2>6. QED BY <1>4, <2>4, <2>5, <1>2, TidySame
<1>24. QED BY <1>2, <1>6, <1>15, <1>17, <1>22, <1>23, InvFollows

-----------------------------------------------------------------------------
(* A process enters the kernel; the machine starts and stops. *)

LEMMA BeginInv ==
  ASSUME Inv, Base', NEW p \in Procs, NEW pl, NEW k, BeginsAt(p, pl, k)
  PROVE  Inv'
<1>1. /\ pc[p] = "idle" /\ putting[p] = 0 /\ cur[p] = 0 /\ dp[p] = 0 /\ ip[p] = 0
      /\ Mine(p, pl, k, 0, 0, 0, fd[p], 0, "clear") /\ OthersSame(p)
      /\ pl \in Walks /\ UNCHANGED <<diskVars, mem>> /\ (k.kind = "link" => pl = "walk")
  BY DEF BeginsAt
<1>2. /\ pc'[p] = pl /\ call'[p] = k /\ cur'[p] = 0 /\ dp'[p] = 0
      /\ ip'[p] = 0 /\ fd'[p] = fd[p] /\ putting'[p] = 0 /\ stage'[p] = "clear"
  BY <1>1 DEF Mine
<1>3. dino' = dino /\ content' = content /\ bitmap' = bitmap /\ mem' = mem /\ UNCHANGED diskVars
  BY <1>1 DEF diskVars
<1>4. \A x \in Inums : EffSame(x)
  BY <1>3 DEF EffSame, Eff
<1>5. ASSUME NEW x \in Inums
      PROVE  /\ ~Has(p, x)' /\ ~Has(p, x) /\ ~Maker(p, x) /\ ~Drifts(p, x)
             /\ Points(p, x)' => Points(p, x)
             /\ ~Pending(p, x)' /\ ~Makes(p, x)'
  BY <1>1, <1>2, Sizes DEF Has, LocksDp, LocksIp, Making, Walks, Maker, Drifts, Points, Pending,
                           PendIp, PendDp, Makes
<1>6. ASSUME NEW x \in Inums PROVE FrameAt(p, x)
  <2>1. EffKept(x)
    BY <1>4 DEF EffSame, EffKept
  <2>2. QED BY <1>2, <1>3, <1>5, <2>1, Sizes DEF FrameAt
<1>7. Frame(p)
  BY <1>3, <1>6 DEF Frame, ContentFrame
<1>8. ASSUME NEW x \in Inums PROVE Move(p, x)
  <2>1. LockMove(p, x)
    BY <1>3, <1>5 DEF LockMove
  <2>2. AgreeMove(p, x) /\ UsedMove(p, x)
    BY <1>1, <1>3, <1>5, Sizes DEF AgreeMove, UsedMove
  <2>3. QED BY <2>1, <2>2 DEF Move
<1>9. Own(p)'
  <2>1. Apart(p)' /\ AgreeOwn(p)' /\ OwnPut(p)' /\ OwnMade(p)'
    BY <1>1, <1>2 DEF Apart, LocksDp, LocksIp, Making, Walks, AgreeOwn, OwnPut, OwnMade
  <2>2. Knows(p)'
    BY <1>1, <1>2 DEF Knows, Walks
  <2>3. QED BY <2>1, <2>2 DEF Own
<1>10. Tidy'
  <2>1. \A x \in Inums : mem'[x].ref > 0 => mem[x].ref > 0 \/ dino[x].nlink > 0
    BY <1>3
  <2>2. QED BY <1>1, <1>3, <1>4, <1>5, <2>1, TidyStays
<1>11. QED BY <1>1, <1>7, <1>8, <1>9, <1>10, InvFollows

\* When nothing is under way only the disk matters.
LEMMA BlankInv == Base /\ Blank /\ Tidy => Inv
<1> SUFFICES ASSUME Base, Blank, Tidy PROVE Inv
  OBVIOUS
<1>1. ASSUME NEW q \in Procs
      PROVE  pc[q] = "idle" /\ cur[q] = 0 /\ dp[q] = 0 /\ ip[q] = 0 /\ fd[q] = 0 /\ putting[q] = 0
  BY DEF Blank, All
<1>2. ASSUME NEW x \in Inums PROVE mem[x].ref = 0 /\ ~mem[x].busy /\ ~mem[x].valid
  BY DEF Blank, EmptyCache, Uncached
<1>3. ASSUME NEW q \in Procs, NEW x \in Inums PROVE ~Has(q, x)
  BY <1>1, Sizes DEF Has, LocksDp, LocksIp, Making
<1>4. Locks
  <2>1. \A q \in Procs : Apart(q)
    BY <1>1 DEF Apart, LocksDp, LocksIp, Making
  <2>2. /\ \A i \in Inums : mem[i].busy <=> \E q \in Procs : Has(q, i)
        /\ \A i \in Inums : mem[i].busy => mem[i].valid
        /\ \A q, r \in Procs, i \in Inums : Has(q, i) /\ Has(r, i) => q = r
    BY <1>2, <1>3
  <2>3. QED BY <2>1, <2>2 DEF Locks
<1>5. Agree /\ Used /\ Puts /\ Fresh
  BY <1>1, <1>2 DEF Agree, Used, Puts, Fresh, Making
<1>6. Known
  BY <1>1 DEF Known, Knows
<1>7. QED BY <1>4, <1>5, <1>6 DEF Inv, Base

\* An inode with links, on the disk and with its copy.
LEMMA EffDisk ==
  ASSUME Inv, NEW x \in Inums, dino[x].nlink > 0
  PROVE  /\ Eff(dino, mem, x).type = dino[x].type
         /\ dino[x].blk # 0 => dino[x].blk = Eff(dino, mem, x).blk
         /\ dino[x].type = "dir" /\ x \notin InMaking => dino[x].blk = Eff(dino, mem, x).blk
<1>1. CASE ~(mem[x].ref > 0 /\ mem[x].valid)
  BY <1>1 DEF Eff
<1>2. CASE (mem[x].ref > 0 /\ mem[x].valid) /\ \A q \in Procs : ~Drifts(q, x)
  BY <1>2 DEF Eff, Inv, Agree
<1>3. CASE (mem[x].ref > 0 /\ mem[x].valid) /\ \E q \in Procs : Drifts(q, x)
  <2>1. PICK q \in Procs : Drifts(q, x)
    BY <1>3
  <2>2. putting[q] # x
    BY PutFacts
  <2>3. (pc[q] = "w_upd" /\ fd[q] = x) \/ (pc[q] = "c_dot" /\ ip[q] = x)
    BY <2>1, <2>2 DEF Drifts
  <2>4. NewBlock(x) /\ (dino[x].type # "file" => pc[q] = "c_dot" /\ ip[q] = x)
    BY <2>3 DEF Inv, Agree
  <2>5. dino[x].type # "file" => x \in InMaking
    BY <2>4 DEF InMaking, Making
  <2>6. mem[x].ino.type = dino[x].type /\ dino[x].blk = 0
    <3>1. dino[x] \in Inode
      BY DEF Inv, Types, DiskTypes
    <3>2. QED BY <2>4, <3>1 DEF NewBlock, Inode
  <2>7. QED BY <1>3, <2>5, <2>6 DEF Eff
<1>4. QED BY <1>1, <1>2, <1>3

LEMMA CrashTidy ==
  ASSUME Inv, Base', Blank', UNCHANGED diskVars PROVE Tidy'
<1>1. dino' = dino /\ content' = content /\ bitmap' = bitmap
  BY DEF diskVars
<1>2. Pic /\ Sound(Counts(dino), Owned(dino, mem), DirsOf(dino, mem), content, bitmap, Pend, InMaking)
  BY PicHolds DEF Inv, Tidy
<1>3. (Types => Pic)'
  BY PicHolds, PTL
<1>4. Pic'
  BY <1>3 DEF Base
<1>5. PICK N, O, D, P, F : /\ N = Counts(dino) /\ O = Owned(dino, mem) /\ D = DirsOf(dino, mem)
                           /\ P = Pend /\ F = InMaking
  OBVIOUS
<1>6. PICK O2, D2, P2, F2 : O2 = Owned(dino, mem)' /\ D2 = DirsOf(dino, mem)' /\ P2 = Pend' /\ F2 = InMaking'
  OBVIOUS
<1>7. Counts(dino)' = N
  BY <1>1, <1>5 DEF Counts
<1>8. Picture(N, O, D, content, bitmap, P, F) /\ Sound(N, O, D, content, bitmap, P, F)
  BY <1>2, <1>5 DEF Pic
<1>9. Picture(N, O2, D2, content, bitmap, P2, F2)
  BY <1>1, <1>4, <1>6, <1>7 DEF Pic
<1>10. ASSUME NEW x \in Inums PROVE Eff(dino, mem, x)' = dino[x] /\ ~(mem'[x].ref > 0)
  <2>1. mem'[x].ref = 0
    BY DEF Blank, EmptyCache, Uncached
  <2>2. QED BY <1>1, <2>1 DEF Eff
<1>11. ASSUME NEW x \in Inums PROVE N[x] = dino[x].nlink /\ N[x] \in Int
  BY <1>5, <1>8 DEF Counts, Picture
<1>12. ASSUME NEW x \in Inums
       PROVE  /\ O2[x] = IF N[x] > 0 THEN dino[x].blk ELSE 0
              /\ x \in D2 <=> dino[x].type = "dir"
  BY <1>1, <1>6, <1>10, <1>11 DEF Owned, DirsOf
<1>13. ASSUME NEW x \in Inums, N[x] > 0
       PROVE  /\ x \in D2 <=> x \in D
              /\ O2[x] # 0 => O2[x] = O[x]
              /\ x \in D /\ x \notin F => O2[x] = O[x]
  <2>1. /\ Eff(dino, mem, x).type = dino[x].type
        /\ dino[x].blk # 0 => dino[x].blk = Eff(dino, mem, x).blk
        /\ dino[x].type = "dir" /\ x \notin InMaking => dino[x].blk = Eff(dino, mem, x).blk
    BY <1>11, <1>13, EffDisk
  <2>2. O[x] = Eff(dino, mem, x).blk
    BY <1>5, <1>11, <1>13 DEF Owned
  <2>3. QED BY <1>5, <1>12, <1>13, <2>1, <2>2 DEF DirsOf
<1>14. /\ Owners(O, D, content, bitmap) /\ Counted(N, O, D, content, P) /\ Tree(O, D, content, F)
  BY <1>8 DEF Sound
<1>15. N[root] > 0 /\ root \notin F
  BY <1>5, <1>11, Linked0, Sizes
<1>16. \A x \in Inums : O2[x] # 0 => N[x] > 0 /\ O2[x] = O[x]
  BY <1>12, <1>13
<1>17. Owners(O2, D2, content, bitmap)
  <2>1. root \in D2 /\ O2[root] # 0
    BY <1>13, <1>14, <1>15, Sizes DEF Owners
  <2>2. \A i \in Inums : O2[i] # 0 => O2[i] \in bitmap
    BY <1>14, <1>16 DEF Owners
  <2>3. ASSUME NEW i \in Inums, NEW j \in Inums, i # j, O2[i] # 0 PROVE O2[i] # O2[j]
    <3>1. O[i] # 0 /\ O2[i] = O[i] /\ O[i] # O[j]
      BY <1>14, <1>16, <2>3 DEF Owners
    <3>2. O2[j] = 0 \/ O2[j] = O[j]
      BY <1>16
    <3>3. QED BY <2>3, <3>1, <3>2
  <2>4. QED BY <1>14, <2>1, <2>2, <2>3 DEF Owners
<1>18. ASSUME NEW d \in Inums, NEW s \in 1..Slots, Named(O2, D2, content, d, s) # 0
       PROVE  Named(O2, D2, content, d, s) = Named(O, D, content, d, s)
  <2>1. d \in D2 /\ O2[d] # 0
    BY <1>18 DEF Named
  <2>2. d \in D /\ O2[d] = O[d]
    BY <1>13, <1>16, <2>1
  <2>3. QED BY <2>1, <2>2 DEF Named
<1>19. \A d \in Inums, s \in 1..Slots : LET c == Named(O, D, content, d, s) IN
         c # 0 /\ c \in D /\ O[c] # 0 => O2[c] # 0 /\ content[O2[c]].up = content[O[c]].up
  <2>1. SUFFICES ASSUME NEW d \in Inums, NEW s \in 1..Slots, NEW c, c = Named(O, D, content, d, s),
                        c # 0, c \in D, O[c] # 0
                 PROVE  O2[c] = O[c]
    OBVIOUS
  <2>2. c \in Inums /\ N[c] > 0
    BY <1>8, <1>14, <2>1, NamedCounted
  <2>3. c \notin F
    BY <1>14, <2>1 DEF Tree, Hangs
  <2>4. QED BY <1>13, <2>1, <2>2, <2>3
<1>20. ASSUME NEW q \in Procs PROVE pc'[q] = "idle"
  BY DEF Blank, All
<1>21. F2 = {} /\ \A x \in Inums : P2[x] \subseteq P[x]
  <2>1. ASSUME NEW q \in Procs, NEW x \in Inums PROVE ~Pending(q, x)' /\ ~Makes(q, x)'
    BY <1>20 DEF Pending, PendIp, PendDp, Makes, Making
  <2>2. F2 \subseteq Inums
    BY <1>9 DEF Picture
  <2>3. QED BY <1>5, <1>6, <2>1, <2>2, PendIs
<1>22. /\ \A x \in Inums : N[x] > 0 /\ x \in D2 => x \in D
       /\ \A x \in F2 : x \in F
  BY <1>13, <1>21
<1>23. Sound(N, O2, D2, content, bitmap, P2, F2)
  BY <1>8, <1>9, <1>17, <1>18, <1>19, <1>21, <1>22, Fewer
<1>24. \A i \in Inums : dino'[i].type = "free" => dino'[i].nlink = 0
  BY <1>1 DEF Inv, Tidy
<1>25. QED BY <1>1, <1>6, <1>7, <1>23, <1>24 DEF Tidy

LEMMA CrashInv ==
  ASSUME Inv, Crash PROVE Inv'
<1>1. Base' /\ Blank' /\ UNCHANGED diskVars
  BY CrashBase DEF Inv, Base
<1>2. Tidy'
  BY <1>1, CrashTidy
<1>3. (Base /\ Blank /\ Tidy => Inv)'
  BY BlankInv, PTL
<1>4. QED BY <1>1, <1>2, <1>3

-----------------------------------------------------------------------------
(* The disk that mkfs has made. *)

LEMMA ImageIs ==
  ASSUME NEW img \in Images
  PROVE  /\ img.dino \in [Inums -> Inode] /\ img.bitmap \subseteq Blocks
         /\ img.content \in [Blocks -> DirBlock]
         /\ \A b \in Blocks \ img.bitmap : img.content[b] = EmptyDir
         /\ \A i \in Inums : img.dino[i].type = "free" => img.dino[i].nlink = 0
         /\ root \in ImgDirs(img)
         /\ \A i, j \in Inums : img.dino[i].nlink > 0 /\ img.dino[i].blk # 0 =>
              /\ img.dino[i].blk \in img.bitmap
              /\ img.dino[j].nlink > 0 /\ i # j => img.dino[j].blk # img.dino[i].blk
         /\ \A x \in ImgEntries(img) :
              /\ ImgChild(img, x) # root
              /\ img.dino[ImgChild(img, x)].type = "dir" =>
                   /\ ImgChild(img, x) \in ImgDirs(img)
                   /\ img.content[img.dino[ImgChild(img, x)].blk].up = x[1]
                   /\ \A y \in ImgEntries(img) : ImgChild(img, y) = ImgChild(img, x) => y = x
         /\ \A S \in SUBSET ImgDirs(img) : S # {} =>
              \E d \in S : \A x \in ImgEntries(img) : x[1] = d => ImgChild(img, x) \notin S
         /\ \A i \in Inums : img.dino[i].nlink >=
              Cardinality(ImgNames(img, i)) + Cardinality(ImgSubs(img, i))
              + (IF i = root THEN 1 ELSE 0)
<1>1. Consistent(img)
  BY InodesAssumption
<1>2. /\ img.dino \in [Inums -> Inode] /\ img.bitmap \subseteq Blocks
      /\ img.content \in [Blocks -> DirBlock]
      /\ \A b \in Blocks \ img.bitmap : img.content[b] = EmptyDir
      /\ \A i \in Inums : img.dino[i].type = "free" => img.dino[i].nlink = 0
  BY <1>1, Zenon DEF Consistent
<1>3. root \in ImgDirs(img)
  BY <1>1, Zenon DEF Consistent, ImgDirs
<1>4. \A i, j \in Inums : img.dino[i].nlink > 0 /\ img.dino[i].blk # 0 =>
              /\ img.dino[i].blk \in img.bitmap
              /\ img.dino[j].nlink > 0 /\ i # j => img.dino[j].blk # img.dino[i].blk
  <2>1. \A i \in {i \in Inums : img.dino[i].nlink > 0} : img.dino[i].blk # 0 =>
          /\ img.dino[i].blk \in img.bitmap
          /\ \A j \in {k \in Inums : img.dino[k].nlink > 0} \ {i} : img.dino[j].blk # img.dino[i].blk
    BY <1>1, Zenon DEF Consistent
  <2>2. QED BY <2>1, Zenon
<1>5. \A x \in ImgEntries(img) :
              /\ ImgChild(img, x) # root
              /\ img.dino[ImgChild(img, x)].type = "dir" =>
                   /\ ImgChild(img, x) \in ImgDirs(img)
                   /\ img.content[img.dino[ImgChild(img, x)].blk].up = x[1]
                   /\ \A y \in ImgEntries(img) : ImgChild(img, y) = ImgChild(img, x) => y = x
  BY <1>1, Zenon DEF Consistent, ImgEntries, ImgChild, ImgDirs
<1>6. \A i \in Inums : img.dino[i].nlink >=
              Cardinality(ImgNames(img, i)) + Cardinality(ImgSubs(img, i))
              + (IF i = root THEN 1 ELSE 0)
  BY <1>1, Zenon DEF Consistent, ImgNames, ImgSubs, ImgEntries, ImgChild, ImgDirs
<1>7. \A S \in SUBSET ImgDirs(img) : S # {} =>
              \E d \in S : \A x \in ImgEntries(img) : x[1] = d => ImgChild(img, x) \notin S
  BY <1>1, Zenon DEF Consistent, ImgEntries, ImgChild, ImgDirs
<1>8. QED BY <1>2, <1>3, <1>4, <1>5, <1>6, <1>7, Zenon

LEMMA InitTidy ==
  ASSUME Init, Base, Blank PROVE Tidy
<1>1. PICK img \in Images : dino = img.dino /\ bitmap = img.bitmap /\ content = img.content
  BY DEF Init
<1>2. PICK N, O, D, P, F : /\ N = Counts(dino) /\ O = Owned(dino, mem) /\ D = DirsOf(dino, mem)
                           /\ P = Pend /\ F = InMaking
  OBVIOUS
<1>3. Picture(N, O, D, content, bitmap, P, F)
  BY <1>2, PicHolds DEF Base, Pic
<1>4. ASSUME NEW x \in Inums PROVE Eff(dino, mem, x) = dino[x] /\ ~(mem[x].ref > 0)
  <2>1. mem[x].ref = 0
    BY DEF Blank, EmptyCache, Uncached
  <2>2. QED BY <2>1 DEF Eff
<1>5. ASSUME NEW x \in Inums
      PROVE  /\ N[x] = dino[x].nlink /\ N[x] \in Int
             /\ O[x] = IF dino[x].nlink > 0 THEN dino[x].blk ELSE 0
             /\ x \in D <=> dino[x].type = "dir"
             /\ x \in ImgDirs(img) <=> dino[x].nlink > 0 /\ dino[x].type = "dir" /\ dino[x].blk # 0
  BY <1>1, <1>2, <1>3, <1>4 DEF Counts, Owned, DirsOf, Picture, ImgDirs
<1>6. ASSUME NEW x \in Inums PROVE x \in ImgDirs(img) <=> x \in D /\ O[x] # 0
  BY <1>5
<1>7. ASSUME NEW x \in Inums, x \in ImgDirs(img) PROVE O[x] = dino[x].blk
  BY <1>5, <1>7
<1>8. ImgDirs(img) \subseteq Inums
  BY DEF ImgDirs
<1>9. ASSUME NEW d \in Inums, NEW s \in 1..Slots
      PROVE  /\ Named(O, D, content, d, s) # 0 => <<d, s>> \in ImgEntries(img)
             /\ <<d, s>> \in ImgEntries(img) =>
                  ImgChild(img, <<d, s>>) = Named(O, D, content, d, s)
  BY <1>1, <1>6, <1>7 DEF Named, ImgEntries, ImgChild
<1>10. ASSUME NEW i \in Inums
       PROVE  NamesOf(O, D, content, i) = ImgNames(img, i) /\ SubDirs(O, D, content, i) = ImgSubs(img, i)
  <2>1. i # 0 /\ 0 \notin Inums
    BY Sizes
  <2>2. ASSUME NEW x \in Inums \X (1..Slots)
        PROVE  Named(O, D, content, x[1], x[2]) = i <=> x \in ImgEntries(img) /\ ImgChild(img, x) = i
    <3>1. PICK d \in Inums, s \in 1..Slots : x = <<d, s>>
      OBVIOUS
    <3>2. QED BY <1>9, <2>1, <3>1
  <2>3. ImgEntries(img) \subseteq Inums \X (1..Slots)
    BY <1>8 DEF ImgEntries
  <2>4. NamesOf(O, D, content, i) = ImgNames(img, i)
    BY <2>2, <2>3 DEF NamesOf, ImgNames
  <2>5. ASSUME NEW c \in Inums
        PROVE  c \in SubDirs(O, D, content, i) <=> c \in ImgSubs(img, i)
    <3>1. c \in D <=> img.dino[c].type = "dir"
      BY <1>1, <1>5
    <3>2. ASSUME NEW s \in 1..Slots, Named(O, D, content, i, s) = c
          PROVE  \E x \in ImgEntries(img) : x[1] = i /\ ImgChild(img, x) = c
      BY <1>9, <2>1, <3>2
    <3>3. ASSUME NEW x \in ImgEntries(img), x[1] = i, ImgChild(img, x) = c
          PROVE  \E s \in 1..Slots : Named(O, D, content, i, s) = c
      <4>1. PICK d \in Inums, s \in 1..Slots : x = <<d, s>>
        BY <2>3
      <4>2. QED BY <1>9, <3>3, <4>1
    <3>4. QED BY <3>1, <3>2, <3>3 DEF SubDirs, ImgSubs
  <2>6. D \subseteq Inums
    BY <1>3 DEF Picture
  <2>7. SubDirs(O, D, content, i) = ImgSubs(img, i)
    BY <2>5, <2>6 DEF SubDirs, ImgSubs
  <2>8. QED BY <2>4, <2>7
<1>11. ASSUME NEW q \in Procs PROVE pc[q] = "idle"
  BY DEF Blank, All
<1>12. F = {} /\ \A x \in Inums : P[x] = {}
  <2>1. ASSUME NEW q \in Procs, NEW x \in Inums PROVE ~Pending(q, x) /\ ~Makes(q, x)
    BY <1>11 DEF Pending, PendIp, PendDp, Makes, Making
  <2>2. F \subseteq Inums
    BY <1>3 DEF Picture
  <2>3. QED BY <1>2, <2>1, <2>2, PendIs
<1>13. Owners(O, D, content, bitmap)
  <2>1. root \in D /\ O[root] # 0
    BY <1>6, ImageIs, Sizes
  <2>2. ASSUME NEW i \in Inums, NEW j \in Inums, O[i] # 0
        PROVE  O[i] \in bitmap /\ (i # j => O[i] # O[j])
    <3>1. dino[i].nlink > 0 /\ dino[i].blk # 0 /\ O[i] = dino[i].blk
      BY <1>5, <2>2
    <3>2. dino[i].blk \in bitmap /\ (dino[j].nlink > 0 /\ i # j => dino[j].blk # dino[i].blk)
      BY <1>1, <3>1, ImageIs
    <3>3. O[j] = 0 \/ (dino[j].nlink > 0 /\ O[j] = dino[j].blk)
      BY <1>5
    <3>4. QED BY <2>2, <3>1, <3>2, <3>3
  <2>3. \A b \in Blocks \ bitmap : content[b] = EmptyDir
    BY <1>1, ImageIs
  <2>4. QED BY <2>1, <2>2, <2>3 DEF Owners
<1>14. Counted(N, O, D, content, P)
  <2>1. ASSUME NEW i \in Inums
        PROVE  N[i] >= Cardinality(NamesOf(O, D, content, i)) + Cardinality(SubDirs(O, D, content, i))
                       + Cardinality(P[i]) + Due(i)
    <3>1. N[i] >= Cardinality(ImgNames(img, i)) + Cardinality(ImgSubs(img, i)) + Due(i)
      BY <1>1, <1>5, ImageIs DEF Due
    <3>2. Cardinality(P[i]) = 0
      BY <1>12, FS_EmptySet
    <3>3. /\ Cardinality(NamesOf(O, D, content, i)) \in Nat
          /\ Cardinality(SubDirs(O, D, content, i)) \in Nat
      BY <1>3, PictureFinite
    <3>4. QED BY <1>10, <3>1, <3>2, <3>3 DEF Due
  <2>2. QED BY <2>1 DEF Counted
<1>15. Tree(O, D, content, F)
  <2>1. ASSUME NEW d \in Inums, NEW s \in 1..Slots, NEW c,
               c = Named(O, D, content, d, s), c # 0
        PROVE  Hangs(O, D, content, F, d, s, c)
    <3>1. <<d, s>> \in ImgEntries(img) /\ ImgChild(img, <<d, s>>) = c
      BY <1>9, <2>1
    <3>2. /\ c # root
          /\ img.dino[c].type = "dir" =>
                   /\ c \in ImgDirs(img)
                   /\ img.content[img.dino[c].blk].up = d
                   /\ \A y \in ImgEntries(img) : ImgChild(img, y) = c => y = <<d, s>>
      BY <3>1, ImageIs
    <3>3. ASSUME c \in D
          PROVE  /\ O[c] # 0 /\ content[O[c]].up = d
                 /\ \A e \in Inums, t \in 1..Slots :
                      Named(O, D, content, e, t) = c => e = d /\ t = s
      <4>1. c \in Inums
        BY <1>3, <3>3 DEF Picture
      <4>2. img.dino[c].type = "dir"
        BY <1>1, <1>5, <3>3, <4>1
      <4>3. O[c] # 0 /\ content[O[c]].up = d
        BY <1>1, <1>6, <1>7, <3>2, <4>1, <4>2
      <4>4. ASSUME NEW e \in Inums, NEW t \in 1..Slots, Named(O, D, content, e, t) = c
            PROVE  e = d /\ t = s
        <5>1. <<e, t>> \in ImgEntries(img) /\ ImgChild(img, <<e, t>>) = c
          BY <1>9, <2>1, <4>4
        <5>2. <<e, t>> = <<d, s>>
          BY <3>2, <4>2, <5>1
        <5>3. QED BY <5>2
      <4>5. QED BY <4>3, <4>4
    <3>4. QED BY <1>12, <3>2, <3>3 DEF Hangs
  <2>2. QED BY <2>1 DEF Tree
<1>16. \A i \in Inums : dino[i].type = "free" => dino[i].nlink = 0
  BY <1>1, ImageIs
<1>17. NoCircle(O, D, content)
  <2>1. ASSUME NEW S \in SUBSET Inums, NEW c \in S, \A d \in S : d \in ImgDirs(img)
        PROVE  \E d \in S : \A s \in 1..Slots : Named(O, D, content, d, s) \notin S
    <3>1. PICK d \in S : \A x \in ImgEntries(img) : x[1] = d => ImgChild(img, x) \notin S
      BY <2>1, ImageIs
    <3>2. ASSUME NEW s \in 1..Slots PROVE Named(O, D, content, d, s) \notin S
      BY <1>9, <3>1, Sizes
    <3>3. QED BY <3>2
  <2>2. ASSUME NEW S \in SUBSET Inums, NEW c \in S, c \notin ImgDirs(img)
        PROVE  \E d \in S : \A s \in 1..Slots : Named(O, D, content, d, s) \notin S
    <3>1. \A s \in 1..Slots : Named(O, D, content, c, s) = 0
      BY <1>6, <2>2 DEF Named
    <3>2. QED BY <3>1, Sizes
  <2>3. QED BY <2>1, <2>2 DEF NoCircle
<1>18. QED BY <1>2, <1>12, <1>13, <1>14, <1>15, <1>16, <1>17 DEF Tidy, Sound

LEMMA InitInv == Init => Inv
<1>1. SUFFICES ASSUME Init PROVE Inv
  OBVIOUS
<1>2. Base /\ Blank
  BY <1>1, InitBase
<1>3. QED BY <1>1, <1>2, InitTidy, BlankInv

-----------------------------------------------------------------------------
(* Every step keeps the invariant. *)

LEMMA NextInv == Inv /\ [Next]_vars => Inv'
<1>1. SUFFICES ASSUME Inv, [Next]_vars PROVE Inv'
  OBVIOUS
<1>2. CASE UNCHANGED vars
  <2>1. /\ UNCHANGED <<dino, bitmap, content, mem, pc, call, cur, dp, ip, fd, putting, stage>>
    BY <1>2 DEF vars, diskVars, locals, putVars
  <2>2. Types' /\ Phases' /\ RefsCounted'
    BY <1>1, <2>1
    DEF Inv, Types, DiskTypes, CacheTypes, LocalTypes, Phases, PhaseOf, RefsCounted
  <2>3. Locks'
    BY <1>1, <2>1 DEF Inv, Locks, Has, Apart
  <2>4. Agree' /\ Used'
    BY <1>1, <2>1 DEF Inv, Agree, Used, Drifts, NewBlock
  <2>5. Puts' /\ Fresh'
    BY <1>1, <2>1 DEF Inv, Puts, PutOf, Maker, Points, Fresh, MadeBy
  <2>6. Tidy'
    <3>1. /\ Counts(dino)' = Counts(dino) /\ Owned(dino, mem)' = Owned(dino, mem)
          /\ DirsOf(dino, mem)' = DirsOf(dino, mem)
      BY <2>1
    <3>2. Pend' = Pend /\ InMaking' = InMaking
      BY <2>1 DEF Pend, PendIp, PendDp, InMaking
    <3>3. QED BY <1>1, <2>1, <3>1, <3>2 DEF Inv, Tidy
  <2>7. Known'
    <3>1. ASSUME NEW q \in Procs PROVE Knows(q)'
      <4>1. Knows(q)
        BY <1>1 DEF Inv, Known
      <4>2. QED BY <2>1, <4>1, ZenonT(40) DEF Knows, IsDir, Block, Eff, NameOf, Where, Ino
    <3>2. QED BY <3>1 DEF Known
  <2>8. QED BY <2>2, <2>3, <2>4, <2>5, <2>6, <2>7 DEF Inv
<1>3. CASE Crash
  BY <1>1, <1>3, CrashInv
<1>4. ASSUME NEW p \in Procs, PutStep(p) PROVE Inv'
  BY <1>1, <1>4, PutStepInv
<1>5. ASSUME NEW p \in Procs, CreateStep(p) PROVE Inv'
  <2>1. CASE CreateLock(p) \/ CreateExists(p) \/ CreateAlloc(p) \/ CreateEnd(p)
    BY <1>1, <2>1, CreateLockInv, CreateExistsInv, CreateAllocInv, CreateEndInv
  <2>2. CASE CreateLink1(p) \/ CreateParent(p) \/ CreateDirlink(p) \/ CreateExtend(p)
    BY <1>1, <2>2, CreateLink1Inv, CreateParentInv, DirlinkInv, ExtendInv
  <2>3. CASE CreateDots(p)
    <3>1. /\ DotsBlock(p) \/ DotsInode(p) \/ DotsParent(p)
          /\ Base' /\ putting[p] = 0 /\ MakingAt(p)
      BY <1>1, <2>3, CreateDotsSteps DEF Inv, Base
    <3>2. QED BY <1>1, <3>1, DotsBlockInv, DotsInodeInv, DotsParentInv
  <2>4. QED BY <1>5, <2>1, <2>2, <2>3 DEF CreateStep
<1>6. ASSUME NEW p \in Procs, LinkStep(p) PROVE Inv'
  <2>1. CASE LinkOld(p)
    BY <1>1, <2>1, LinkOldInv, LinkOldFailInv
  <2>2. CASE LinkNew(p) \/ LinkNewLock(p) \/ LinkEnd(p)
    BY <1>1, <2>2, LinkNewInv, LinkNewLockInv, LinkEndInv
  <2>3. CASE LinkDirlink(p) \/ LinkExtend(p) \/ LinkBad(p)
    BY <1>1, <2>3, DirlinkInv, ExtendInv, LinkBadInv
  <2>4. QED BY <1>6, <2>1, <2>2, <2>3 DEF LinkStep
<1>7. ASSUME NEW p \in Procs, UnlinkStep(p) PROVE Inv'
  <2>1. CASE UnlinkEntry(p)
    BY <1>1, <2>1, GoneInv, NotEmptyInv
  <2>2. CASE UnlinkLookup(p) \/ UnlinkFail(p)
    BY <1>1, <2>2, UnlinkLookupInv, UnlinkFailInv
  <2>3. CASE UnlinkParent(p) \/ UnlinkNlink(p)
    BY <1>1, <2>3, UnlinkParentInv, UnlinkNlinkInv
  <2>4. QED BY <1>7, <2>1, <2>2, <2>3 DEF UnlinkStep
<1>8. ASSUME NEW p \in Procs, Kernel(p) PROVE Inv'
  BY <1>1, <1>4, <1>5, <1>6, <1>7, <1>8, WalkInv, OpenLockInv, WriteUpdateInv DEF Kernel
<1>9. ASSUME NEW p \in Procs, Close(p) \/ WriteBlock(p) PROVE Inv'
  BY <1>1, <1>9, CloseInv, WriteBlockInv
<1>10. ASSUME NEW p \in Procs, NEW kind \in Kinds, NEW path \in Paths, NEW new \in Paths,
              Begin(p, kind, path, new)
       PROVE  Inv'
  <2>1. Base' /\ \E pl, k : BeginsAt(p, pl, k)
    BY <1>1, <1>10, BeginIs DEF Inv, Base
  <2>2. QED BY <1>1, <2>1, BeginInv
<1>11. QED BY <1>1, <1>2, <1>3, <1>8, <1>9, <1>10 DEF Next

\* The inductive invariant holds in every state: each call of sysfile.c, each
\* write of fs.c and each crash keeps the locks, the copies and the tree as they
\* have to be for the next one.
THEOREM Invariant == Spec => []Inv
  BY InitInv, NextInv, PTL DEF Spec

-----------------------------------------------------------------------------
(* The copies, and what the disk shows. *)

LEMMA CopiesAre == Inv => CopiesAgree
<1>1. SUFFICES ASSUME Inv, NEW i \in Inums, mem[i].ref > 0, ~mem[i].busy
               PROVE  IF mem[i].valid THEN mem[i].ino = dino[i] ELSE dino[i].type # "free"
  BY DEF CopiesAgree
<1>2. \A p \in Procs : ~Has(p, i)
  BY <1>1 DEF Inv, Locks
<1>3. \A p \in Procs : ~Drifts(p, i) /\ putting[p] # i
  BY <1>2 DEF Has, Drifts, LocksIp
<1>4. mem[i].valid => mem[i].ino = dino[i]
  BY <1>1, <1>3 DEF Inv, Agree
<1>5. dino[i].type # "free"
  BY <1>1, <1>3 DEF Inv, Used
<1>6. QED BY <1>4, <1>5

\* A copy in the cache that no call has locked is the inode on the disk, and
\* one that is still to be read is not free there: ilock never meets a free
\* inode, and nobody sees the copy of an inode that iput has freed and ialloc
\* has taken again.
THEOREM CopiesAreTheDisk == Spec => []CopiesAgree
  BY Invariant, CopiesAre, PTL

LEMMA OnDisk ==
  ASSUME Inv, NEW i \in Inums, dino[i].nlink > 0
  PROVE  /\ i \in DirsOf(dino, mem) <=> dino[i].type = "dir"
         /\ dino[i].blk # 0 => dino[i].blk = Owned(dino, mem)[i]
         /\ dino[i].type = "dir" /\ i \notin InMaking => dino[i].blk = Owned(dino, mem)[i]
<1>1. Owned(dino, mem)[i] = Eff(dino, mem, i).blk
  BY DEF Owned
<1>2. i \in DirsOf(dino, mem) <=> Eff(dino, mem, i).type = "dir"
  BY DEF DirsOf
<1>3. QED BY <1>1, <1>2, EffDisk

LEMMA EntryShown ==
  ASSUME Inv, NEW d, d \in Complete, NEW s, s \in Entries(d)
  PROVE  /\ s \in 1..Slots /\ Child(d, s) \in Complete \ {root} /\ Child(d, s) = NamedNow(d, s)
         /\ dino[Child(d, s)].type = "dir" => content[dino[Child(d, s)].blk].up = d
<1>1. d \in Inums /\ dino[d].nlink > 0
  BY DEF Complete
<1>2. /\ s \in 1..Slots /\ dino[d].type = "dir" /\ dino[d].blk # 0
      /\ content[dino[d].blk].ent[s] # NoEnt
  BY DEF Entries
<1>3. d \in DirsOf(dino, mem) /\ dino[d].blk = Owned(dino, mem)[d]
  BY <1>1, <1>2, OnDisk
<1>4. Child(d, s) = NamedNow(d, s)
  BY <1>2, <1>3 DEF Child, NamedNow, Named
<1>5. NamedNow(d, s) # 0
  <2>1. dino[d].blk \in Blocks
    BY <1>1, <1>2 DEF Inv, Types, DiskTypes, Inode
  <2>2. content[dino[d].blk].ent[s] \in Names \X Inums
    <3>1. PICK x \in DirBlock : x = content[dino[d].blk]
      BY <2>1 DEF Inv, Types, DiskTypes
    <3>2. x.ent[s] \in {NoEnt} \cup (Names \X Inums)
      BY <1>2 DEF DirBlock
    <3>3. QED BY <1>2, <3>1, <3>2
  <2>3. Child(d, s) \in Inums
    BY <2>2 DEF Child
  <2>4. QED BY <1>4, <2>3, Sizes
<1>6. PICK c : c = NamedNow(d, s)
  OBVIOUS
<1>7. c \in Inums /\ dino[c].nlink > 0 /\ c \notin InMaking /\ c # root
  BY <1>1, <1>2, <1>5, <1>6, NamedLinked DEF NamedNow
<1>8. Hangs(Owned(dino, mem), DirsOf(dino, mem), content, InMaking, d, s, c)
  BY <1>1, <1>2, <1>5, <1>6 DEF Inv, Tidy, Sound, Tree, NamedNow
<1>9. dino[c].type = "dir" => dino[c].blk # 0 /\ content[dino[c].blk].up = d
  BY <1>7, <1>8, OnDisk DEF Hangs
<1>10. c \in Complete
  BY <1>1, <1>2, <1>6, <1>7, <1>9 DEF Complete
<1>11. QED BY <1>2, <1>4, <1>6, <1>7, <1>9, <1>10

LEMMA ReachComplete == Inv => Reach \subseteq Complete
<1>1. SUFFICES ASSUME Inv PROVE Reach \subseteq Complete
  OBVIOUS
<1>2. root \in Complete
  <2>1. dino[root].nlink > 0 /\ root \notin InMaking /\ root \in Inums
    BY <1>1, Linked0, Sizes
  <2>2. root \in DirsOf(dino, mem) /\ Owned(dino, mem)[root] # 0
    BY <1>1 DEF Inv, Tidy, Sound, Owners
  <2>3. dino[root].type = "dir" => dino[root].blk # 0
    BY <1>1, <2>1, <2>2, OnDisk
  <2>4. QED BY <2>1, <2>3 DEF Complete
<1>3. \A d \in Complete : \A s \in Entries(d) : Child(d, s) \in Complete
  BY <1>1, EntryShown
<1>4. Complete \in SUBSET Inums
  BY DEF Complete
<1>5. QED BY <1>2, <1>3, <1>4 DEF Reach

\* At least as many links are counted as can be found.
LEMMA LinksCounted ==
  ASSUME Inv, NEW i \in Inums
  PROVE  dino[i].nlink >= LinksTo(i)
<1>1. PICK named : named = {x \in Reach \X (1..Slots) : x[2] \in Entries(x[1]) /\ Child(x[1], x[2]) = i}
  OBVIOUS
<1>2. PICK below : below = {d \in Reach \ {root} : dino[d].type = "dir" /\ content[dino[d].blk].up = i}
  OBVIOUS
<1>3. PICK names : names = NamesOf(Owned(dino, mem), DirsOf(dino, mem), content, i)
  OBVIOUS
<1>4. PICK subs : subs = SubDirs(Owned(dino, mem), DirsOf(dino, mem), content, i)
  OBVIOUS
<1>5. Reach \subseteq Complete /\ Complete \subseteq Inums
  BY ReachComplete DEF Complete
<1>6. named \subseteq names
  <2>1. ASSUME NEW x \in named PROVE x \in names
    <3>1. /\ x \in Reach \X (1..Slots) /\ x[2] \in Entries(x[1]) /\ Child(x[1], x[2]) = i
      BY <1>1, <2>1
    <3>2. x[1] \in Complete /\ x \in Inums \X (1..Slots)
      BY <1>5, <3>1
    <3>3. NamedNow(x[1], x[2]) = i
      BY <3>1, <3>2, EntryShown
    <3>4. QED BY <1>3, <3>2, <3>3 DEF NamesOf, NamedNow
  <2>2. QED BY <2>1
<1>7. below \subseteq subs
  <2>1. ASSUME NEW c \in below PROVE c \in subs
    <3>1. c \in Complete /\ c # root /\ dino[c].type = "dir" /\ content[dino[c].blk].up = i
      BY <1>2, <1>5, <2>1
    <3>2. PICK d \in Inums, s \in 1..Slots : NamedNow(d, s) = c
      BY <3>1 DEF Complete
    <3>3. c \in Inums /\ c # 0 /\ dino[c].nlink > 0 /\ c \notin InMaking
      BY <3>1, Sizes DEF Complete
    <3>4. c \in DirsOf(dino, mem) /\ dino[c].blk = Owned(dino, mem)[c]
      BY <3>1, <3>3, OnDisk
    <3>5. Hangs(Owned(dino, mem), DirsOf(dino, mem), content, InMaking, d, s, c)
      BY <3>2, <3>3 DEF Inv, Tidy, Sound, Tree, NamedNow
    <3>6. d = i
      BY <3>1, <3>4, <3>5 DEF Hangs
    <3>7. QED BY <1>4, <3>2, <3>4, <3>6 DEF SubDirs, NamedNow
  <2>2. QED BY <2>1
<1>8. /\ IsFiniteSet(names) /\ Cardinality(names) \in Nat /\ IsFiniteSet(subs) /\ Cardinality(subs) \in Nat
      /\ IsFiniteSet(Pend[i]) /\ Cardinality(Pend[i]) \in Nat /\ dino[i].nlink \in Int /\ Due(i) \in 0..1
  BY <1>3, <1>4, PicHolds, PictureFinite DEF Inv, Pic, Counts
<1>9. Cardinality(named) \in Nat /\ Cardinality(named) <= Cardinality(names)
  BY <1>6, <1>8, SetSizes
<1>10. Cardinality(below) \in Nat /\ Cardinality(below) <= Cardinality(subs)
  BY <1>7, <1>8, SetSizes
<1>11. dino[i].nlink >= Cardinality(names) + Cardinality(subs) + Cardinality(Pend[i]) + Due(i)
  BY <1>3, <1>4 DEF Inv, Tidy, Sound, Counted, Counts
<1>12. LinksTo(i) = Cardinality(named) + Cardinality(below) + Due(i)
  BY <1>1, <1>2 DEF LinksTo, Due
<1>13. QED BY <1>8, <1>9, <1>10, <1>11, <1>12

LEMMA ImageIsSound == Inv => ImageSound
<1>1. SUFFICES ASSUME Inv, NEW i \in Reach
               PROVE  /\ dino[i].type # "free"
                      /\ dino[i].nlink >= LinksTo(i)
                      /\ dino[i].blk # 0 => /\ dino[i].blk \in bitmap
                                            /\ \A j \in Reach \ {i} : dino[j].blk # dino[i].blk
                      /\ dino[i].type = "dir" => dino[i].blk # 0
                      /\ \A s \in Entries(i) : dino[Child(i, s)].type = "dir" =>
                           content[dino[Child(i, s)].blk].up = i
  BY DEF ImageSound
<1>2. Reach \subseteq Complete
  BY <1>1, ReachComplete
<1>3. i \in Complete /\ i \in Inums /\ dino[i].nlink > 0 /\ (dino[i].type = "dir" => dino[i].blk # 0)
  BY <1>1, <1>2 DEF Complete
<1>4. dino[i].type # "free" /\ dino[i].nlink >= LinksTo(i)
  BY <1>1, <1>3, Linked0, LinksCounted
<1>5. ASSUME dino[i].blk # 0
      PROVE  dino[i].blk \in bitmap /\ \A j \in Reach \ {i} : dino[j].blk # dino[i].blk
  <2>1. Owners(Owned(dino, mem), DirsOf(dino, mem), content, bitmap)
    BY <1>1 DEF Inv, Tidy, Sound
  <2>2. dino[i].blk = Owned(dino, mem)[i]
    BY <1>1, <1>3, <1>5, OnDisk
  <2>3. ASSUME NEW j \in Reach \ {i} PROVE dino[j].blk # dino[i].blk
    <3>1. j \in Inums /\ dino[j].nlink > 0
      BY <1>2 DEF Complete
    <3>2. dino[j].blk = 0 \/ dino[j].blk = Owned(dino, mem)[j]
      BY <1>1, <3>1, OnDisk
    <3>3. Owned(dino, mem)[i] # Owned(dino, mem)[j]
      BY <1>3, <1>5, <2>1, <2>2, <3>1 DEF Owners
    <3>4. QED BY <1>5, <2>2, <3>2, <3>3
  <2>4. QED BY <1>3, <1>5, <2>1, <2>2, <2>3 DEF Owners
<1>6. \A s \in Entries(i) : dino[Child(i, s)].type = "dir" => content[dino[Child(i, s)].blk].up = i
  BY <1>1, <1>3, EntryShown
<1>7. QED BY <1>3, <1>4, <1>5, <1>6

\* Whenever the machine stops, what can be reached from the root of its disk
\* is sound: fs.c and sysfile.c write their blocks in an order in which every
\* entry names an allocated inode that counts it, a block has one owner and a
\* mark in the bitmap, and .. leads back.
THEOREM DiskIsSound == Spec => []ImageSound
  BY Invariant, ImageIsSound, PTL

-----------------------------------------------------------------------------
(* Calls never wait for each other in a circle. *)

\* Who waits for an inode with another one locked is in unlink, at what the
\* locked directory names, or in create, at the inode that it makes.
LEMMA HoldsAndWaits ==
  ASSUME Inv, NEW p \in Procs, NEW d \in Inums, Has(p, d), WaitsFor(p) # 0
  PROVE  /\ putting[p] = 0 /\ pc[p] \in {"u_ip", "c_lockip"}
         /\ dp[p] = d /\ WaitsFor(p) = ip[p]
<1>1. putting[p] = 0
  BY DEF WaitsFor
<1>2. pc[p] \in {"walk", "walkp", "c_lock", "l_new", "u_lock", "o_lock", "c_exist", "c_lockip",
                "l_old", "l_bad", "u_ip"}
  BY <1>1 DEF WaitsFor
<1>3. pc[p] \in LocksDp /\ dp[p] = d
  BY <1>1, <1>2, Sizes DEF Has, LocksIp
<1>4. pc[p] \in {"u_ip", "c_lockip"}
  BY <1>2, <1>3 DEF LocksDp, Making
<1>5. QED BY <1>1, <1>3, <1>4 DEF WaitsFor

\* What unlink waits for is named by the directory that it has locked.
LEMMA WaitsBelow ==
  ASSUME Inv, NEW p \in Procs, putting[p] = 0, pc[p] = "u_ip"
  PROVE  /\ dp[p] \in Inums
         /\ \E s \in 1..Slots : NamedNow(dp[p], s) = ip[p]
<1>1. PICK d : d = dp[p]
  OBVIOUS
<1>2. d \in Inums
  <2>1. dp[p] \in Pointer /\ dp[p] # 0
    BY DEF Inv, Types, LocalTypes, Phases, PhaseOf, UsesDp, Making
  <2>2. QED BY <1>1, <2>1 DEF Pointer
<1>3. Has(p, d) /\ Points(p, d)
  BY <1>1 DEF Has, LocksDp, Points
<1>4. mem[d].ref > 0 /\ mem[d].ino = Eff(dino, mem, d) /\ CacheOK(mem)
  BY <1>2, <1>3, PointsRef, HasIs DEF Inv, Types, CacheTypes, CacheOK
<1>5. IsDir(d) /\ Where(mem, d, NameOf(p)) # {} /\ Entry(mem, d, NameOf(p)) = ip[p]
  BY <1>1, <1>2, Sizes DEF Inv, Known, Knows, Entry, Ino
<1>6. mem[d].ino.type = "dir"
  BY <1>4, <1>5 DEF IsDir
<1>7. \E t \in 1..Slots : Named(Owned(dino, mem), DirsOf(dino, mem), content, d, t) = ip[p]
  BY <1>2, <1>4, <1>5, <1>6, FoundIs
<1>8. QED BY <1>1, <1>2, <1>7 DEF NamedNow

LEMMA NobodyStuck == Inv => NoDeadlock
<1>1. SUFFICES ASSUME Inv, NEW a \in Procs, ~Ready(a, "idle"),
                      \A p \in Procs : ~Ready(p, "idle") => WaitsFor(p) # 0 /\ ~Free(WaitsFor(p))
               PROVE  FALSE
  BY DEF NoDeadlock
<1>2. ASSUME NEW p \in Procs, ~Ready(p, "idle") PROVE WaitsFor(p) \in Inums
  <2>1. WaitsFor(p) \in {0, root, cur[p], dp[p], ip[p]}
    BY DEF WaitsFor
  <2>2. cur[p] \in Pointer /\ dp[p] \in Pointer /\ ip[p] \in Pointer
    BY <1>1 DEF Inv, Types, LocalTypes
  <2>3. QED BY <1>1, <1>2, <2>1, <2>2, Sizes DEF Pointer
<1>3. ASSUME NEW p \in Procs, ~Ready(p, "idle")
      PROVE  \E q \in Procs : /\ ~Ready(q, "idle") /\ putting[q] = 0 /\ pc[q] \in {"u_ip", "c_lockip"}
                             /\ dp[q] = WaitsFor(p) /\ WaitsFor(q) = ip[q]
  <2>1. PICK i \in Inums : i = WaitsFor(p) /\ mem[i].busy
    BY <1>1, <1>2, <1>3 DEF Free
  <2>2. PICK q \in Procs : Has(q, i)
    BY <1>1, <2>1 DEF Inv, Locks
  <2>3. ~Ready(q, "idle")
    BY <2>2, Sizes DEF Ready, Has, LocksDp, LocksIp, Making
  <2>4. QED BY <1>1, <2>1, <2>2, <2>3, HoldsAndWaits
<1>4. ASSUME NEW p \in Procs, ~Ready(p, "idle") PROVE pc[p] # "c_lockip"
  <2>1. SUFFICES ASSUME pc[p] = "c_lockip" PROVE FALSE
    OBVIOUS
  <2>2. PICK q \in Procs : dp[q] = WaitsFor(p)
    BY <1>3, <1>4
  <2>3. WaitsFor(p) = ip[p] /\ ip[p] \in Inums
    BY <1>1, <1>2, <1>4, <2>1 DEF WaitsFor
  <2>4. MadeBy(p, ip[p])
    BY <1>1, <2>1 DEF Inv, Fresh, Making
  <2>5. q = p /\ dp[p] # ip[p]
    BY <2>2, <2>3, <2>4 DEF MadeBy, Points
  <2>6. QED BY <2>2, <2>3, <2>5
<1>5. PICK S : S = {d \in Inums : \E p \in Procs : putting[p] = 0 /\ pc[p] = "u_ip" /\ dp[p] = d}
  OBVIOUS
<1>6. ASSUME NEW p \in Procs, ~Ready(p, "idle") PROVE WaitsFor(p) \in S
  BY <1>2, <1>3, <1>4, <1>5, <1>6
<1>7. S \in SUBSET Inums /\ S # {}
  BY <1>1, <1>5, <1>6
<1>8. PICK d \in S : \A s \in 1..Slots : NamedNow(d, s) \notin S
  BY <1>1, <1>7 DEF Inv, Tidy, Sound, NoCircle, NamedNow
<1>9. PICK p \in Procs : putting[p] = 0 /\ pc[p] = "u_ip" /\ dp[p] = d
  BY <1>5
<1>10. WaitsFor(p) = ip[p] /\ ~Ready(p, "idle")
  BY <1>9 DEF WaitsFor, Ready
<1>11. QED BY <1>1, <1>6, <1>8, <1>9, <1>10, WaitsBelow

\* Whatever calls are under way, one of them does not wait for a lock that
\* another has: unlink locks a directory and then what it names, create a
\* directory and then an inode that nobody else knows (sysfile.c).
THEOREM CallsNeverDeadlock == Spec => []NoDeadlock
  BY Invariant, NobodyStuck, PTL

=============================================================================
