------------------------------ MODULE MCInodes ------------------------------
(* Disks to start from, for TLC. *)
EXTENDS Inodes, TLC

Dir(n, b, size)  == [type |-> "dir", nlink |-> n, size |-> size, blk |-> b]
File(n, b) == [type |-> "file", nlink |-> n, size |-> IF b = 0 THEN 0 ELSE 1, blk |-> b]
Holds(up, es) == [up |-> up, ent |-> [s \in 1..Slots |->
                     IF s <= Len(es) THEN es[s] ELSE NoEnt]]
Image(inodes, dirs) ==
  [dino    |-> [i \in Inums |-> IF i <= Len(inodes) THEN inodes[i] ELSE FreeInode],
   content |-> [b \in Blocks |-> IF b \in DOMAIN dirs THEN dirs[b] ELSE EmptyDir],
   bitmap  |-> {inodes[i].blk : i \in DOMAIN inodes} \ {0}]

\* The root alone; a file a with a block; a directory a; a directory a with a
\* file b; a file with the names a and b.
MCImages ==
  {Image(<<Dir(1, 1, 0)>>, 1 :> Holds(1, <<>>)),
   Image(<<Dir(1, 1, 1), File(1, 2)>>, 1 :> Holds(1, <<<<"a", 2>>>>)),
   Image(<<Dir(2, 1, 1), Dir(1, 2, 0)>>,
         1 :> Holds(1, <<<<"a", 2>>>>) @@ 2 :> Holds(1, <<>>)),
   Image(<<Dir(2, 1, 1), Dir(1, 2, 1), File(1, 0)>>,
         1 :> Holds(1, <<<<"a", 2>>>>) @@ 2 :> Holds(1, <<<<"b", 3>>>>)),
   Image(<<Dir(1, 1, 2), File(2, 2)>>, 1 :> Holds(1, <<<<"a", 2>>, <<"b", 2>>>>))}

\* Processes are alike, and only invariants are checked.
Perms == Permutations(Procs)

MCPaths == {<<"a">>, <<"b">>, <<"a", "b">>}

=============================================================================
