---------------------------- MODULE MCStackHeap ----------------------------
(* StackHeap with requests up and down that are not whole pages; the slots    *)
(* other than Boot are alike.                                                 *)
EXTENDS StackHeap, TLC

UpAndDown == {-5, -2, 1, 3}
Slots == Permutations(Procs \ {Boot})

=============================================================================
