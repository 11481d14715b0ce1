-------------------------------- MODULE Heap --------------------------------
(***************************************************************************)
(* What Mem_Alloc and Mem_Free of p3 promise their callers: blocks of at   *)
(* least the size asked for, inside the region, on 16-byte boundaries, that*)
(* overlap no block still handed out; a block stays where it is until it   *)
(* is freed.                                                               *)
(***************************************************************************)
EXTENDS Naturals

CONSTANTS Region, Sizes

VARIABLE blocks    \* the blocks handed out, as [ptr, size]

Align == 16

Apart(b, c) == /\ b.ptr # c.ptr
               /\ b.ptr + b.size <= c.ptr \/ c.ptr + c.size <= b.ptr

Init == blocks = {}

Alloc(b) == /\ b.ptr % Align = 0
            /\ b.ptr + b.size <= Region
            /\ \A c \in blocks : Apart(b, c)
            /\ blocks' = blocks \cup {b}

Release(b) == b \in blocks /\ blocks' = blocks \ {b}

Next == \/ \E p \in 0..Region, n \in Sizes : Alloc([ptr |-> p, size |-> n])
        \/ \E b \in blocks : Release(b)

Spec == Init /\ [][Next]_blocks

=============================================================================
