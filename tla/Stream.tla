-------------------------------- MODULE Stream --------------------------------
(***************************************************************************)
(* What a pipe promises to its two sides: the bytes come out in the order  *)
(* in which they went in, each once; at most Capacity of them are under    *)
(* way; the end is reported when every byte has been read and no writer    *)
(* is left, and a side that has closed does not come back.                 *)
(***************************************************************************)
EXTENDS Integers, Sequences

CONSTANTS Byte, Capacity

VARIABLES sent, got, writing, reading, ended

vars == <<sent, got, writing, reading, ended>>

Init == /\ sent = <<>> /\ got = <<>>
        /\ writing = TRUE /\ reading = TRUE /\ ended = FALSE

Write == /\ writing
         /\ sent' \in Seq(Byte) /\ \E k \in 0..Len(sent') : sent = SubSeq(sent', 1, k)
         /\ Len(sent') - Len(got) <= Capacity
         /\ UNCHANGED <<got, writing, reading, ended>>

Read == /\ reading
        /\ \E k \in Len(got)..Len(sent) : got' = SubSeq(sent, 1, k)
        /\ UNCHANGED <<sent, writing, reading, ended>>

End == /\ reading /\ ~writing /\ got = sent /\ ended' = TRUE
       /\ UNCHANGED <<sent, got, writing, reading>>

CloseWriting == writing' = FALSE /\ UNCHANGED <<sent, got, reading, ended>>

CloseReading == reading' = FALSE /\ UNCHANGED <<sent, got, writing, ended>>

Next == Write \/ Read \/ End \/ CloseWriting \/ CloseReading

Spec == Init /\ [][Next]_vars

=============================================================================
