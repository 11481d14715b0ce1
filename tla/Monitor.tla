------------------------------- MODULE Monitor -------------------------------
(***************************************************************************)
(* What the lock and the condition variables of p4 promise together: one   *)
(* thread inside at a time; a thread that waits goes out and cannot come   *)
(* back before a signal on the same condition has let it go; signals let   *)
(* the waiting threads go in the order in which they came.                 *)
(***************************************************************************)
EXTENDS Sequences

CONSTANTS Threads, Conds, None

VARIABLES holder, waiting

vars == <<holder, waiting>>

Waits(t) == \E c \in Conds : \E i \in DOMAIN waiting[c] : waiting[c][i] = t

Init == holder = None /\ waiting = [c \in Conds |-> <<>>]

Enter(t) == holder = None /\ ~Waits(t) /\ holder' = t /\ UNCHANGED waiting

Leave(t) == holder = t /\ holder' = None /\ UNCHANGED waiting

Wait(t, c) == /\ holder = t /\ holder' = None
              /\ waiting' = [waiting EXCEPT ![c] = Append(@, t)]

Signal(t, c) == /\ holder = t /\ waiting[c] # <<>>
                /\ waiting' = [waiting EXCEPT ![c] = Tail(@)]
                /\ UNCHANGED holder

Next == \E t \in Threads :
          \/ Enter(t) \/ Leave(t)
          \/ \E c \in Conds : Wait(t, c) \/ Signal(t, c)

Spec == Init /\ [][Next]_vars

=============================================================================
