------------------------------ MODULE FifoLock ------------------------------
(***************************************************************************)
(* What lock_acquire and lock_release of p4 promise: a lock that is handed *)
(* on in the order in which it was asked for.  queue holds the threads     *)
(* that asked and have not released yet; the first of them, and no other,  *)
(* may be inside.                                                          *)
(***************************************************************************)
EXTENDS Sequences

CONSTANT Threads

VARIABLES queue, inside

vars == <<queue, inside>>

Queued(t) == \E i \in DOMAIN queue : queue[i] = t

Init == queue = <<>> /\ inside = {}

Ask(t) == /\ ~Queued(t)
          /\ queue' = Append(queue, t)
          /\ UNCHANGED inside

Grant(t) == /\ queue # <<>> /\ Head(queue) = t /\ inside = {}
            /\ inside' = {t}
            /\ UNCHANGED queue

Release(t) == /\ inside = {t} /\ Head(queue) = t
              /\ inside' = {}
              /\ queue' = Tail(queue)

Next == \E t \in Threads : Ask(t) \/ Grant(t) \/ Release(t)

Spec == Init /\ [][Next]_vars

=============================================================================
