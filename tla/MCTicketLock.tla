---------------------------- MODULE MCTicketLock ----------------------------
(* TicketLock with four threads. *)
EXTENDS TicketLock

CONSTANTS t1, t2, t3, t4

FourThreads == {t1, t2, t3, t4}

=============================================================================
