---------------------------- MODULE MCProcTable ----------------------------
(* ProcTable with join(-1), any thread, as the only argument of join. *)
EXTENDS ProcTable

AnyThread == {-1}

=============================================================================
