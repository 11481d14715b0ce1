--------------------------- MODULE MCSharedSpace ---------------------------
(* SharedSpace with small requests, some of them negative. *)
EXTENDS SharedSpace

UpAndDown == {-2, 0, 1, 3}

=============================================================================
