------------------------ MODULE MC_ConnectionSession ------------------------
(* Four runs of the connection effect: StrictMode's double run, then two *)
(* Fast Refreshes, so a remount can meet a connecting and an open socket. *)
EXTENDS ConnectionSession

=============================================================================
