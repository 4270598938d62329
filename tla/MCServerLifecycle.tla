------------------------- MODULE MCServerLifecycle -------------------------
(* ServerLifecycle with two workers and two signals.                       *)
EXTENDS ServerLifecycle
=============================================================================
