----------------------------- MODULE MCConfig -----------------------------
(* Config with numbers on both sides of the bounds of the casts.           *)
EXTENDS Config

MCNum == {-1, 0, 1, 256, 65537}
=============================================================================
