------------------------------- MODULE MCGui -------------------------------
(* Gui with one worker and three runs, two of them at one time.            *)
EXTENDS Gui
=============================================================================
