----------------------------- MODULE MCDialogue -----------------------------
(* Model-checking instance of Dialogue: the two ends are model values, the *)
(* remaining constants are given per run in the .cfg files.               *)
EXTENDS Dialogue
=============================================================================
