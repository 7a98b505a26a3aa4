----------------------------- MODULE MCDecklists -----------------------------
(* Instances of Decklists for TLC.                                          *)
EXTENDS Decklists, MCManaVault
=============================================================================
