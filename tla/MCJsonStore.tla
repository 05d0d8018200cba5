---------------------------- MODULE MCJsonStore -----------------------------
(***************************************************************************)
(* JsonStore with three snapshots, which the code treats alike.            *)
(***************************************************************************)
EXTENDS JsonStore, TLC
=============================================================================
