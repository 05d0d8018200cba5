------------------------------- MODULE MCServe ------------------------------
(***************************************************************************)
(* Serve with few readings, pings and faults.                              *)
(***************************************************************************)
EXTENDS Serve
=============================================================================
