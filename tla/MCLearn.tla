------------------------------ MODULE MCLearn -------------------------------
(***************************************************************************)
(* Learn with one device, without faults.                                  *)
(***************************************************************************)
EXTENDS Learn

(* README.md:241-242: log lines, then subscriptions.  tests/onboard.rs:47- *)
(* 64 has the version line after them.                                     *)
Documented == {<<"connect", "text", "log", "subscribe", "read">>}
LogLast == {<<"connect", "text", "subscribe", "log", "read">>}
InTableOrder == {<<"version", "state", "radarParams">>}
Words == [d \in Devices |-> <<"chatter", d>>]
=============================================================================
