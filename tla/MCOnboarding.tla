--------------------------- MODULE MCOnboarding -----------------------------
(***************************************************************************)
(* Onboarding with two devices that connect in turn.                       *)
(***************************************************************************)
EXTENDS Onboarding
CONSTANTS d1, d2

(* README.md:241-242: log lines, then subscriptions.  The version line may *)
(* also come after them, after another line with a dotted word, or after a *)
(* reading; the device may take its leave, with a DISCONNECT or without.   *)
Connecting == {<<"connect", "log", "subscribe">>,
               <<"connect", "chatter", "subscribe", "log">>,
               <<"connect", "log", "subscribe", "read", "disconnect">>,
               <<"connect", "read", "log", "close">>}
Odd == {<<"connect", "text", "subscribe">>, <<"anonymous", "log", "subscribe">>}
AnyOrder == {<<"stateEmpty", "version", "state">>,
             <<"radarParams", "version", "stateBare">>,
             <<"state", "radarSkip", "version">>}
Words == [d \in Devices |-> <<"chatter", d>>]
Quoted == {<<"pass", d2>>, <<"name", FromCloud>>}
=============================================================================
