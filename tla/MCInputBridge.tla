---------------------------- MODULE MCInputBridge ---------------------------
(* Two keyboards; one also has a button, but no axes and so no mouse role. *)
EXTENDS InputBridge

CONSTANTS keyboard, receiver, key, button

MCSources == {keyboard, receiver}
MCCodes == {key, button}
MCKeys == [s \in MCSources |-> IF s = receiver THEN {key, button} ELSE {key}]
MCAccepts == [s \in MCSources |-> {key}]
=============================================================================
