--------------------------- MODULE MCPreferredMode --------------------------
(* A small instance of PreferredMode: two presets and a user's mode that is *)
(* finer than the journal's millihertz.                                     *)
EXTENDS PreferredMode

CONSTANTS Native, P1080, Fine

MCModes == {Native, P1080, Fine}
MCRounded == [m \in MCModes |-> IF m = Fine THEN P1080 ELSE m]
=============================================================================
