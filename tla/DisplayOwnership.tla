-------------------------- MODULE DisplayOwnership --------------------------
(***************************************************************************)
(* What the lease endpoint promises about the external displays: a display *)
(* is driven by Android or by a lessee, never by both; a lessee gets a     *)
(* display only after Android has stopped driving it; and there is at most *)
(* one lease at a time.                                                    *)
(***************************************************************************)
CONSTANT Displays

VARIABLES
  android,  \* the displays to which Android submits frames
  lessees   \* the displays that are leased

ownership == <<android, lessees>>

Init == android \subseteq Displays /\ lessees = {}

\* A display that Android has let go of is leased.
Grant(d) ==
  /\ d \in Displays \ android
  /\ lessees = {} /\ lessees' = {d}
  /\ UNCHANGED android

\* Android stops or starts driving displays (pause, hotplug, restoration), and
\* a lease may end; no display that stays leased is driven.
Adjust ==
  /\ lessees' \subseteq lessees
  /\ android' \subseteq Displays \ lessees'

Next == Adjust \/ \E d \in Displays : Grant(d)

Spec == Init /\ [][Next]_ownership
=============================================================================
