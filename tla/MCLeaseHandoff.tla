--------------------------- MODULE MCLeaseHandoff ---------------------------
(***************************************************************************)
(* A small instance of LeaseHandoff: DRM topologies of up to three CRTCs   *)
(* (1, 2, 3) and three planes (11, 12, 13).                                *)
(***************************************************************************)
EXTENDS LeaseHandoff

Topology(crtcs, order, primary, known, master, possible, unreliable) ==
  [crtcs |-> crtcs, planes |-> order, primary |-> primary, pipes |-> known,
   master |-> [p \in Elements(order) |-> IF p = 13 THEN master ELSE 0],
   possible |-> [p \in Elements(order) |-> possible], unreliable |-> unreliable]

\* Plane 13, listed first and not primary, is the virtual plane of the pipe
\* behind 12; plane 11 is left to both displays.
Virtual == Topology(<<1, 2>>, <<13, 11, 12>>, {11, 12}, {11, 12, 13}, 12, {1, 2}, {13})

\* Three displays' worth of primary planes: the external display may come up on
\* a CRTC whose fixed primary plane is not the reserved one.  The pipe list
\* leaves one pipe to the two displays.  Without plane 12 the second primary plane
\* is 13, so the reservation can change with every start of the composer.
Three == Topology(<<1, 2, 3>>, <<11, 12, 13>>, {11, 12, 13}, {12, 13}, 0, {1, 2, 3}, {12})

\* Leasing is disabled: one CRTC, or a second primary plane that cannot serve
\* the second CRTC.
Single == Topology(<<1>>, <<11, 12>>, {11}, {11, 12}, 0, {1}, {11})
Tied == Topology(<<1, 2>>, <<11, 12>>, {11, 12}, {11, 12}, 0, {1}, {11, 12})

MCTopologies == {Virtual, Three, Single, Tied}

=============================================================================
