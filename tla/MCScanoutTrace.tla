--------------------------- MODULE MCScanoutTrace ---------------------------
(* Two threads, one buffer, two timings and two values of the property, which *)
(* are interchangeable: no action tells one value from the other.             *)
EXTENDS ScanoutTrace, TLC

CONSTANTS main, worker, b1, fb, nofb, native, other, v0, v1, unknown

MCThreads == {main, worker}
MCBuffers == {b1}
MCModes == {native, other}
MCValues == {v0, v1}
MCSymmetry == Permutations(MCValues)
=============================================================================
