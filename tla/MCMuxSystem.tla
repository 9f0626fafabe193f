---------------------------- MODULE MCMuxSystem -----------------------------
(* Small instances of MuxSystem for TLC.                                   *)
EXTENDS MuxSystem

CONSTANTS s1, h1, h2

OneSlot     == {s1}
TwoHandlers == {h1, h2}
=============================================================================
