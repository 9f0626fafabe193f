--------------------------- MODULE MCBagRecorder ---------------------------
(* Small instances of BagRecorder for TLC.                                 *)
EXTENDS BagRecorder

CONSTANTS s1, s2

TwoSlots == {s1, s2}
OneSlot  == {s1}
=============================================================================
