----------------------------- MODULE MCErasure -----------------------------
(* Erasure for TLC.                                                        *)
EXTENDS Erasure

CONSTANTS e1, e2, a1
=============================================================================
