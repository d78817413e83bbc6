------------------------------- MODULE MCLuks2 -------------------------------
(* A container with four keyslots, two keys and two recovery keys: all    *)
(* keyslots can be taken, and both kinds of key can be replaced.           *)
EXTENDS Luks2

CONSTANTS k1, k2, r1, r2

MCKey == {k1, k2}
MCRecoveryKey == {r1, r2}
=============================================================================
