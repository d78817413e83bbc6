---------------------------- MODULE MCSealedKeys ----------------------------
(* Small instances of SealedKeys for TLC. *)
EXTENDS SealedKeys, TLC

CONSTANTS p1, p2, h1, a1, a2, b1, b2

MCPath == {p1, p2}
MCOnePath == {p1}
MCHandle == {h1}
MCAuthKey == {a1, a2}
MCOneAuthKey == {a1}
MCBoot == {b1, b2}
MCProfile == {{b1}, {b1, b2}}
MCOneProfile == {{b1}}

\* Paths are interchangeable, and so are auth keys.
Symmetry == Permutations(MCPath) \cup Permutations(MCAuthKey)
=============================================================================
