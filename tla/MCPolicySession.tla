--------------------------- MODULE MCPolicySession ---------------------------
(* An instance of PolicySession for TLC. *)
EXTENDS PolicySession, TLC

CONSTANTS b1, b2, none, pin1, pin2
MCBoots == {b1, b2}
MCPins == {none, pin1, pin2}

\* Boots are alike, and so are the PINs that are not empty.
Symmetry == Permutations({b1, b2}) \cup Permutations({pin1, pin2})
=============================================================================
