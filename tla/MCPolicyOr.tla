----------------------------- MODULE MCPolicyOr -----------------------------
(* PolicyOr with the arity of the TPM, for trees of one to four levels.    *)
EXTENDS PolicyOr

\* A digest is a tuple: of a number for a condition, of digests for a PolicyOR.
MCPOr(ds) == <<"or">> \o ds
MCForeign == <<0>>

\* The list of n different conditions.
Distinct(n) == [i \in 1 .. n |-> <<i>>]

\* The sizes at which a node or a level is added, and lists that repeat conditions.
MCInputs ==
  {Distinct(n) : n \in {1, 2, 7, 8, 9, 16, 17, 63, 64, 65, 72, 73, 129, 513}}
    \cup UNION {[1 .. n -> {<<1>>, <<2>>}] : n \in 1 .. 4}
    \cup {[i \in 1 .. 70 |-> <<1 + (i % k)>>] : k \in {3, 8, 9}}
=============================================================================
