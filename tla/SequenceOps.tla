---------------------------- MODULE SequenceOps ----------------------------
(* What the policies do with sequences of sequences.                       *)
EXTENDS Naturals, Sequences

\* The sequences one after the other.
Concatenation(ss) ==
  LET first[n \in 0 .. Len(ss)] == IF n = 0 THEN <<>> ELSE first[n - 1] \o ss[n]
  IN first[Len(ss)]
=============================================================================
