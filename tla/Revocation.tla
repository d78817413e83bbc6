----------------------------- MODULE Revocation -----------------------------
(***************************************************************************)
(* What the PCR policy counters promise, without files, calls, counters or *)
(* failures: a policy that was signed can unseal keys until it is revoked, *)
(* and never again after that; the policy of a completed call replaces the *)
(* one before it and everything older.                                     *)
(***************************************************************************)
EXTENDS Naturals

CONSTANT Policy     \* policies: a key, a counter's handle, a count and more

VARIABLES
  live,     \* the policies that were signed and are not revoked
  dead,     \* the revoked ones
  current   \* those of the last completed calls

vars == <<live, dead, current>>

\* Policies for the same keys.
SameKeys(q, r) == q.ak = r.ak /\ q.h = r.h

Older(r) == {q \in live : SameKeys(q, r) /\ q.count < r.count}

Init == live = {} /\ dead = {} /\ current = {}

\* A policy is signed that is newer than the one in force.
Sign(q) ==
  /\ q \notin dead
  /\ \A r \in current : SameKeys(q, r) => r.count < q.count
  /\ live' = live \cup {q}
  /\ UNCHANGED <<dead, current>>

\* Everything older than r is revoked.
Revoke(r) ==
  /\ live' = live \ Older(r) /\ dead' = dead \cup Older(r)
  /\ current' = current \ Older(r)

\* r comes into force, in the place of the one before.
Confirm(r) ==
  /\ r \in live
  /\ live' = live \ Older(r) /\ dead' = dead \cup Older(r)
  /\ current' = {q \in current : ~ SameKeys(q, r)} \cup {r}

Next == \E q \in Policy : Sign(q) \/ Revoke(q) \/ Confirm(q)

Spec == Init /\ [][Next]_vars
=============================================================================
