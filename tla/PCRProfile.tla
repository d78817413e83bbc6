----------------------------- MODULE PCRProfile -----------------------------
(***************************************************************************)
(* Computing the PCR values that a PCRProtectionProfile permits            *)
(* (pcr_profile.go): computePCRValues walks the instructions depth first   *)
(* with an iterator, which is a stack of instruction lists, and keeps the  *)
(* values of every open branch in a stack of contexts; computePCRDigests   *)
(* turns the values into digests.                                          *)
(*                                                                         *)
(* A profile is a sequence of instructions; an "or" instruction holds a    *)
(* sequence of profiles.  PCR values are a function from the PCRs that     *)
(* have one (algorithm and index together) to digests, and stands for the  *)
(* digest that is computed of it.                                          *)
(***************************************************************************)
EXTENDS Naturals, Sequences, Functions

CONSTANTS
  Instructions,     \* the instructions of profiles
  Profiles,         \* the profiles that values are computed for
  Zero,             \* the digest of all zeroes
  Extended(_, _),   \* the digest of a PCR with a digest, extended with a value
  TPMValue(_),      \* the current value of a PCR
  Longest(_)        \* a bound on the length of the ways through a profile

ASSUME ProfilesAssumption ==
  /\ Profiles \subseteq Seq(Instructions)
  /\ \A i \in Instructions : i.op = "or" => i.profiles \in Seq(Seq(Instructions))

VARIABLES
  profile,   \* the profile
  tpm,       \* whether current values can be read from a TPM
  iter,      \* the iterator: what is left of the open branches, innermost first
  contexts,  \* the context stack, root first: a context is known by its position
  phase,     \* "walk", "digests", "unique" or "done"
  pcrDigests,  \* the digests of the combinations of PCR values that are left
  digests,   \* uniquePcrDigests
  result     \* "none", "ok", "error" or "panic"

vars == <<profile, tpm, iter, contexts, phase, pcrDigests, digests, result>>

Top == contexts[Len(contexts)]

Init ==
  /\ profile \in Profiles /\ tpm \in BOOLEAN
  /\ iter = << profile >>                                      \* traverseInstructions
  /\ contexts = << [parent |-> 0, values |-> << << >> >>] >>
  /\ phase = "walk" /\ pcrDigests = <<>> /\ digests = <<>> /\ result = "none"
-----------------------------------------------------------------------------
\* pcrValuesList.setValue and extendValue, for one combination of values.
SetValue(v, pcr, d) == [p \in DOMAIN v \cup {pcr} |-> IF p = pcr THEN d ELSE v[p]]
ExtendValue(v, pcr, d) ==
  SetValue(v, pcr, Extended(IF pcr \in DOMAIN v THEN v[pcr] ELSE Zero, d))

\* The effect of an instruction other than "or" on one combination of values.
Apply(i, v) ==
  CASE i.op = "value" -> SetValue(v, i.pcr, i.digest)
    [] i.op = "tpm" -> SetValue(v, i.pcr, TPMValue(i.pcr))
    [] i.op = "extend" -> ExtendValue(v, i.pcr, i.digest)

WithTopValues(values) == [contexts EXCEPT ![Len(contexts)].values = values]

\* next() returns the first instruction that is left in the innermost branch.
Instr == Head(Head(iter))
HasInstr == phase = "walk" /\ iter # <<>> /\ Head(iter) # <<>>
Consumed == << Tail(Head(iter)) >> \o Tail(iter)

SetOrExtend ==
  /\ HasInstr /\ Instr.op # "or"
  /\ IF Instr.op = "tpm" /\ ~ tpm
     THEN phase' = "done" /\ result' = "error" /\ UNCHANGED <<iter, contexts>>
     ELSE /\ iter' = Consumed
          /\ contexts' = WithTopValues([n \in DOMAIN Top.values |-> Apply(Instr, Top.values[n])])
          /\ UNCHANGED <<phase, result>>
  /\ UNCHANGED <<profile, tpm, pcrDigests, digests>>

\* Mutant: an "or" without profiles is a branch point like any other.
MutSkipEmptyOr ==
  /\ HasInstr /\ Instr.op = "or" /\ Instr.profiles = <<>>
  /\ iter' = Consumed /\ contexts' = WithTopValues(<<>>)
  /\ UNCHANGED <<profile, tpm, phase, pcrDigests, digests, result>>

\* An "or" without profiles is skipped by next(): it has no end.
SkipEmptyOr ==
  /\ HasInstr /\ Instr.op = "or" /\ Instr.profiles = <<>>
  /\ iter' = Consumed
  /\ UNCHANGED <<profile, tpm, contexts, phase, pcrDigests, digests, result>>

\* handleBranches: each branch gets a copy of the parent's values, so the order
\* of the new contexts does not matter.
BranchContexts(n) == [i \in 1 .. n |-> [parent |-> Len(contexts), values |-> Top.values]]

Branch ==
  /\ HasInstr /\ Instr.op = "or" /\ Instr.profiles # <<>>
  /\ iter' = Instr.profiles \o Consumed                        \* descendInToProfiles
  /\ contexts' = WithTopValues(<<>>) \o BranchContexts(Len(Instr.profiles))
  /\ UNCHANGED <<profile, tpm, phase, pcrDigests, digests, result>>

\* Mutant: the values go to the context below, which may be a sibling's.
MutParent == Len(contexts) - 1

Parent == Top.parent

\* The end of a branch: finishBranch, and then a sibling or the parent goes on.
EndBranch ==
  /\ phase = "walk" /\ iter # <<>> /\ Head(iter) = <<>> /\ Top.parent # 0
  /\ iter' = Tail(iter)
  /\ contexts' = [SubSeq(contexts, 1, Len(contexts) - 1) EXCEPT ![Parent].values = @ \o Top.values]
  /\ UNCHANGED <<profile, tpm, phase, pcrDigests, digests, result>>

\* The end of the root profile.
EndRoot ==
  /\ phase = "walk" /\ iter # <<>> /\ Head(iter) = <<>> /\ Top.parent = 0
  /\ iter' = Tail(iter) /\ phase' = "digests"
  /\ UNCHANGED <<profile, tpm, contexts, pcrDigests, digests, result>>

\* computePCRDigests: every combination must have the PCRs of the first.
ComputePCRDigests ==
  /\ phase = "digests"
  /\ LET values == Top.values IN
       IF values = <<>>
       THEN phase' = "done" /\ result' = "panic" /\ UNCHANGED pcrDigests      \* values[0]
       ELSE IF \E n \in DOMAIN values : DOMAIN values[n] # DOMAIN values[1]
       THEN phase' = "done" /\ result' = "error" /\ UNCHANGED pcrDigests
       ELSE phase' = "unique" /\ pcrDigests' = values /\ UNCHANGED result
  /\ UNCHANGED <<profile, tpm, iter, contexts, digests>>

\* Mutant: a digest is compared with the last one that was kept only.
MutUniqueDigest ==
  /\ phase = "unique" /\ pcrDigests # <<>>
  /\ pcrDigests' = Tail(pcrDigests)
  /\ digests' = IF digests # <<>> /\ digests[Len(digests)] = Head(pcrDigests)
                THEN digests ELSE Append(digests, Head(pcrDigests))
  /\ UNCHANGED <<profile, tpm, iter, contexts, phase, result>>

\* One turn of the second loop: a digest that was found already is left out.
UniqueDigest ==
  /\ phase = "unique" /\ pcrDigests # <<>>
  /\ pcrDigests' = Tail(pcrDigests)
  /\ digests' = IF Head(pcrDigests) \in Range(digests) THEN digests ELSE Append(digests, Head(pcrDigests))
  /\ UNCHANGED <<profile, tpm, iter, contexts, phase, result>>

ReturnDigests ==
  /\ phase = "unique" /\ pcrDigests = <<>>
  /\ phase' = "done" /\ result' = "ok"
  /\ UNCHANGED <<profile, tpm, iter, contexts, pcrDigests, digests>>

Done == phase = "done" /\ UNCHANGED vars

Next ==
  \/ SetOrExtend \/ SkipEmptyOr \/ Branch \/ EndBranch \/ EndRoot
  \/ ComputePCRDigests \/ UniqueDigest \/ ReturnDigests \/ Done

Spec == Init /\ [][Next]_vars
-----------------------------------------------------------------------------
(***************************************************************************)
(* What a profile means, one way through it at a time, without iterator    *)
(* and contexts: a walker <<todo, v>> has the instructions todo before it  *)
(* and has computed the values v.  At an "or" it takes one of the profiles *)
(* and then goes on with what follows; it stops at the end, or where a     *)
(* value must be read and there is no TPM.                                 *)
(***************************************************************************)
Ended(hasTPM, x) == x[1] = <<>> \/ (Head(x[1]).op = "tpm" /\ ~ hasTPM)

Onward(hasTPM, x) ==
  LET i == Head(x[1])
      rest == Tail(x[1])
  IN IF Ended(hasTPM, x) THEN {x}
     ELSE IF i.op # "or" THEN {<<rest, Apply(i, x[2])>>}
     ELSE IF i.profiles = <<>> THEN {<<rest, x[2]>>}
     ELSE {<<i.profiles[k] \o rest, x[2]>> : k \in DOMAIN i.profiles}

\* Where walkers can be after n steps from x.
After(hasTPM, x) ==
  LET walkers[n \in Nat] ==
        IF n = 0 THEN {x} ELSE UNION {Onward(hasTPM, y) : y \in walkers[n - 1]}
  IN walkers

AtStart(p) == <<p, << >> >>
Ends(p, hasTPM) == {y \in After(hasTPM, AtStart(p))[Longest(p)] : Ended(hasTPM, y)}
Stuck(p, hasTPM) == \E y \in Ends(p, hasTPM) : y[1] # <<>>
Permitted(p, hasTPM) == {y[2] : y \in {z \in Ends(p, hasTPM) : z[1] = <<>>}}

\* Profiles are finite: every way through one comes to an end.
ASSUME LongestAssumption ==
  \A p \in Profiles :
    /\ Longest(p) \in Nat
    /\ \A hasTPM \in BOOLEAN : \A y \in After(hasTPM, AtStart(p))[Longest(p)] : Ended(hasTPM, y)

(***************************************************************************)
(* computePCRDigests returns the digest of every combination of values     *)
(* that some way through the profile computes, of nothing else, and of     *)
(* each once.  It fails only if a way needs a TPM that is not there or two *)
(* ways do not define the same PCRs, and values[0] is always there.        *)
(***************************************************************************)
DigestsExact ==
  result # "none" =>
    LET permitted == Permitted(profile, tpm)
        refused == Stuck(profile, tpm) \/ \E v, w \in permitted : DOMAIN v # DOMAIN w
    IN /\ result = "ok" => ~ refused /\ Range(digests) = permitted /\ IsInjective(digests)
       /\ result = "error" => refused
       /\ result # "panic"

(***************************************************************************)
(* The two stacks stay aligned: there is a context for every branch that   *)
(* is open or waits, so next() never runs out of instructions and the      *)
(* values of a branch never get into another.                              *)
(***************************************************************************)
StacksAligned ==
  phase = "walk" =>
    /\ Len(iter) = Len(contexts)
    /\ contexts[1].parent = 0
    /\ \A n \in 2 .. Len(contexts) : contexts[n].parent \in 1 .. n - 1
    /\ Top.values # <<>>
=============================================================================
