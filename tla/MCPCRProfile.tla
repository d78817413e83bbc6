---------------------------- MODULE MCPCRProfile ----------------------------
(***************************************************************************)
(* Small profiles for PCRProfile, and what they mean: a reference by       *)
(* recursion over the profile, without iterator and contexts.              *)
(***************************************************************************)
EXTENDS PCRProfile, SequencesExt

\* Digests are tuples.
MCZero == <<0>>
MCExtended(d, v) == <<"x", d, v>>
MCTPMValue(p) == <<"tpm", p>>
MCLongest(p) == 40

Simple ==
  {[op |-> "value", pcr |-> 7, digest |-> <<1>>], [op |-> "tpm", pcr |-> 7],
   [op |-> "extend", pcr |-> 7, digest |-> <<2>>], [op |-> "extend", pcr |-> 4, digest |-> <<2>>]}

Or(ps) == [op |-> "or", profiles |-> ps]

\* Profiles without branches, with branches, and with branches in branches.
Flat == {<<>>} \cup {<<i>> : i \in Simple}
Ors == {Or(ps) : ps \in SeqOf(Flat, 2)}
Nested == {<<o, i>> : o \in {Or(<<x, y>>) : x \in Flat, y \in Flat}, i \in Simple}
Deep == {Or(<<n, f, n>>) : n \in Nested, f \in Flat}
MCInstructions == Simple \cup Ors \cup {Or(<<x, y>>) : x \in Flat, y \in Flat} \cup Deep
MCProfiles ==
  Flat \cup {<<i, o, j>> : i \in Simple, o \in Ors, j \in Simple}
       \cup {<<o, u>> : o \in Ors, u \in Ors}
       \cup {<<o, i>> : o \in Deep, i \in Simple}

RECURSIVE Meaning(_, _), MeaningOfOr(_, _)

\* The combinations that profile p makes of the combinations in vs.
Meaning(p, vs) ==
  IF p = <<>> THEN vs
  ELSE LET i == Head(p) IN
       Meaning(Tail(p),
         CASE i.op # "or" -> [n \in DOMAIN vs |-> Apply(i, vs[n])]
           [] i.op = "or" /\ i.profiles = <<>> -> vs
           [] OTHER -> MeaningOfOr(i.profiles, vs))

MeaningOfOr(ps, vs) ==
  IF ps = <<>> THEN <<>> ELSE Meaning(Head(ps), vs) \o MeaningOfOr(Tail(ps), vs)

(***************************************************************************)
(* computePCRValues returns the combinations that the documentation of     *)
(* AddProfileOR describes: sub-profiles "inherit the PCR values computed   *)
(* by this profile", and what follows applies to all of them.              *)
(***************************************************************************)
ValuesAreTheMeaning == phase = "digests" => Top.values = Meaning(profile, << << >> >>)
=============================================================================
