-------------------------- MODULE BootPolicyProofs --------------------------
(***************************************************************************)
(* The branches of the secure boot policy, for load sequences of any depth *)
(* and breadth, any event log and any number of signature database         *)
(* updates.                                                                *)
(***************************************************************************)
EXTENDS BootPolicy, TLAPS

\* A sequence, of anything.
Sequence(s) == s \in Seq(Range(s))

\* What the invariant needs to know of a branch.
IsBranch(b) ==
  /\ {"profile", "bootable", "subBranches"} \subseteq DOMAIN b
  /\ Sequence(b.profile) /\ b.bootable \in BOOLEAN /\ b.subBranches \in Seq(Nat)

\* Branches come before their sub-branches.
IsTree(bs) ==
  /\ Sequence(bs)
  /\ \A b \in DOMAIN bs :
       /\ IsBranch(bs[b])
       /\ \A s \in Range(bs[b].subBranches) : s \in DOMAIN bs /\ b < s

\* Branches that may be extended.
Open(bs, ids) == \A b \in Range(ids) : b \in DOMAIN bs /\ bs[b].subBranches = <<>>

\* No branch is in both.
Disjoint(s, t) == \A x \in Range(s) : x \notin Range(t)

\* Every branch is handed to one load event at most.
Apart(q, ids) == \A i \in DOMAIN q : Disjoint(q[i].branches, ids)
Queued(bs, q) ==
  /\ q \in Seq([event : LoadEvents, branches : Seq(Nat)])
  /\ \A i \in DOMAIN q : Open(bs, q[i].branches)
  /\ \A i, j \in DOMAIN q : i # j => Disjoint(q[i].branches, q[j].branches)

\* The branches that are being branched are handed to none, nor are the new ones yet.
Forked(bs, q, f) ==
  /\ f \in [events : Seq(LoadEvents), of : Seq(Nat), left : Seq(Nat), branches : Seq(Nat)]
  /\ f.events # <<>> =>
       /\ Range(f.of) \subseteq DOMAIN bs /\ Range(f.left) \subseteq Range(f.of)
       /\ Open(bs, f.branches) /\ Disjoint(f.branches, f.of)
       /\ Apart(q, f.of) /\ Apart(q, f.branches)

\* Only branches that can boot have been branched.
BranchedBoot(bs, n) == \A b \in 1 .. n : bs[b].subBranches # <<>> => bs[b].bootable

\* The branch b has been joined.
Joined(bs, b) ==
  LET live == {s \in Range(bs[b].subBranches) : bs[s].bootable}
      last == bs[b].profile[Len(bs[b].profile)]
  IN bs[b].subBranches # <<>> =>
       /\ bs[b].bootable <=> live # {}
       /\ bs[b].bootable => last.op = "or" /\ Range(last.profiles) = {bs[s].profile : s \in live}

\* The profiles of the first n sub-branches of b that can boot.
LiveProfiles(bs, b, n) ==
  {bs[bs[b].subBranches[i]].profile : i \in {k \in 1 .. n : bs[bs[b].subBranches[k]].bootable}}

Joining(bs, j, n, ps) ==
  /\ j \in 0 .. Len(bs)
  /\ BranchedBoot(bs, j)
  /\ \A b \in j + 1 .. Len(bs) : Joined(bs, b)
  /\ j > 0 =>
       n \in 0 .. Len(bs[j].subBranches) /\ Sequence(ps) /\ Range(ps) = LiveProfiles(bs, j, n)

(***************************************************************************)
(* The branches form a tree; one that was branched is handed to no load    *)
(* event any more and could boot, and it is joined after its sub-branches. *)
(***************************************************************************)
SBInv ==
  /\ sbPhase \in {"start", "preOS", "loads", "join", "done", "error"}
  /\ params.loadSequences \in Seq(LoadEvents)
  /\ IsTree(branches)
  /\ sbPhase \in {"start", "preOS"} =>
       \A b \in DOMAIN branches : branches[b].subBranches = <<>> /\ branches[b].bootable
  /\ sbPhase = "loads" =>
       /\ Queued(branches, loadEvents) /\ Forked(branches, loadEvents, fork)
       /\ BranchedBoot(branches, Len(branches))
  /\ sbPhase = "join" => Joining(branches, join, sub, subProfiles)
-----------------------------------------------------------------------------
(* Sequences                                                               *)

\* A sequence has a length, and its indices are those up to it.
LEMMA SequenceFacts ==
  ASSUME NEW s, Sequence(s)
  PROVE  Len(s) \in Nat /\ DOMAIN s = 1 .. Len(s)
  BY DEF Sequence

\* A function over 1 .. n is a sequence of length n.
LEMMA IsSequence ==
  ASSUME NEW n \in Nat, NEW s, s = [i \in 1 .. n |-> s[i]]
  PROVE  Sequence(s) /\ Len(s) = n /\ DOMAIN s = 1 .. n
<1>1. DOMAIN s = 1 .. n
  OBVIOUS
<1>2. s \in [1 .. n -> Range(s)]
  BY <1>1 DEF Range
<1> HIDE DEF Range
<1>3. s \in Seq(Range(s))
  BY <1>2
<1> QED BY <1>1, <1>3 DEF Sequence

\* The sequences over any set.
LEMMA SeqIsSequence == ASSUME NEW S, NEW s \in Seq(S) PROVE Sequence(s)
<1>1. Len(s) \in Nat /\ s = [i \in 1 .. Len(s) |-> s[i]]
  OBVIOUS
<1> QED BY <1>1, IsSequence

\* What Append does.
LEMMA AppendFacts ==
  ASSUME NEW s, Sequence(s), NEW x
  PROVE  /\ Sequence(Append(s, x)) /\ Len(Append(s, x)) = Len(s) + 1
         /\ DOMAIN Append(s, x) = 1 .. Len(s) + 1
         /\ Append(s, x)[Len(s) + 1] = x
         /\ \A i \in 1 .. Len(s) : Append(s, x)[i] = s[i]
         /\ Range(Append(s, x)) = Range(s) \cup {x}
<1> DEFINE S == Range(s) \cup {x}
           t == Append(s, x)
<1>1. s \in Seq(S) /\ x \in S /\ DOMAIN s = 1 .. Len(s) /\ Len(s) \in Nat
  BY DEF Sequence
<1>2. /\ t \in Seq(S) /\ Len(t) = Len(s) + 1 /\ t[Len(s) + 1] = x
      /\ \A i \in 1 .. Len(s) : t[i] = s[i]
  <2> HIDE DEF S
  <2> QED BY <1>1
<1>3. DOMAIN t = 1 .. Len(s) + 1
  BY <1>1, <1>2
<1>4. t = [i \in 1 .. Len(s) + 1 |-> t[i]]
  <2> HIDE DEF S, t
  <2>1. t \in [1 .. Len(t) -> S]
    BY <1>2
  <2> QED BY <1>2, <2>1
<1>5. Sequence(t)
  <2> HIDE DEF t
  <2> QED BY <1>1, <1>4, IsSequence
<1>6. Range(t) = Range(s) \cup {x}
  <2> HIDE DEF t
  <2>1. ASSUME NEW i \in 1 .. Len(s) + 1 PROVE t[i] \in Range(s) \cup {x}
    BY <1>1, <1>2 DEF Range
  <2>2. \A i \in 1 .. Len(s) : s[i] \in Range(t)
    BY <1>1, <1>2, <1>3 DEF Range
  <2>3. x \in Range(t)
    BY <1>1, <1>2, <1>3 DEF Range
  <2>4. Range(t) \subseteq Range(s) \cup {x}
    BY <2>1, <1>3 DEF Range
  <2>5. Range(s) \subseteq Range(t)
    BY <2>2, <1>1 DEF Range
  <2> QED BY <2>3, <2>4, <2>5
<1> QED BY <1>2, <1>3, <1>5, <1>6

\* The head and the tail of a sequence that is not empty.
LEMMA HeadTail ==
  ASSUME NEW S, NEW s \in Seq(S), s # <<>>
  PROVE  /\ Head(s) \in S /\ Head(s) \in Range(s) /\ Head(s) = s[1] /\ 1 \in DOMAIN s
         /\ Tail(s) \in Seq(S) /\ Range(Tail(s)) \subseteq Range(s)
         /\ \A i \in DOMAIN Tail(s) : i + 1 \in DOMAIN s /\ Tail(s)[i] = s[i + 1]
<1>1. Len(s) \in Nat \ {0} /\ DOMAIN s = 1 .. Len(s) /\ Head(s) = s[1]
  OBVIOUS
<1>2. Tail(s) \in Seq(S) /\ Len(Tail(s)) = Len(s) - 1
  OBVIOUS
<1>3. DOMAIN Tail(s) = 1 .. Len(s) - 1
  BY <1>1, <1>2
<1>4. \A i \in DOMAIN Tail(s) : i + 1 \in DOMAIN s /\ Tail(s)[i] = s[i + 1]
  BY <1>1, <1>3
<1>5. Range(Tail(s)) \subseteq Range(s)
  BY <1>4 DEF Range
<1>6. Head(s) \in Range(s) /\ 1 \in DOMAIN s
  BY <1>1 DEF Range
<1> QED BY <1>1, <1>2, <1>4, <1>5, <1>6
-----------------------------------------------------------------------------
(* The operations on a branch                                              *)

\* A branch may get measurements and become unbootable, but no sub-branches.
Measures(b, c) == IsBranch(c) /\ c.subBranches = b.subBranches

\* The same, and it can boot if it could.
Keeps(b, c) == Measures(b, c) /\ c.bootable = b.bootable

\* Other fields do not matter.
LEMMA OtherField ==
  ASSUME NEW b, IsBranch(b), NEW c, DOMAIN c = DOMAIN b,
         c.profile = b.profile, c.bootable = b.bootable, c.subBranches = b.subBranches
  PROVE  Keeps(b, c)
  BY DEF IsBranch, Keeps, Measures

\* A root starts without anything.
LEMMA NewBranchFacts ==
  ASSUME NEW level
  PROVE  IsBranch(NewBranch(level)) /\ NewBranch(level).subBranches = <<>> /\ NewBranch(level).bootable
<1>1. Sequence(<<>>) /\ <<>> \in Seq(Nat)
  BY DEF Sequence
<1> QED BY <1>1 DEF NewBranch, IsBranch

\* A sub-branch starts without instructions.
LEMMA SubBranchFacts ==
  ASSUME NEW b, IsBranch(b)
  PROVE  IsBranch(SubBranch(b)) /\ SubBranch(b).subBranches = <<>> /\ SubBranch(b).bootable
<1>1. Sequence(<<>>) /\ <<>> \in Seq(Nat)
  BY DEF Sequence
<1>2. /\ DOMAIN SubBranch(b) = DOMAIN b
      /\ SubBranch(b).profile = <<>> /\ SubBranch(b).subBranches = <<>> /\ SubBranch(b).bootable = TRUE
  BY DEF IsBranch, SubBranch
<1> QED BY <1>1, <1>2 DEF IsBranch

\* extendMeasurement appends an instruction.
LEMMA ExtendMeasurementFacts ==
  ASSUME NEW b, IsBranch(b), NEW d
  PROVE  Keeps(b, ExtendMeasurement(b, d))
<1> DEFINE c == ExtendMeasurement(b, d)
<1>1. /\ DOMAIN c = DOMAIN b /\ c.bootable = b.bootable /\ c.subBranches = b.subBranches
      /\ c.profile = Append(b.profile, Extend(secureBootPCR, d))
  BY DEF IsBranch, ExtendMeasurement
<1>2. Sequence(c.profile)
  BY <1>1, AppendFacts DEF IsBranch
<1> QED BY <1>1, <1>2 DEF IsBranch, Keeps, Measures

\* extendVerificationMeasurement records the event as well.
LEMMA ExtendVerificationMeasurementFacts ==
  ASSUME NEW b, IsBranch(b), NEW d, NEW source
  PROVE  Keeps(b, ExtendVerificationMeasurement(b, d, source))
<1> DEFINE c == ExtendMeasurement(b, d)
           e == ExtendVerificationMeasurement(b, d, source)
<1>1. Keeps(b, c)
  BY ExtendMeasurementFacts
<1>2. /\ DOMAIN e = DOMAIN c /\ e.profile = c.profile /\ e.bootable = c.bootable
      /\ e.subBranches = c.subBranches
  <2> HIDE DEF c
  <2>1. CASE source = "Firmware"
    <3>1. e = [c EXCEPT !.firmwareVerificationEvents = @ \cup {d}]
      BY <2>1 DEF ExtendVerificationMeasurement, c
    <3> QED BY <3>1
  <2>2. CASE source # "Firmware"
    <3>1. e = [c EXCEPT !.shimVerificationEvents = @ \cup {d}]
      BY <2>2 DEF ExtendVerificationMeasurement, c
    <3> QED BY <3>1
  <2> QED BY <2>1, <2>2
<1> HIDE DEF c, e
<1>3. Keeps(c, e)
  BY <1>1, <1>2, OtherField DEF Keeps, Measures
<1>4. Keeps(b, e)
  BY <1>1, <1>3 DEF Keeps, Measures
<1> QED BY <1>4 DEF e

\* A root can boot, whatever is in the log.
LEMMA PreOSEventFacts ==
  ASSUME NEW b, IsBranch(b), NEW e, NEW updates
  PROVE  Keeps(b, PreOSEvent(b, e, updates))
<1> DEFINE db == UpdatedDb(e.name, updates)
           c == ExtendVariableMeasurement(b, e.name, db)
           u == [c EXCEPT !.uefiDb = DecodeSecureBootDb(db)]
<1>1. Keeps(b, c)
  BY ExtendMeasurementFacts DEF ExtendVariableMeasurement
<1>2. Keeps(b, u)
  <2> HIDE DEF c
  <2>1. DOMAIN u = DOMAIN c /\ u.profile = c.profile /\ u.bootable = c.bootable /\ u.subBranches = c.subBranches
    OBVIOUS
  <2> HIDE DEF u
  <2>2. Keeps(c, u)
    BY <1>1, <2>1, OtherField DEF Keeps, Measures
  <2> QED BY <1>1, <2>2 DEF Keeps, Measures
<1>3. Keeps(b, b)
  BY DEF Keeps, Measures
<1>4. Keeps(b, ExtendVerificationMeasurement(b, e.digest, "Firmware"))
  BY ExtendVerificationMeasurementFacts
<1>5. Keeps(b, ExtendMeasurement(b, e.digest))
  BY ExtendMeasurementFacts
<1>6. PreOSEvent(b, e, updates) \in
        {c, u, b, ExtendVerificationMeasurement(b, e.digest, "Firmware"), ExtendMeasurement(b, e.digest)}
  <2> HIDE DEF c, u, db
  <2>1. CASE IsSignatureDbMeasurementEvent(e)
    BY <2>1 DEF PreOSEvent, c, u, db
  <2>2. CASE ~ IsSignatureDbMeasurementEvent(e) /\ IsVerificationEvent(e)
    BY <2>2 DEF PreOSEvent
  <2>3. CASE ~ IsSignatureDbMeasurementEvent(e) /\ ~ IsVerificationEvent(e)
    BY <2>3 DEF PreOSEvent
  <2> QED BY <2>1, <2>2, <2>3
<1> HIDE DEF c, u
<1> QED BY <1>1, <1>2, <1>3, <1>4, <1>5, <1>6

\* A verification extends the branch, leaves it alone or clears it.
LEMMA VerifyFacts ==
  ASSUME NEW b, IsBranch(b), NEW sigs, NEW source
  PROVE  Measures(b, Verify(b, sigs, source))
<1>1. Measures(b, b)
  BY DEF Measures
<1>2. Measures(b, Unbootable(b))
  BY DEF Measures, IsBranch, Unbootable
<1>3. \A d : Measures(b, ExtendVerificationMeasurement(b, d, source))
  BY ExtendVerificationMeasurementFacts DEF Keeps
<1> QED BY <1>1, <1>2, <1>3 DEF Verify

\* A load event does the same, and may change what shim trusts.
LEMMA LoadFacts ==
  ASSUME NEW b, IsBranch(b), NEW event
  PROVE  Measures(b, Load(b, event))
<1> DEFINE v == Verify(b, Sigs(event.image), event.source)
           l == LaunchShim(v, VendorCert(event.image))
<1>1. Measures(b, v)
  BY VerifyFacts
<1> HIDE DEF v
<1>2. DOMAIN l = DOMAIN v /\ l.profile = v.profile /\ l.bootable = v.bootable /\ l.subBranches = v.subBranches
  BY DEF LaunchShim
<1> HIDE DEF l
<1>3. Measures(b, l)
  BY <1>1, <1>2, OtherField DEF Keeps, Measures
<1>4. Load(b, event) \in {v, l}
  BY DEF Load, v, l
<1> QED BY <1>1, <1>3, <1>4
-----------------------------------------------------------------------------
(* The tree of branches and the queue of load events                       *)

\* Measurements leave the tree as it is.
LEMMA TreeMeasured ==
  ASSUME NEW bs, IsTree(bs), NEW cs, cs = [b \in DOMAIN bs |-> cs[b]],
         \A b \in DOMAIN bs : Measures(bs[b], cs[b])
  PROVE  IsTree(cs) /\ Len(cs) = Len(bs) /\ DOMAIN cs = DOMAIN bs
<1>1. Len(bs) \in Nat /\ DOMAIN bs = 1 .. Len(bs)
  BY SequenceFacts DEF IsTree
<1>2. Sequence(cs) /\ Len(cs) = Len(bs) /\ DOMAIN cs = DOMAIN bs
  BY <1>1, IsSequence
<1> QED BY <1>2 DEF IsTree, Measures

\* A new root or sub-branch.
LEMMA TreeAppend ==
  ASSUME NEW bs, IsTree(bs), NEW b, IsBranch(b), b.subBranches = <<>>
  PROVE  /\ IsTree(Append(bs, b)) /\ Len(Append(bs, b)) = Len(bs) + 1
         /\ DOMAIN Append(bs, b) = 1 .. Len(bs) + 1
<1> DEFINE cs == Append(bs, b)
<1>1. Len(bs) \in Nat /\ DOMAIN bs = 1 .. Len(bs)
  BY SequenceFacts DEF IsTree
<1>2. /\ Sequence(cs) /\ Len(cs) = Len(bs) + 1 /\ DOMAIN cs = 1 .. Len(bs) + 1
      /\ cs[Len(bs) + 1] = b /\ \A i \in 1 .. Len(bs) : cs[i] = bs[i]
  BY AppendFacts DEF IsTree
<1> HIDE DEF cs
<1>3. Range(b.subBranches) = {}
  BY DEF Range
<1>4. ASSUME NEW c \in DOMAIN cs
      PROVE  IsBranch(cs[c]) /\ \A s \in Range(cs[c].subBranches) : s \in DOMAIN cs /\ c < s
  <2>1. CASE c = Len(bs) + 1
    BY <1>2, <1>3, <2>1
  <2>2. CASE c \in 1 .. Len(bs)
    BY <1>1, <1>2, <2>2 DEF IsTree
  <2> QED BY <1>1, <1>2, <2>1, <2>2
<1>5. IsTree(cs)
  BY <1>2, <1>4 DEF IsTree
<1> QED BY <1>2, <1>5 DEF cs

\* The queue is good as long as its branches get no sub-branches.
LEMMA QueuedKept ==
  ASSUME NEW bs, NEW cs, NEW q, Queued(bs, q),
         \A i \in DOMAIN q : \A b \in Range(q[i].branches) :
           b \in DOMAIN cs /\ cs[b].subBranches = bs[b].subBranches
  PROVE  Queued(cs, q)
  BY DEF Queued, Open

\* Another load event, with branches that no other has.
LEMMA QueuedAppend ==
  ASSUME NEW bs, NEW q, Queued(bs, q), NEW event \in LoadEvents, NEW ids \in Seq(Nat),
         Open(bs, ids), Apart(q, ids)
  PROVE  Queued(bs, Append(q, [event |-> event, branches |-> ids]))
<1> DEFINE E == [event : LoadEvents, branches : Seq(Nat)]
           e == [event |-> event, branches |-> ids]
           r == Append(q, e)
<1>1. q \in Seq(E) /\ e \in E /\ e.branches = ids
  BY DEF Queued
<1> HIDE DEF E, e
<1>2. /\ r \in Seq(E) /\ DOMAIN r = 1 .. Len(q) + 1 /\ r[Len(q) + 1] = e /\ Len(q) \in Nat
      /\ DOMAIN q = 1 .. Len(q) /\ \A i \in 1 .. Len(q) : r[i] = q[i]
  BY <1>1
<1> HIDE DEF r
<1>3. ASSUME NEW i \in DOMAIN r PROVE Open(bs, r[i].branches)
  <2>1. CASE i = Len(q) + 1
    BY <1>1, <1>2, <2>1
  <2>2. CASE i \in DOMAIN q
    BY <1>2, <2>2 DEF Queued
  <2> QED BY <1>2, <2>1, <2>2
<1>4. ASSUME NEW i \in DOMAIN r, NEW j \in DOMAIN r, i # j
      PROVE  Disjoint(r[i].branches, r[j].branches)
  <2>1. CASE i \in DOMAIN q /\ j \in DOMAIN q
    BY <1>2, <1>4, <2>1 DEF Queued
  <2>2. CASE i = Len(q) + 1 /\ j \in DOMAIN q
    <3>1. Disjoint(r[j].branches, ids)
      BY <1>2, <2>2 DEF Apart
    <3> QED BY <1>1, <1>2, <2>2, <3>1 DEF Disjoint
  <2>3. CASE j = Len(q) + 1 /\ i \in DOMAIN q
    BY <1>1, <1>2, <2>3 DEF Apart
  <2> QED BY <1>2, <1>4, <2>1, <2>2, <2>3
<1> QED BY <1>2, <1>3, <1>4 DEF Queued, E, e, r

\* The head of the queue and the rest.
LEMMA QueuedTail ==
  ASSUME NEW bs, NEW q, Queued(bs, q), q # <<>>
  PROVE  /\ Head(q).event \in LoadEvents /\ Head(q).branches \in Seq(Nat)
         /\ Open(bs, Head(q).branches)
         /\ Queued(bs, Tail(q)) /\ Apart(Tail(q), Head(q).branches)
<1> DEFINE E == [event : LoadEvents, branches : Seq(Nat)]
<1>1. q \in Seq(E)
  BY DEF Queued
<1> HIDE DEF E
<1>2. /\ Head(q) \in E /\ Head(q) = q[1] /\ 1 \in DOMAIN q /\ Tail(q) \in Seq(E)
      /\ \A i \in DOMAIN Tail(q) : i + 1 \in DOMAIN q /\ Tail(q)[i] = q[i + 1]
  BY <1>1, HeadTail
<1>3. DOMAIN Tail(q) \subseteq Nat \ {0}
  BY <1>2
<1>4. Head(q).event \in LoadEvents /\ Head(q).branches \in Seq(Nat)
  BY <1>2 DEF E
<1>5. Open(bs, Head(q).branches) /\ \A i \in DOMAIN Tail(q) : Open(bs, Tail(q)[i].branches)
  BY <1>2 DEF Queued
<1>6. ASSUME NEW i \in DOMAIN Tail(q), NEW j \in DOMAIN Tail(q), i # j
      PROVE  Disjoint(Tail(q)[i].branches, Tail(q)[j].branches)
  <2>1. i + 1 # j + 1
    BY <1>3, <1>6
  <2> QED BY <1>2, <2>1 DEF Queued
<1>7. ASSUME NEW i \in DOMAIN Tail(q) PROVE Disjoint(Tail(q)[i].branches, Head(q).branches)
  <2>1. i + 1 # 1
    BY <1>3
  <2> QED BY <1>2, <2>1 DEF Queued
<1> QED BY <1>2, <1>4, <1>5, <1>6, <1>7 DEF Queued, Apart, E
-----------------------------------------------------------------------------
(* The steps of run                                                        *)

\* There are no branches at first.
LEMMA InitEstablishes == ASSUME SBInit, params.loadSequences \in Seq(LoadEvents) PROVE SBInv
<1>1. Sequence(<<>>) /\ DOMAIN <<>> = {}
  BY DEF Sequence
<1> QED BY <1>1 DEF SBInit, SBInv, IsTree

\* The errors stop everything, and the checks of the log start it.
LEMMA StartStep == ASSUME SBInv, Start PROVE SBInv'
  BY DEF SBInv, Start, Fail

\* A root that is added has no sub-branches.
LEMMA AddRootStep == ASSUME SBInv, AddRoot PROVE SBInv'
<1> DEFINE r == NewBranch(Len(branches))
<1>1. IsBranch(r) /\ r.subBranches = <<>> /\ r.bootable
  BY NewBranchFacts
<1>2. branches' = Append(branches, r) /\ sbPhase = "preOS" /\ sbPhase' = "preOS" /\ params' = params
  BY DEF AddRoot
<1> HIDE DEF r
<1>3. IsTree(branches') /\ DOMAIN branches' = 1 .. Len(branches) + 1
  BY <1>1, <1>2, TreeAppend DEF SBInv
<1>4. /\ branches'[Len(branches) + 1] = r /\ \A i \in 1 .. Len(branches) : branches'[i] = branches[i]
      /\ Len(branches) \in Nat /\ DOMAIN branches = 1 .. Len(branches)
  BY <1>2, AppendFacts, SequenceFacts DEF SBInv, IsTree
<1>5. ASSUME NEW b \in DOMAIN branches' PROVE branches'[b].subBranches = <<>> /\ branches'[b].bootable
  <2>1. CASE b = Len(branches) + 1
    BY <1>1, <1>4, <2>1
  <2>2. CASE b \in DOMAIN branches
    BY <1>2, <1>4, <2>2 DEF SBInv
  <2> QED BY <1>3, <1>4, <2>1, <2>2
<1> QED BY <1>2, <1>3, <1>5 DEF SBInv

\* Only the last root changes.
LEMMA ProcessPreOSEventStep == ASSUME SBInv, ProcessPreOSEvent PROVE SBInv'
<1> DEFINE n == Len(branches)
           c(b) == PreOSEvent(b, Head(preOSEvents), SubSeq(SigDbUpdates, 1, b.dbUpdateLevel))
<1>1. /\ branches' = [branches EXCEPT ![n] = c(branches[n])]
      /\ sbPhase = "preOS" /\ sbPhase' = "preOS" /\ params' = params
  BY DEF ProcessPreOSEvent
<1>2. \A b \in DOMAIN branches : Keeps(branches[b], c(branches[b])) /\ Keeps(branches[b], branches[b])
  BY PreOSEventFacts DEF SBInv, IsTree, Keeps, Measures
<1> HIDE DEF c, n
<1>3. branches' = [b \in DOMAIN branches |-> branches'[b]]
  BY <1>1
<1>4. \A b \in DOMAIN branches : Keeps(branches[b], branches'[b])
  BY <1>1, <1>2
<1>5. IsTree(branches') /\ DOMAIN branches' = DOMAIN branches
  BY <1>3, <1>4, TreeMeasured DEF Keeps, SBInv
<1> QED BY <1>1, <1>4, <1>5 DEF SBInv, Keeps, Measures

\* Nothing waits for branches, or several events do.
LEMMA FollowStep ==
  ASSUME NEW bs, NEW q, Queued(bs, q), NEW ids \in Seq(Nat), Open(bs, ids), Apart(q, ids),
         NEW next \in Seq(LoadEvents), Follow(q, ids, next)
  PROVE  Queued(bs, loadEvents') /\ Forked(bs, loadEvents', fork')
<1>1. CASE Len(next) = 1
  <2>1. next[1] \in LoadEvents
    BY <1>1
  <2>2. loadEvents' = Append(q, [event |-> next[1], branches |-> ids]) /\ fork' = NoFork
    BY <1>1 DEF Follow
  <2>3. Queued(bs, loadEvents')
    BY <2>1, <2>2, QueuedAppend
  <2>4. fork' \in [events : Seq(LoadEvents), of : Seq(Nat), left : Seq(Nat), branches : Seq(Nat)]
        /\ fork'.events = <<>>
    BY <2>2 DEF NoFork
  <2> QED BY <2>3, <2>4 DEF Forked
<1>2. CASE Len(next) # 1
  <2>1. loadEvents' = q /\ fork' = [events |-> next, of |-> ids, left |-> ids, branches |-> <<>>]
    BY <1>2 DEF Follow
  <2>2. /\ fork' \in [events : Seq(LoadEvents), of : Seq(Nat), left : Seq(Nat), branches : Seq(Nat)]
        /\ fork'.of = ids /\ fork'.left = ids /\ fork'.branches = <<>>
    BY <2>1
  <2>3. Range(fork'.branches) = {}
    BY <2>2 DEF Range
  <2> QED BY <2>1, <2>2, <2>3 DEF Forked, Open, Disjoint, Apart
<1> QED BY <1>1, <1>2

\* The roots are handed to the only load event, or branched for all.
LEMMA StartLoadsStep == ASSUME SBInv, StartLoads PROVE SBInv'
<1> DEFINE ids == [r \in 1 .. Len(branches) |-> r]
<1>1. /\ Follow(<<>>, ids, params.loadSequences) /\ branches' = branches /\ params' = params
      /\ sbPhase = "preOS" /\ sbPhase' = "loads"
  BY DEF StartLoads
<1>2. Len(branches) \in Nat /\ DOMAIN branches = 1 .. Len(branches)
  BY SequenceFacts DEF SBInv, IsTree
<1>3. ids \in Seq(Nat) /\ Range(ids) \subseteq DOMAIN branches
  BY <1>2 DEF Range
<1> HIDE DEF ids
<1>4. Open(branches, ids)
  BY <1>1, <1>3 DEF SBInv, Open
<1>5. Queued(branches, <<>>) /\ Apart(<<>>, ids)
  BY DEF Queued, Apart
<1>6. params.loadSequences \in Seq(LoadEvents)
  BY DEF SBInv
<1>7. Queued(branches, loadEvents') /\ Forked(branches, loadEvents', fork')
  BY <1>1, <1>3, <1>4, <1>5, <1>6, FollowStep
<1>8. BranchedBoot(branches, Len(branches))
  BY <1>1, <1>2 DEF SBInv, BranchedBoot
<1> QED BY <1>1, <1>7, <1>8 DEF SBInv

\* cs are the branches bs with a new sub-branch of b.
WithSubBranch(bs, b) ==
  Append([bs EXCEPT ![b].subBranches = Append(@, Len(bs) + 1)], SubBranch(bs[b]))
Grown(bs, b, cs, n) ==
  /\ IsTree(cs) /\ Len(cs) = n + 1 /\ DOMAIN cs = 1 .. n + 1
  /\ cs[n + 1].subBranches = <<>>
  /\ \A x \in DOMAIN bs \ {b} : cs[x] = bs[x]
  /\ cs[b].bootable = bs[b].bootable

\* A branch gets a sub-branch, which comes last.
LEMMA TreeBranch ==
  ASSUME NEW bs, IsTree(bs), NEW b \in DOMAIN bs, NEW cs, cs = WithSubBranch(bs, b)
  PROVE  Grown(bs, b, cs, Len(bs))
<1> DEFINE n == Len(bs)
           ds == [bs EXCEPT ![b].subBranches = Append(@, n + 1)]
           new == SubBranch(bs[b])
<1>1. n \in Nat /\ DOMAIN bs = 1 .. n
  BY SequenceFacts DEF IsTree
<1>2. IsBranch(bs[b]) /\ IsBranch(new) /\ new.subBranches = <<>>
  BY SubBranchFacts DEF IsTree
<1>3. /\ ds = [i \in 1 .. n |-> ds[i]] /\ \A x \in DOMAIN bs \ {b} : ds[x] = bs[x]
      /\ ds[b] = [bs[b] EXCEPT !.subBranches = Append(@, n + 1)]
  BY <1>1
<1>4. Sequence(ds) /\ Len(ds) = n /\ DOMAIN ds = 1 .. n
  <2> HIDE DEF n, ds
  <2> QED BY <1>1, <1>3, IsSequence
<1>5. /\ IsBranch(ds[b]) /\ ds[b].bootable = bs[b].bootable
      /\ Range(ds[b].subBranches) = Range(bs[b].subBranches) \cup {n + 1}
  <2> HIDE DEF ds
  <2>1. bs[b].subBranches \in Seq(Nat)
    BY <1>2 DEF IsBranch
  <2>2. Sequence(bs[b].subBranches)
    BY <2>1, SeqIsSequence
  <2>3. Range(Append(bs[b].subBranches, n + 1)) = Range(bs[b].subBranches) \cup {n + 1}
    BY <2>2, AppendFacts
  <2>4. Append(bs[b].subBranches, n + 1) \in Seq(Nat)
    BY <1>1, <2>1
  <2>5. /\ ds[b].subBranches = Append(bs[b].subBranches, n + 1) /\ DOMAIN ds[b] = DOMAIN bs[b]
        /\ ds[b].bootable = bs[b].bootable /\ ds[b].profile = bs[b].profile
    BY <1>2, <1>3 DEF IsBranch
  <2> QED BY <1>2, <2>3, <2>4, <2>5 DEF IsBranch
<1> HIDE DEF ds, new
<1>6. cs = Append(ds, new)
  BY DEF ds, new, WithSubBranch
<1>7. /\ Sequence(cs) /\ Len(cs) = n + 1 /\ DOMAIN cs = 1 .. n + 1
      /\ cs[n + 1] = new /\ \A i \in 1 .. n : cs[i] = ds[i]
  <2>1. /\ Sequence(cs) /\ Len(cs) = Len(ds) + 1 /\ DOMAIN cs = 1 .. Len(ds) + 1
        /\ cs[Len(ds) + 1] = new /\ \A i \in 1 .. Len(ds) : cs[i] = ds[i]
    BY <1>4, <1>6, AppendFacts
  <2> HIDE DEF n
  <2> QED BY <1>4, <2>1
<1>8. ASSUME NEW c \in DOMAIN cs
      PROVE  IsBranch(cs[c]) /\ \A s \in Range(cs[c].subBranches) : s \in DOMAIN cs /\ c < s
  <2> HIDE DEF n
  <2>1. CASE c = n + 1
    <3>1. Range(new.subBranches) = {}
      BY <1>2 DEF Range
    <3> QED BY <1>2, <1>7, <2>1, <3>1
  <2>2. CASE c = b
    <3>1. cs[c] = ds[b] /\ c \in 1 .. n
      BY <1>1, <1>7, <2>2
    <3>2. \A s \in Range(bs[b].subBranches) : s \in DOMAIN bs /\ b < s
      BY DEF IsTree
    <3>3. \A s \in Range(ds[b].subBranches) : s \in 1 .. n + 1 /\ b < s
      BY <1>1, <1>5, <3>2
    <3> QED BY <1>5, <1>7, <2>2, <3>1, <3>3
  <2>3. CASE c \in DOMAIN bs \ {b}
    BY <1>1, <1>3, <1>7, <2>3 DEF IsTree
  <2> QED BY <1>1, <1>7, <2>1, <2>2, <2>3
<1>9. IsTree(cs)
  BY <1>7, <1>8 DEF IsTree
<1> HIDE DEF n
<1>10. Grown(bs, b, cs, n)
  BY <1>1, <1>2, <1>3, <1>5, <1>7, <1>9 DEF Grown
<1> QED BY <1>10 DEF n

\* The new branch is in nobody's hands, and its parent in that of no load event.
LEMMA MakeBranchStep == ASSUME SBInv, MakeBranch PROVE SBInv'
<1> DEFINE b == Head(fork.left)
           n == Len(branches)
           F == [events : Seq(LoadEvents), of : Seq(Nat), left : Seq(Nat), branches : Seq(Nat)]
<1>1. /\ sbPhase = "loads" /\ sbPhase' = "loads" /\ fork.events # <<>> /\ fork.left # <<>>
      /\ loadEvents' = loadEvents /\ params' = params
  BY DEF MakeBranch
<1>2. /\ Queued(branches, loadEvents) /\ Forked(branches, loadEvents, fork) /\ IsTree(branches)
      /\ BranchedBoot(branches, n) /\ fork \in F
  BY <1>1 DEF SBInv, Forked
<1>3. n \in Nat /\ DOMAIN branches = 1 .. n
  BY <1>2, SequenceFacts DEF IsTree
<1>4. fork.left \in Seq(Nat) /\ fork.branches \in Seq(Nat)
  BY <1>2
<1>5. /\ b \in Range(fork.left) /\ Tail(fork.left) \in Seq(Nat)
      /\ Range(Tail(fork.left)) \subseteq Range(fork.left)
  BY <1>1, <1>4, HeadTail
<1>6. b \in Range(fork.of) /\ b \in DOMAIN branches
  BY <1>1, <1>2, <1>5 DEF Forked
<1> HIDE DEF b, n, F
<1>7. CASE ~ Branches(b)
  <2>1. fork' = [fork EXCEPT !.left = Tail(@)] /\ branches' = branches
    BY <1>7 DEF MakeBranch, b
  <2>2. /\ fork' \in F /\ fork'.events = fork.events /\ fork'.of = fork.of
        /\ fork'.left = Tail(fork.left) /\ fork'.branches = fork.branches
    BY <1>2, <1>5, <2>1 DEF F
  <2>3. Forked(branches, loadEvents, fork')
    BY <1>1, <1>2, <1>5, <2>2 DEF Forked, F
  <2> QED BY <1>1, <1>2, <2>1, <2>3 DEF SBInv, n
<1>8. CASE Branches(b)
  <2>1. /\ branches' = Append([branches EXCEPT ![b].subBranches = Append(@, n + 1)], SubBranch(branches[b]))
        /\ fork' = [fork EXCEPT !.left = Tail(@), !.branches = Append(@, n + 1)]
    BY <1>8 DEF MakeBranch, b, n
  <2>2. /\ IsTree(branches') /\ Len(branches') = n + 1 /\ DOMAIN branches' = 1 .. n + 1
        /\ branches'[n + 1].subBranches = <<>> /\ \A x \in DOMAIN branches \ {b} : branches'[x] = branches[x]
        /\ branches'[b].bootable = branches[b].bootable
    <3>1. branches' = WithSubBranch(branches, b)
      BY <2>1 DEF WithSubBranch, n
    <3>2. Grown(branches, b, branches', n)
      BY <1>2, <1>6, <3>1, TreeBranch DEF n
    <3> QED BY <3>2 DEF Grown
  <2>3. /\ fork' \in F /\ fork'.events = fork.events /\ fork'.of = fork.of
        /\ fork'.left = Tail(fork.left) /\ fork'.branches = Append(fork.branches, n + 1)
    <3>1. Append(fork.branches, n + 1) \in Seq(Nat)
      BY <1>3, <1>4
    <3> QED BY <1>2, <1>5, <2>1, <3>1 DEF F
  <2>4. Range(fork'.branches) = Range(fork.branches) \cup {n + 1}
    <3>1. Sequence(fork.branches)
      BY <1>4, SeqIsSequence
    <3> QED BY <2>3, <3>1, AppendFacts
  <2>5. Queued(branches', loadEvents)
    <3>1. ASSUME NEW i \in DOMAIN loadEvents, NEW x \in Range(loadEvents[i].branches)
          PROVE  x \in DOMAIN branches' /\ branches'[x] = branches[x]
      <4>1. x # b
        BY <1>1, <1>2, <1>6 DEF Forked, Apart, Disjoint
      <4>2. x \in DOMAIN branches
        BY <1>2 DEF Queued, Open
      <4> QED BY <1>3, <2>2, <4>1, <4>2
    <3> QED BY <1>2, <3>1, QueuedKept
  <2>6. Open(branches', fork'.branches)
    <3>1. ASSUME NEW x \in Range(fork.branches)
          PROVE  x \in DOMAIN branches' /\ branches'[x].subBranches = <<>>
      <4>1. x # b /\ x \in DOMAIN branches /\ branches[x].subBranches = <<>>
        BY <1>1, <1>2, <1>6 DEF Forked, Disjoint, Open
      <4> QED BY <1>3, <2>2, <4>1
    <3>2. n + 1 \in DOMAIN branches'
      BY <1>3, <2>2
    <3> QED BY <2>2, <2>4, <3>1, <3>2 DEF Open
  <2>7. Disjoint(fork'.branches, fork'.of) /\ Apart(loadEvents, fork'.branches)
    <3>1. n + 1 \notin DOMAIN branches
      BY <1>3
    <3>2. n + 1 \notin Range(fork.of)
      BY <1>1, <1>2, <3>1 DEF Forked
    <3>3. \A i \in DOMAIN loadEvents : n + 1 \notin Range(loadEvents[i].branches)
      BY <1>2, <3>1 DEF Queued, Open
    <3> QED BY <1>1, <1>2, <2>3, <2>4, <3>2, <3>3 DEF Forked, Apart, Disjoint
  <2>8. Range(fork'.of) \subseteq DOMAIN branches' /\ Range(fork'.left) \subseteq Range(fork'.of)
    <3>1. DOMAIN branches \subseteq DOMAIN branches'
      BY <1>3, <2>2
    <3> QED BY <1>1, <1>2, <1>5, <2>3, <3>1 DEF Forked
  <2>9. Forked(branches', loadEvents, fork')
    BY <1>1, <1>2, <2>3, <2>6, <2>7, <2>8 DEF Forked, F
  <2>10. BranchedBoot(branches', Len(branches'))
    <3>1. ASSUME NEW x \in 1 .. n + 1, branches'[x].subBranches # <<>> PROVE branches'[x].bootable
      <4>1. CASE x = n + 1
        BY <2>2, <3>1, <4>1
      <4>2. CASE x = b
        BY <1>8, <2>2, <4>2 DEF Branches
      <4>3. CASE x \in DOMAIN branches \ {b}
        BY <1>2, <1>3, <2>2, <3>1, <4>3 DEF BranchedBoot
      <4> QED BY <1>3, <4>1, <4>2, <4>3
    <3> QED BY <2>2, <3>1 DEF BranchedBoot
  <2> QED BY <1>1, <2>2, <2>5, <2>9, <2>10 DEF SBInv
<1> QED BY <1>7, <1>8

\* The new branches are handed to the load event they were made for.
LEMMA QueueLoadEventStep == ASSUME SBInv, QueueLoadEvent PROVE SBInv'
<1> DEFINE F == [events : Seq(LoadEvents), of : Seq(Nat), left : Seq(Nat), branches : Seq(Nat)]
           e == [event |-> Head(fork.events), branches |-> fork.branches]
<1>1. /\ sbPhase = "loads" /\ sbPhase' = "loads" /\ fork.events # <<>>
      /\ loadEvents' = Append(loadEvents, e)
      /\ fork' = [fork EXCEPT !.events = Tail(@), !.left = fork.of, !.branches = <<>>]
      /\ branches' = branches /\ params' = params
  BY DEF QueueLoadEvent
<1>2. /\ Queued(branches, loadEvents) /\ Forked(branches, loadEvents, fork)
      /\ BranchedBoot(branches, Len(branches)) /\ fork \in F
  BY <1>1 DEF SBInv, Forked
<1>3. fork.events \in Seq(LoadEvents) /\ fork.branches \in Seq(Nat)
  BY <1>2
<1>4. Head(fork.events) \in LoadEvents /\ Tail(fork.events) \in Seq(LoadEvents)
  BY <1>1, <1>3, HeadTail
<1>5. /\ Range(fork.of) \subseteq DOMAIN branches /\ Open(branches, fork.branches)
      /\ Disjoint(fork.branches, fork.of) /\ Apart(loadEvents, fork.of) /\ Apart(loadEvents, fork.branches)
  BY <1>1, <1>2 DEF Forked
<1>6. Queued(branches, loadEvents')
  BY <1>1, <1>2, <1>3, <1>4, <1>5, QueuedAppend
<1>7. /\ fork' \in F /\ fork'.of = fork.of /\ fork'.left = fork.of /\ fork'.branches = <<>>
  <2> HIDE DEF e
  <2>1. DOMAIN fork' = DOMAIN fork /\ fork' = [events |-> Tail(fork.events), of |-> fork.of,
                                              left |-> fork.of, branches |-> <<>>]
    BY <1>1, <1>2
  <2> QED BY <1>2, <1>4, <2>1
<1>8. Range(fork'.branches) = {}
  BY <1>7 DEF Range
<1>9. Apart(loadEvents', fork.of)
  <2>1. /\ DOMAIN loadEvents' = 1 .. Len(loadEvents) + 1 /\ DOMAIN loadEvents = 1 .. Len(loadEvents)
        /\ Len(loadEvents) \in Nat
        /\ loadEvents'[Len(loadEvents) + 1] = e /\ \A i \in 1 .. Len(loadEvents) : loadEvents'[i] = loadEvents[i]
    <3> DEFINE E == [event : LoadEvents, branches : Seq(Nat)]
    <3>1. loadEvents \in Seq(E) /\ e \in E
      BY <1>2, <1>3, <1>4 DEF Queued
    <3> HIDE DEF E, e
    <3> QED BY <1>1, <3>1
  <2>2. ASSUME NEW i \in DOMAIN loadEvents' PROVE Disjoint(loadEvents'[i].branches, fork.of)
    <3>1. CASE i = Len(loadEvents) + 1
      BY <1>5, <2>1, <3>1
    <3>2. CASE i \in DOMAIN loadEvents
      BY <1>5, <2>1, <3>2 DEF Apart
    <3> QED BY <2>1, <3>1, <3>2
  <2> QED BY <2>2 DEF Apart
<1>10. Forked(branches, loadEvents', fork')
  BY <1>5, <1>7, <1>8, <1>9 DEF Forked, Open, Apart, Disjoint
<1> QED BY <1>1, <1>2, <1>6, <1>10 DEF SBInv

\* A load event only changes branches that have not been branched.
LEMMA ProcessOSLoadEventStep == ASSUME SBInv, ProcessOSLoadEvent PROVE SBInv'
<1> DEFINE e == Head(loadEvents)
<1>1. sbPhase = "loads" /\ loadEvents # <<>>
  BY DEF ProcessOSLoadEvent
<1>2. /\ Queued(branches, loadEvents) /\ IsTree(branches) /\ BranchedBoot(branches, Len(branches))
      /\ params.loadSequences \in Seq(LoadEvents)
  BY <1>1 DEF SBInv
<1>3. /\ e.event \in LoadEvents /\ e.branches \in Seq(Nat) /\ Open(branches, e.branches)
      /\ Queued(branches, Tail(loadEvents)) /\ Apart(Tail(loadEvents), e.branches)
  BY <1>1, <1>2, QueuedTail
<1> HIDE DEF e
<1>4. CASE CannotLoad(e)
  BY <1>4 DEF ProcessOSLoadEvent, e, Fail, SBInv
<1>5. CASE ~ CannotLoad(e)
  <2>1. /\ sbPhase' = IF ExtendsBranched(e) THEN "panic" ELSE "loads"
        /\ branches' = Loaded(e) /\ params' = params
        /\ Follow(Tail(loadEvents), e.branches, e.event.next)
    BY <1>5 DEF ProcessOSLoadEvent, e
  <2>2. branches' = [b \in DOMAIN branches |-> branches'[b]]
    BY <2>1 DEF Loaded
  <2>3. \A b \in DOMAIN branches : b \notin Range(e.branches) => branches'[b] = branches[b]
    BY <2>1 DEF Loaded
  <2>4. ASSUME NEW b \in DOMAIN branches PROVE Measures(branches[b], branches'[b])
    <3>1. IsBranch(branches[b])
      BY <1>2 DEF IsTree
    <3>2. Measures(branches[b], branches[b]) /\ Measures(branches[b], Load(branches[b], e.event))
      BY <3>1, LoadFacts DEF Measures
    <3> QED BY <2>1, <3>2 DEF Loaded
  <2>5. IsTree(branches') /\ Len(branches') = Len(branches) /\ DOMAIN branches' = DOMAIN branches
    BY <1>2, <2>2, <2>4, TreeMeasured
  <2>6. ASSUME NEW b \in DOMAIN branches, branches[b].subBranches # <<>>
        PROVE  branches'[b] = branches[b]
    BY <1>3, <2>3, <2>6 DEF Open
  <2>7. sbPhase' = "loads"
    BY <2>1, <2>6 DEF ExtendsBranched
  <2>8. Queued(branches', Tail(loadEvents))
    <3>1. ASSUME NEW i \in DOMAIN Tail(loadEvents), NEW b \in Range(Tail(loadEvents)[i].branches)
          PROVE  b \in DOMAIN branches' /\ branches'[b].subBranches = branches[b].subBranches
      BY <1>3, <2>4, <2>5 DEF Queued, Open, Measures
    <3> QED BY <1>3, <3>1, QueuedKept
  <2>9. Open(branches', e.branches)
    BY <1>3, <2>4, <2>5 DEF Open, Measures
  <2>10. e.event.next \in Seq(LoadEvents)
    BY <1>3, LoadEventsAssumption
  <2>11. Queued(branches', loadEvents') /\ Forked(branches', loadEvents', fork')
    BY <1>3, <2>1, <2>8, <2>9, <2>10, FollowStep
  <2>12. BranchedBoot(branches', Len(branches'))
    <3>1. DOMAIN branches = 1 .. Len(branches)
      BY <1>2, SequenceFacts DEF IsTree
    <3>2. ASSUME NEW b \in DOMAIN branches, branches'[b].subBranches # <<>> PROVE branches'[b].bootable
      <4>1. branches[b].subBranches # <<>>
        BY <2>4, <3>2 DEF Measures
      <4> QED BY <1>2, <2>6, <3>1, <4>1 DEF BranchedBoot
    <3> QED BY <2>5, <3>1, <3>2 DEF BranchedBoot
  <2> QED BY <1>2, <2>1, <2>5, <2>7, <2>11, <2>12 DEF SBInv
<1> QED BY <1>4, <1>5

\* Nothing has been looked at.
LEMMA NoneLookedAt ==
  ASSUME NEW bs, NEW j
  PROVE  Sequence(<<>>) /\ Range(<<>>) = LiveProfiles(bs, j, 0)
<1>1. 1 .. 0 = {}
  OBVIOUS
<1>2. LiveProfiles(bs, j, 0) = {}
  BY <1>1 DEF LiveProfiles
<1> QED BY <1>2 DEF Sequence, Range

\* All branches are left to be joined.
LEMMA StartJoinStep == ASSUME SBInv, StartJoin PROVE SBInv'
<1>1. /\ sbPhase = "loads" /\ sbPhase' = "join" /\ join' = Len(branches) /\ sub' = 0
      /\ subProfiles' = <<>> /\ branches' = branches /\ params' = params
  BY DEF StartJoin
<1>2. IsTree(branches) /\ BranchedBoot(branches, Len(branches))
  BY <1>1 DEF SBInv
<1>3. Len(branches) \in Nat /\ DOMAIN branches = 1 .. Len(branches)
  BY <1>2, SequenceFacts DEF IsTree
<1>4. Sequence(<<>>) /\ Range(<<>>) = LiveProfiles(branches, Len(branches), 0)
  BY NoneLookedAt
<1>5. Len(branches) > 0 => 0 \in 0 .. Len(branches[Len(branches)].subBranches)
  <2>1. Len(branches) > 0 => branches[Len(branches)].subBranches \in Seq(Nat)
    BY <1>2, <1>3 DEF IsTree, IsBranch
  <2> QED BY <2>1
<1>6. Len(branches) \in 0 .. Len(branches) /\ Len(branches) + 1 .. Len(branches) = {}
  BY <1>3
<1>7. Joining(branches, Len(branches), 0, <<>>)
  BY <1>2, <1>4, <1>5, <1>6 DEF Joining
<1> QED BY <1>1, <1>7 DEF SBInv

\* The profiles of one more sub-branch.
LEMMA JoinSubBranchStep == ASSUME SBInv, JoinSubBranch PROVE SBInv'
<1> DEFINE subs == branches[join].subBranches
           sb == branches[subs[sub + 1]]
<1>1. /\ sbPhase = "join" /\ sbPhase' = "join" /\ join > 0 /\ sub < Len(subs) /\ sub' = sub + 1
      /\ subProfiles' = IF sb.bootable THEN Append(subProfiles, sb.profile) ELSE subProfiles
      /\ branches' = branches /\ join' = join /\ params' = params
  BY DEF JoinSubBranch, Kept
<1>2. IsTree(branches) /\ Joining(branches, join, sub, subProfiles)
  BY <1>1 DEF SBInv
<1>3. /\ sub \in 0 .. Len(subs) /\ Sequence(subProfiles)
      /\ Range(subProfiles) = LiveProfiles(branches, join, sub)
  BY <1>1, <1>2 DEF Joining
<1>4. subs \in Seq(Nat)
  <2>1. join \in DOMAIN branches
    <3>1. Len(branches) \in Nat /\ DOMAIN branches = 1 .. Len(branches)
      BY <1>2, SequenceFacts DEF IsTree
    <3>2. join \in 0 .. Len(branches)
      BY <1>2 DEF Joining
    <3> QED BY <1>1, <3>1, <3>2
  <2> QED BY <1>2, <2>1 DEF IsTree, IsBranch
<1>5. sub + 1 \in 0 .. Len(subs) /\ 1 .. sub + 1 = (1 .. sub) \cup {sub + 1}
  BY <1>1, <1>3, <1>4
<1>6. LiveProfiles(branches, join, sub + 1) =
        LiveProfiles(branches, join, sub) \cup (IF sb.bootable THEN {sb.profile} ELSE {})
  BY <1>5 DEF LiveProfiles
<1> HIDE DEF sb
<1>7. Sequence(subProfiles') /\ Range(subProfiles') = LiveProfiles(branches, join, sub + 1)
  <2>1. CASE sb.bootable
    <3>1. /\ Sequence(Append(subProfiles, sb.profile))
          /\ Range(Append(subProfiles, sb.profile)) = Range(subProfiles) \cup {sb.profile}
      BY <1>3, AppendFacts
    <3>2. subProfiles' = Append(subProfiles, sb.profile)
      BY <1>1, <2>1
    <3>3. LiveProfiles(branches, join, sub + 1) = Range(subProfiles) \cup {sb.profile}
      BY <1>3, <1>6, <2>1
    <3> QED BY <3>1, <3>2, <3>3
  <2>2. CASE ~ sb.bootable
    BY <1>1, <1>3, <1>6, <2>2
  <2> QED BY <2>1, <2>2
<1>8. Joining(branches, join, sub + 1, subProfiles')
  BY <1>2, <1>5, <1>7 DEF Joining
<1> QED BY <1>1, <1>8 DEF SBInv

\* The profiles of all sub-branches that can boot.
LEMMA AllLookedAt ==
  ASSUME NEW bs, NEW j, bs[j].subBranches \in Seq(Nat)
  PROVE  LiveProfiles(bs, j, Len(bs[j].subBranches)) =
           {bs[s].profile : s \in {x \in Range(bs[j].subBranches) : bs[x].bootable}}
<1> DEFINE subs == bs[j].subBranches
<1>1. DOMAIN subs = 1 .. Len(subs)
  OBVIOUS
<1>2. ASSUME NEW p \in LiveProfiles(bs, j, Len(subs))
      PROVE  p \in {bs[s].profile : s \in {x \in Range(subs) : bs[x].bootable}}
  <2>1. PICK i \in 1 .. Len(subs) : bs[subs[i]].bootable /\ p = bs[subs[i]].profile
    BY <1>2 DEF LiveProfiles
  <2>2. subs[i] \in Range(subs)
    BY <1>1 DEF Range
  <2> QED BY <2>1, <2>2
<1>3. ASSUME NEW p \in {bs[s].profile : s \in {x \in Range(subs) : bs[x].bootable}}
      PROVE  p \in LiveProfiles(bs, j, Len(subs))
  <2>1. PICK s \in Range(subs) : bs[s].bootable /\ p = bs[s].profile
    BY <1>3
  <2>2. PICK i \in 1 .. Len(subs) : subs[i] = s
    BY <1>1 DEF Range
  <2> QED BY <2>1, <2>2 DEF LiveProfiles
<1> QED BY <1>2, <1>3

\* What has been joined depends on later branches only.
LEMMA JoinedKept ==
  ASSUME NEW bs, IsTree(bs), NEW cs, NEW b \in DOMAIN bs, Joined(bs, b), cs[b] = bs[b],
         \A s \in DOMAIN bs : b < s => cs[s] = bs[s]
  PROVE  Joined(cs, b)
<1>1. \A s \in Range(bs[b].subBranches) : cs[s] = bs[s]
  BY DEF IsTree
<1>2. {s \in Range(cs[b].subBranches) : cs[s].bootable} = {s \in Range(bs[b].subBranches) : bs[s].bootable}
  BY <1>1
<1>3. {cs[s].profile : s \in {x \in Range(cs[b].subBranches) : cs[x].bootable}} =
        {bs[s].profile : s \in {x \in Range(bs[b].subBranches) : bs[x].bootable}}
  BY <1>1, <1>2
<1> QED BY <1>2, <1>3 DEF Joined

\* The branch that is joined: its sub-branches have been, and do not change.
LEMMA JoinsExactly ==
  ASSUME NEW bs, IsTree(bs), NEW j \in DOMAIN bs, NEW cs, NEW ps, Sequence(ps),
         bs[j].subBranches # <<>> => bs[j].bootable,
         Range(ps) = {bs[s].profile : s \in {x \in Range(bs[j].subBranches) : bs[x].bootable}},
         \A s \in DOMAIN bs : s # j => cs[s] = bs[s],
         cs[j] = IF bs[j].subBranches = <<>> THEN bs[j]
                 ELSE IF ps = <<>> THEN Unbootable(bs[j])
                 ELSE [bs[j] EXCEPT !.profile = AddProfileOR(@, ps)]
  PROVE  Joined(cs, j) /\ Measures(bs[j], cs[j])
<1> DEFINE live == {x \in Range(bs[j].subBranches) : bs[x].bootable}
           i == [op |-> "or", profiles |-> ps]
<1>1. IsBranch(bs[j]) /\ \A s \in Range(bs[j].subBranches) : s \in DOMAIN bs /\ j < s
  BY DEF IsTree
<1>2. DOMAIN bs \subseteq Nat
  BY SequenceFacts DEF IsTree
<1>3. \A s \in Range(bs[j].subBranches) : cs[s] = bs[s]
  BY <1>1, <1>2
<1>4. CASE bs[j].subBranches = <<>>
  BY <1>1, <1>4 DEF Joined, Measures
<1>5. CASE bs[j].subBranches # <<>> /\ ps = <<>>
  <2>1. Range(ps) = {}
    BY <1>5 DEF Range
  <2>2. live = {}
    <3>1. \A s \in live : bs[s].profile \in Range(ps)
      OBVIOUS
    <3> QED BY <2>1, <3>1
  <2>3. cs[j] = Unbootable(bs[j])
    BY <1>5
  <2>4. /\ DOMAIN cs[j] = DOMAIN bs[j] /\ cs[j].subBranches = bs[j].subBranches
        /\ cs[j].profile = bs[j].profile /\ cs[j].bootable = FALSE
    BY <1>1, <2>3 DEF Unbootable, IsBranch
  <2>5. {x \in Range(cs[j].subBranches) : cs[x].bootable} = {}
    BY <1>3, <2>2, <2>4
  <2> QED BY <1>1, <2>4, <2>5 DEF Joined, Measures, IsBranch
<1>6. CASE bs[j].subBranches # <<>> /\ ps # <<>>
  <2>1. Range(ps) # {}
    <3>1. Len(ps) \in Nat \ {0} /\ DOMAIN ps = 1 .. Len(ps)
      BY <1>6, SequenceFacts DEF Sequence
    <3>2. 1 \in DOMAIN ps
      BY <3>1
    <3> QED BY <3>2 DEF Range
  <2>2. live # {}
    BY <2>1
  <2>3. cs[j] = [bs[j] EXCEPT !.profile = Append(@, i)]
    BY <1>6 DEF AddProfileOR
  <2>4. /\ DOMAIN cs[j] = DOMAIN bs[j] /\ cs[j].subBranches = bs[j].subBranches
        /\ cs[j].profile = Append(bs[j].profile, i) /\ cs[j].bootable = bs[j].bootable
    BY <1>1, <2>3 DEF IsBranch
  <2>5. bs[j].bootable = TRUE
    BY <1>1, <1>6 DEF IsBranch
  <2> HIDE DEF i
  <2>6. /\ Sequence(cs[j].profile) /\ cs[j].profile[Len(cs[j].profile)] = i
    <3>1. Sequence(bs[j].profile)
      BY <1>1 DEF IsBranch
    <3>2. /\ Sequence(Append(bs[j].profile, i)) /\ Len(Append(bs[j].profile, i)) = Len(bs[j].profile) + 1
          /\ Append(bs[j].profile, i)[Len(bs[j].profile) + 1] = i
      BY <3>1, AppendFacts
    <3> QED BY <2>4, <3>2
  <2>7. {x \in Range(cs[j].subBranches) : cs[x].bootable} = live
    BY <1>3, <2>4
  <2>8. {cs[s].profile : s \in live} = {bs[s].profile : s \in live}
    BY <1>3
  <2>9. i.op = "or" /\ i.profiles = ps
    BY DEF i
  <2>10. Measures(bs[j], cs[j])
    BY <1>1, <2>4, <2>6 DEF Measures, IsBranch
  <2> HIDE DEF live
  <2>11. Range(ps) = {bs[s].profile : s \in live}
    BY DEF live
  <2>12. Joined(cs, j)
    BY <2>2, <2>4, <2>5, <2>6, <2>7, <2>8, <2>9, <2>11 DEF Joined
  <2> QED BY <2>10, <2>12
<1> QED BY <1>4, <1>5, <1>6

\* The next branch is joined, and the later ones stay joined.
LEMMA JoinStep == ASSUME SBInv, Join PROVE SBInv'
<1> DEFINE subs == branches[join].subBranches
           new == IF subs = <<>> THEN branches[join]
                  ELSE IF subProfiles = <<>> THEN Unbootable(branches[join])
                  ELSE [branches[join] EXCEPT !.profile = AddProfileOR(@, subProfiles)]
<1>1. /\ sbPhase = "join" /\ join > 0 /\ sub = Len(subs) /\ join' = join - 1 /\ sub' = 0
      /\ subProfiles' = <<>> /\ params' = params
      /\ sbPhase' = IF subProfiles # <<>> /\ ~ branches[join].bootable THEN "panic" ELSE "join"
  BY DEF Join
<1>2. IsTree(branches) /\ Joining(branches, join, sub, subProfiles)
  BY <1>1 DEF SBInv
<1>3. Len(branches) \in Nat /\ DOMAIN branches = 1 .. Len(branches)
  BY <1>2, SequenceFacts DEF IsTree
<1>4. join \in 1 .. Len(branches) /\ join \in DOMAIN branches
  <2>1. join \in 0 .. Len(branches)
    BY <1>2 DEF Joining
  <2> QED BY <1>1, <1>3, <2>1
<1>5. subs \in Seq(Nat) /\ branches[join].bootable \in BOOLEAN
  BY <1>2, <1>4 DEF IsTree, IsBranch
<1>6. /\ Sequence(subProfiles)
      /\ Range(subProfiles) = {branches[s].profile : s \in {x \in Range(subs) : branches[x].bootable}}
  <2>1. Sequence(subProfiles) /\ Range(subProfiles) = LiveProfiles(branches, join, Len(subs))
    BY <1>1, <1>2 DEF Joining
  <2> QED BY <1>5, <2>1, AllLookedAt
<1>7. subs # <<>> => branches[join].bootable
  BY <1>2, <1>4 DEF Joining, BranchedBoot
<1>8. sbPhase' = "join"
  <2>1. subProfiles # <<>> => subs # <<>>
    <3>1. ASSUME subs = <<>> PROVE subProfiles = <<>>
      <4>1. Range(subs) = {}
        BY <3>1 DEF Range
      <4>2. Range(subProfiles) = {}
        BY <1>6, <4>1
      <4>3. Len(subProfiles) \in Nat /\ DOMAIN subProfiles = 1 .. Len(subProfiles) /\ 1 \notin DOMAIN subProfiles
        BY <1>6, <4>2, SequenceFacts DEF Range
      <4> QED BY <1>6, <4>3 DEF Sequence
    <3> QED BY <3>1
  <2> QED BY <1>1, <1>7, <2>1
<1>9. /\ branches' = [b \in DOMAIN branches |-> branches'[b]]
      /\ \A b \in DOMAIN branches : b # join => branches'[b] = branches[b]
      /\ branches'[join] = new
  <2>1. branches' = IF subs = <<>> THEN branches
                    ELSE IF subProfiles = <<>> THEN [branches EXCEPT ![join] = Unbootable(@)]
                    ELSE [branches EXCEPT ![join].profile = AddProfileOR(@, subProfiles)]
    BY DEF Join
  <2>2. branches = [b \in DOMAIN branches |-> branches[b]]
    BY <1>2 DEF IsTree, Sequence
  <2>3. CASE subs = <<>>
    BY <2>1, <2>2, <2>3
  <2>4. CASE subs # <<>> /\ subProfiles = <<>>
    BY <1>4, <2>1, <2>4
  <2>5. CASE subs # <<>> /\ subProfiles # <<>>
    BY <1>4, <2>1, <2>5
  <2> QED BY <2>3, <2>4, <2>5
<1>10. Joined(branches', join) /\ Measures(branches[join], branches'[join])
  BY <1>2, <1>4, <1>6, <1>7, <1>9, JoinsExactly
<1>11. IsTree(branches') /\ Len(branches') = Len(branches) /\ DOMAIN branches' = DOMAIN branches
  <2>1. \A b \in DOMAIN branches : Measures(branches[b], branches[b])
    BY <1>2 DEF IsTree, Measures
  <2>2. \A b \in DOMAIN branches : Measures(branches[b], branches'[b])
    BY <1>9, <1>10, <2>1
  <2> QED BY <1>2, <1>9, <2>2, TreeMeasured
<1>12. \A b \in join .. Len(branches) : Joined(branches', b)
  <2>1. ASSUME NEW b \in join + 1 .. Len(branches) PROVE Joined(branches', b)
    <3>1. b \in DOMAIN branches /\ b # join /\ \A s \in DOMAIN branches : b < s => s # join
      BY <1>3, <1>4
    <3>2. Joined(branches, b)
      BY <1>2 DEF Joining
    <3> QED BY <1>2, <1>9, <3>1, <3>2, JoinedKept
  <2> QED BY <1>3, <1>4, <1>10, <2>1
<1>13. BranchedBoot(branches', join - 1)
  <2>1. \A b \in 1 .. join - 1 : b \in DOMAIN branches /\ b # join /\ b \in 1 .. join
    BY <1>3, <1>4
  <2> QED BY <1>2, <1>9, <2>1 DEF Joining, BranchedBoot
<1>14. join - 1 > 0 => 0 \in 0 .. Len(branches'[join - 1].subBranches)
  <2>1. join - 1 > 0 => join - 1 \in DOMAIN branches'
    BY <1>3, <1>4, <1>11
  <2>2. join - 1 > 0 => branches'[join - 1].subBranches \in Seq(Nat)
    BY <1>11, <2>1 DEF IsTree, IsBranch
  <2> QED BY <2>2
<1>15. Sequence(<<>>) /\ Range(<<>>) = LiveProfiles(branches', join - 1, 0)
  BY NoneLookedAt
<1>16. join - 1 \in 0 .. Len(branches') /\ join - 1 + 1 = join
  BY <1>3, <1>4, <1>11
<1>17. Joining(branches', join - 1, 0, <<>>)
  BY <1>11, <1>12, <1>13, <1>14, <1>15, <1>16 DEF Joining
<1> QED BY <1>1, <1>8, <1>11, <1>17 DEF SBInv

\* The branches of a run are gone after it.
LEMMA FinishRunStep == ASSUME SBInv, FinishRun PROVE SBInv'
<1>1. CASE ~ Bootable
  BY <1>1 DEF FinishRun, Fail, SBInv
<1>2. CASE Bootable
  <2>1. branches' = <<>> /\ sbPhase' \in {"done", "preOS"} /\ params' = params
    BY <1>2 DEF FinishRun
  <2>2. Sequence(<<>>) /\ DOMAIN <<>> = {}
    BY DEF Sequence
  <2>3. IsTree(branches')
    BY <2>1, <2>2 DEF IsTree
  <2> QED BY <2>1, <2>2, <2>3 DEF SBInv
<1> QED BY <1>1, <1>2

\* The invariant is inductive.
LEMMA SBNextPreserves == ASSUME SBInv, SBNext PROVE SBInv'
  BY StartStep, AddRootStep, ProcessPreOSEventStep, StartLoadsStep, MakeBranchStep, QueueLoadEventStep,
     ProcessOSLoadEventStep, StartJoinStep, JoinSubBranchStep, JoinStep, FinishRunStep
  DEF SBNext

\* So it is among the other functions that add to the profile.
LEMMA Invariance == BPSpec => []SBInv
<1>1. BPInit => SBInv
  <2>1. NoRequest.loadSequences \in Seq(LoadEvents)
    BY DEF NoRequest
  <2> QED BY <2>1, InitEstablishes, RequestsAssumption DEF BPInit
<1>2. SBInv /\ [BPNext]_bpVars => SBInv'
  <2> SUFFICES ASSUME SBInv, [BPNext]_bpVars PROVE SBInv'
    OBVIOUS
  <2>1. CASE SBNext
    BY <2>1, SBNextPreserves
  <2>2. CASE UNCHANGED sbVars
    BY <2>2 DEF sbVars, SBInv
  <2> QED
    BY <2>1, <2>2
    DEF BPNext, bpVars, AddsSecureBoot, AddedSecureBoot, AddsBootManager, AddedBootManager, Fails,
        AddSystemdEFIStubProfile, AddSnapModelProfile, ComputesValues
<1> QED BY <1>1, <1>2, PTL DEF BPSpec

(***************************************************************************)
(* run does not panic, whatever the load sequences, the log and the        *)
(* pending updates: extendMeasurement is never called for a branch that    *)
(* has been branched, and no profiles are added to a branch without one.   *)
(***************************************************************************)
THEOREM RunNeverPanics == BPSpec => []NeverPanics
<1>1. SBInv => NeverPanics
  BY DEF SBInv, NeverPanics
<1> QED BY <1>1, Invariance, PTL

(***************************************************************************)
(* Joining from the last branch to the first leaves in every branch        *)
(* exactly the final profiles of the sub-branches that can boot.           *)
(***************************************************************************)
THEOREM JoinIsExact == BPSpec => []JoinedExactly
<1>1. SBInv => JoinedExactly
  BY DEF SBInv, Joining, Joined, JoinedExactly
<1> QED BY <1>1, Invariance, PTL
=============================================================================
