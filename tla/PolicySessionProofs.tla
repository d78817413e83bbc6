------------------------- MODULE PolicySessionProofs -------------------------
(***************************************************************************)
(* Proofs about PolicySession, for any boots, PINs and bounds.             *)
(***************************************************************************)
EXTENDS PolicySession, TLAPS

\* Most leaves need set and first-order reasoning only; those with arithmetic cite SMT.
USE Zenon

(***************************************************************************)
(* The inductive invariant: the hint matches the PIN when that is known,   *)
(* and a ChangePIN that has changed the PIN is going to write the hint for *)
(* it.                                                                     *)
(***************************************************************************)
HintInv ==
  /\ HintMatches
  /\ pins # {} /\ "hint" \in DOMAIN file
  /\ pc = "write" =>
       /\ arg.pin \in Pins
       /\ "hint" \in DOMAIN arg.data
       /\ arg.data.hint = AuthModeHint(arg.pin)

LEMMA InitHint == Init => HintInv
<1> SUFFICES ASSUME Init
             PROVE  HintInv
  OBVIOUS
<1>1. PICK k \in Kinds, sel \in Selections : \E vs \in BootValues(sel) :
        file = KeyData(k[1], k[2], k[3], sel, vs)
  BY DEF Init
<1>2. "hint" \in DOMAIN file /\ file.hint = "none"
  BY <1>1, SMT DEF KeyData
<1>3. pins = {NoPIN} /\ pc = "idle"
  BY DEF Init
<1> QED BY <1>2, <1>3 DEF HintInv, HintMatches

\* ChangePIN up to the new authorization value: a version 0 PIN may be the new one now.
LEMMA ChangePINHint ==
  ASSUME HintInv, NEW old \in Pins, NEW new \in Pins, ChangePIN(old, new)
  PROVE  HintInv'
<1>1. file' = file /\ pins \subseteq pins' /\ pins' \subseteq pins \cup {new} /\ pc' = "write"
  BY DEF ChangePIN, PerformPinChangeV0, PerformPinChange
<1>2. HintMatches'
  <2> SUFFICES ASSUME NEW x \in Pins, pins' = {x}
               PROVE  file.hint = "none" <=> x = NoPIN
    BY <1>1 DEF HintMatches
  <2>1. pins = {x}
    BY <1>1 DEF HintInv
  <2> QED BY <2>1 DEF HintInv, HintMatches
<1>3. arg'.pin = new /\ "hint" \in DOMAIN arg'.data /\ arg'.data.hint = AuthModeHint(new)
  <2>1. CASE file.version = 0
    BY <2>1, SMT DEF ChangePIN, PerformPinChangeV0, HintInv
  <2>2. CASE file.version # 0
    <3> DEFINE hinted == [file EXCEPT !.hint = AuthModeHint(new)]
               private == [hinted.private EXCEPT !.pin = new]
    <3>1. arg' = [data |-> [hinted EXCEPT !.private = private], pin |-> new]
      BY <2>2 DEF ChangePIN, PerformPinChange
    <3>2. "hint" \in DOMAIN hinted /\ hinted.hint = AuthModeHint(new)
      BY DEF HintInv
    <3> HIDE DEF hinted, private
    <3> QED BY <3>1, <3>2
  <2> QED BY <2>1, <2>2
<1> QED BY <1>1, <1>2, <1>3 DEF HintInv, AuthModeHint

\* The end of ChangePIN: the PIN is known, and its hint is in the file.
LEMMA WriteKeyDataHint ==
  ASSUME HintInv, WriteKeyData
  PROVE  HintInv'
<1>1. pc' = "idle" /\ arg.pin \in Pins /\ arg.data.hint = AuthModeHint(arg.pin)
      /\ "hint" \in DOMAIN arg.data
  BY DEF HintInv, WriteKeyData, Return
<1>2. CASE UNCHANGED <<file, pins>>
  BY <1>1, <1>2 DEF HintInv, HintMatches
<1>3. CASE file' = (IF Unchanged THEN file ELSE arg.data) /\ pins' = {arg.pin}
  <2>1. file'.hint = AuthModeHint(arg.pin) /\ "hint" \in DOMAIN file'
    BY <1>1, <1>3 DEF Unchanged, HintInv
  <2>2. HintMatches'
    BY <1>3, <2>1 DEF HintMatches, AuthModeHint
  <2> QED BY <1>1, <1>3, <2>1, <2>2 DEF HintInv
<1> QED BY <1>2, <1>3 DEF WriteKeyData

\* An update keeps the hint and the PIN.
LEMMA UpdateHint ==
  ASSUME HintInv, NEW vs, UpdateKeyPCRProtectionPolicy(vs)
  PROVE  HintInv'
<1>1. "hint" \in DOMAIN file' /\ file'.hint = file.hint /\ UNCHANGED <<pc, pins>> /\ pc = "idle"
  BY DEF UpdateKeyPCRProtectionPolicy, HintInv, call
<1> QED BY <1>1 DEF HintInv, HintMatches

\* The other steps leave the file and the PIN alone.
LEMMA OtherHint ==
  ASSUME HintInv, UNCHANGED <<file, pins>>, pc' # "write" \/ UNCHANGED call
  PROVE  HintInv'
BY DEF HintInv, HintMatches, call, AuthModeHint

LEMMA NextHint == HintInv /\ [Next]_vars => HintInv'
<1> SUFFICES ASSUME HintInv, [Next]_vars
             PROVE  HintInv'
  OBVIOUS
<1>1. CASE UNCHANGED vars
  BY <1>1, OtherHint DEF vars
<1>2. ASSUME NEW old \in Pins, NEW new \in Pins, ChangePIN(old, new)
      PROVE  HintInv'
  BY <1>2, ChangePINHint
<1>3. CASE WriteKeyData
  BY <1>3, WriteKeyDataHint
<1>4. ASSUME NEW vs \in NewValues, UpdateKeyPCRProtectionPolicy(vs)
      PROVE  HintInv'
  BY <1>4, UpdateHint
<1>5. CASE ReadSealedKeyObject \/ Recover \/ BlockReturns
  BY <1>5, OtherHint DEF ReadSealedKeyObject, Recover, BlockReturns, Return
<1>6. ASSUME NEW pin \in Pins, Unseal(pin) \/ ChangePINFails(pin)
      PROVE  HintInv'
  BY <1>6, OtherHint DEF Unseal, ChangePINFails
<1>7. ASSUME NEW ps \in SUBSET PCRs, BlockPCRProtectionPolicies(ps)
      PROVE  HintInv'
  BY <1>7, OtherHint DEF BlockPCRProtectionPolicies
<1>8. ASSUME NEW p \in PCRs, Fence(p)
      PROVE  HintInv'
  BY <1>8, OtherHint DEF Fence, Return
<1>9. ASSUME NEW b \in Boots, Reset(b)
      PROVE  HintInv'
  BY <1>9, OtherHint DEF Reset, Return
<1>10. ASSUME NEW h \in Handles, Undefine(h)
       PROVE  HintInv'
  BY <1>10, OtherHint DEF Undefine
<1> QED BY <1>1, <1>2, <1>3, <1>4, <1>5, <1>6, <1>7, <1>8, <1>9, <1>10 DEF Next

(***************************************************************************)
(* The hint that AuthMode2F reads matches the PIN, through interrupted     *)
(* changes of the PIN and restarts: see HintMatches.                       *)
(***************************************************************************)
THEOREM HintIsTruthful == Spec => []HintMatches
<1>1. HintInv => HintMatches
  BY DEF HintInv
<1> QED BY <1>1, InitHint, NextHint, PTL DEF Spec
-----------------------------------------------------------------------------
(***************************************************************************)
(* Unsealing.  The inductive invariant describes key data by what it was   *)
(* computed from: DataOK(d, vs) says that d has the policies computed for  *)
(* the PCR values vs and for the indices as they were defined at first.    *)
(***************************************************************************)
DataFields ==
  {"version", "public", "private", "handle", "ak", "policies", "hint", "sel", "ors", "count",
   "authorized", "signature"}

LockName == NameOf("lock", FirstNV["lock"])
CounterName(d) == IF d.handle = HandleNull THEN NoName ELSE NameOf(d.handle, FirstNV[d.handle])

KindOK(d) ==
  \/ d.version = 0 /\ d.ak = RsaKey /\ d.handle = "pinIndex" /\ d.policies = V0Policies(RsaKey)
  \/ d.version = 1 /\ d.ak = EccKey /\ d.handle \in {"counter", HandleNull}

\* The values of a policy are those of boots, before any fence, or the ones at its update.
ValuesOK(sel, vs) ==
  /\ \A v \in vs : DOMAIN v = sel /\ \A p \in sel : v[p].fences \in Nat
  /\ (\A v \in vs : \A p \in sel : v[p].fences = 0) \/ (\A v, w \in vs : v = w)

DataOK(d, vs) ==
  /\ DOMAIN d = DataFields /\ DOMAIN d.private = {"public", "pin"}
  /\ KindOK(d)
  /\ d.public.type = "keyedhash" /\ d.public.attrs = "sealed" /\ d.private.public = d.public
  /\ d.public.authPolicy = StaticPolicy(d.version, d.ak, CounterName(d), LockName)
  /\ d.sel \subseteq PCRs /\ ValuesOK(d.sel, vs)
  /\ d.ors = {<< <<"PolicyPCR", v>> >> : v \in vs}
  /\ d.count \in Nat
  /\ d.authorized = AuthorizedPolicy(d.ors, CounterName(d), d.count)
  /\ d.signature = <<d.ak.name, d.authorized,
                     IF d.version = 0 THEN <<>> ELSE PcrPolicyRef(CounterName(d))>>

\* The static metadata that all key data made from the file shares.
SameKey(d, e) == d.version = e.version /\ d.handle = e.handle /\ d.ak = e.ak /\ d.sel = e.sel

\* The PCRs, and the indices that are still defined.
TpmInv ==
  /\ DOMAIN pcr = PCRs
  /\ \A p \in PCRs : DOMAIN pcr[p] = {"boot", "fences"} /\ pcr[p].fences \in Nat
  /\ DOMAIN nv = Handles
  /\ \A h \in Handles : nv[h] # None =>
       /\ DOMAIN nv[h] = {"kind", "ak", "policies", "value", "auth"}
       /\ nv[h].kind = FirstNV[h].kind /\ nv[h].ak = FirstNV[h].ak
       /\ nv[h].policies = FirstNV[h].policies
       /\ nv[h].value \in Nat
  /\ tries \in Nat

\* Whether the index of key data is defined, and its PIN.
Defined(d) == d.handle # HandleNull /\ nv[d.handle] # None
PinOf(d) == IF d.version = 0 THEN nv[d.handle].auth ELSE d.private.pin

\* The PIN that opens key data is in the history of its PINs.
PinOK(d, ps) == (d.version = 0 => Defined(d)) => PinOf(d) \in ps

FileInv ==
  /\ DataOK(file, values)
  /\ Defined(file) => nv[file.handle].value = file.count
  /\ file.handle = HandleNull => file.count = 0
  /\ PinOK(file, pins) /\ pins \subseteq Pins

ObjectInv ==
  \/ object = NoObject
  \/ /\ DOMAIN object = {"held", "data", "values", "pins", "revoked"} /\ object.held = TRUE
     /\ DataOK(object.data, object.values) /\ SameKey(object.data, file)
     /\ object.data.count <= file.count /\ object.revoked \in BOOLEAN
     /\ object.revoked <=> object.data.count < file.count
     /\ PinOK(object.data, object.pins) /\ object.pins \subseteq Pins

\* ChangePIN has made a key data file with the new PIN.
WriteInv ==
  pc = "write" =>
    /\ DataOK(arg.data, values) /\ SameKey(arg.data, file) /\ arg.data.count = file.count
    /\ arg.pin \in Pins
    /\ file.version = 0 /\ Defined(file) => nv[file.handle].auth = arg.pin
    /\ file.version # 0 => arg.data.private.pin = arg.pin

\* The policy was for fewer fences than there are now in a PCR of it; or will be.
Fenced(a) == \A x \in a[1][2] : \E p \in DOMAIN x[1][2] : x[1][2][p].fences < pcr[p].fences
Fencing(a, left) ==
  \A x \in a[1][2] : \/ \E p \in DOMAIN x[1][2] : x[1][2][p].fences < pcr[p].fences
                     \/ \E p \in DOMAIN x[1][2] \cap left : x[1][2][p].fences <= pcr[p].fences

FencesOK(a) ==
  \A x \in a[1][2] : DOMAIN x[1][2] \subseteq PCRs /\ \A p \in DOMAIN x[1][2] : x[1][2][p].fences \in Nat

FenceInv ==
  /\ \A a \in barred : Fenced(a) /\ FencesOK(a)
  /\ pc = "fence" => /\ DOMAIN arg = {"data", "left", "bars"}
                     /\ \A a \in arg.bars : Fencing(a, arg.left) /\ FencesOK(a)

IInv == TpmInv /\ FileInv /\ ObjectInv /\ WriteInv /\ FenceInv
-----------------------------------------------------------------------------
\* The indices as they are defined at first.
LEMMA FirstNVFacts ==
  /\ FirstNV["pinIndex"].kind = "pin" /\ FirstNV["pinIndex"].policies = V0Policies(RsaKey)
  /\ FirstNV["pinIndex"].ak = "rsa" /\ FirstNV["counter"].ak = "ecc" /\ FirstNV["lock"].ak = "rsa"
  /\ FirstNV["counter"].kind = "counter" /\ FirstNV["lock"].kind = "lock"
BY DEF FirstNV, Handles, Index, RsaKey, EccKey

\* The name of an index stays the same while it is defined.
LEMMA NamesStay ==
  ASSUME TpmInv, NEW h \in Handles, nv[h] # None
  PROVE  NameOf(h, nv[h]) = NameOf(h, FirstNV[h])
BY DEF TpmInv, NameOf

\* Counter names are not the name for no counter.
LEMMA NoNameDiffers ==
  ASSUME NEW h, NEW index
  PROVE  NameOf(h, index) # NoName
BY DEF NameOf, NoName

\* The key data finds its counter under the name its policies were computed for.
LEMMA CounterContextIsName ==
  ASSUME TpmInv, NEW d, KindOK(d), HasCounter(d)
  PROVE  CounterContext(d) = CounterName(d)
<1>1. CASE d.handle = HandleNull
  BY <1>1 DEF CounterContext, CounterName
<1>2. CASE d.handle # HandleNull
  <2>1. d.handle \in Handles /\ nv[d.handle] # None
    BY <1>2 DEF KindOK, Handles, HasCounter
  <2> QED BY <1>2, <2>1, NamesStay DEF CounterContext, CounterName
<1> QED BY <1>1, <1>2

\* Executing a policy asserts what was computed and signed.
LEMMA AssertedIsAuthorized ==
  ASSUME TpmInv, NEW d, NEW vs, DataOK(d, vs), HasCounter(d)
  PROVE  /\ AssertedPolicy(d) = d.authorized
         /\ d.signature = <<d.ak.name, d.authorized, SessionPolicyRef(d)>>
<1>1. CounterContext(d) = CounterName(d)
  BY CounterContextIsName DEF DataOK
<1>2. CounterName(d) = NoName <=> d.handle = HandleNull
  BY NoNameDiffers DEF CounterName
<1>3. AssertedPolicy(d) = AuthorizedPolicy(d.ors, CounterName(d), d.count)
  BY <1>1, <1>2 DEF AssertedPolicy, AuthorizedPolicy
<1> QED BY <1>1, <1>3 DEF DataOK, SessionPolicyRef

\* The index of a version 0 file permits the revocation check.
LEMMA RevocationIsChecked ==
  ASSUME TpmInv, NEW d, KindOK(d), HasCounter(d)
  PROVE  RevocationCheckAllowed(d)
<1> SUFFICES ASSUME d.version = 0
             PROVE  /\ \E n \in DOMAIN d.policies : d.policies[n] = <<"PolicyNV">>
                    /\ nv[d.handle].policies = d.policies
  BY DEF RevocationCheckAllowed
<1>1. d.policies = V0Policies(RsaKey) /\ d.handle = "pinIndex" /\ nv["pinIndex"] # None
  BY SMT DEF KindOK, HasCounter, HandleNull
<1>2. nv["pinIndex"].policies = V0Policies(RsaKey)
  BY <1>1, FirstNVFacts DEF TpmInv, Handles
<1>3. V0Policies(RsaKey)[5] = <<"PolicyNV">> /\ 5 \in DOMAIN V0Policies(RsaKey)
  BY SMT DEF V0Policies, V0PinIndexPostInitAuthPolicies
<1> QED BY <1>1, <1>2, <1>3

\* The values of a policy, from its conditions.
LEMMA PermittedValues ==
  ASSUME NEW d, NEW vs, DataOK(d, vs), NEW v
  PROVE  << <<"PolicyPCR", v>> >> \in d.ors <=> v \in vs
<1>1. \A w : << <<"PolicyPCR", v>> >> = << <<"PolicyPCR", w>> >> => v = w
  OBVIOUS
<1> QED BY <1>1 DEF DataOK

\* What executePolicySession returns for key data of this package.
LEMMA SessionOutcome ==
  ASSUME TpmInv, NEW d, NEW vs, DataOK(d, vs), NEW pin
  PROVE  ExecutePolicySession(d, pin) =
           IF Selected(d.sel) \notin vs THEN "PCR values not permitted"
           ELSE IF ~ HasCounter(d) THEN "no counter"
           ELSE IF ~ NotRevoked(d) THEN "revoked"
           ELSE IF d.version = 0 /\ nv[d.handle].auth # pin THEN "PINFail"
           ELSE IF d.version = 0 /\ nv["lock"] = None THEN "no lock index"
           ELSE "nil"
<1>1. KindOK(d)
  BY DEF DataOK
<1>2. ValidCounterHandle(d)
  BY <1>1, SMT DEF KindOK, ValidCounterHandle, Handles
<1>3. << <<"PolicyPCR", Selected(d.sel)>> >> \in d.ors <=> Selected(d.sel) \in vs
  BY PermittedValues
<1>4. HasCounter(d) => /\ RevocationCheckAllowed(d) /\ AssertedPolicy(d) = d.authorized
                       /\ d.signature = <<d.ak.name, d.authorized, SessionPolicyRef(d)>>
  BY <1>1, RevocationIsChecked, AssertedIsAuthorized
<1> QED BY <1>2, <1>3, <1>4 DEF ExecutePolicySession

\* Sequences are put together as expected.
LEMMA TupleConcat ==
  /\ \A x, y : << x >> \o << y >> = << x, y >>
  /\ \A x, y, z : << x >> \o << y, z >> = << x, y, z >>
<1>1. ASSUME NEW x, NEW y
      PROVE  << x >> \o << y >> = << x, y >>
  <2> DEFINE S == {x, y}
             s == << x >> \o << y >>
             t == << x, y >>
  <2>1. << x >> \in Seq(S) /\ << y >> \in Seq(S) /\ t \in Seq(S)
    BY SMT
  <2>2. s \in Seq(S) /\ Len(s) = 2 /\ s[1] = x /\ s[2] = y
    BY <2>1, SMT
  <2>3. Len(t) = 2 /\ t[1] = x /\ t[2] = y
    OBVIOUS
  <2> HIDE DEF s, t, S
  <2>4. s \in [1 .. 2 -> S] /\ t \in [1 .. 2 -> S] /\ \A i \in 1 .. 2 : s[i] = t[i]
    BY <2>1, <2>2, <2>3, SMT
  <2>5. s = t
    BY <2>4, SMT
  <2> QED BY <2>5 DEF s, t
<1>2. ASSUME NEW x, NEW y, NEW z
      PROVE  << x >> \o << y, z >> = << x, y, z >>
  <2> DEFINE S == {x, y, z}
             s == << x >> \o << y, z >>
             t == << x, y, z >>
  <2>1. << x >> \in Seq(S) /\ << y, z >> \in Seq(S) /\ t \in Seq(S)
    BY SMT
  <2>2. s \in Seq(S) /\ Len(s) = 3 /\ s[1] = x /\ s[2] = y /\ s[3] = z
    BY <2>1, SMT
  <2>3. Len(t) = 3 /\ t[1] = x /\ t[2] = y /\ t[3] = z
    OBVIOUS
  <2> HIDE DEF s, t, S
  <2>4. s \in [1 .. 3 -> S] /\ t \in [1 .. 3 -> S] /\ \A i \in 1 .. 3 : s[i] = t[i]
    BY <2>1, <2>2, <2>3, SMT
  <2>5. s = t
    BY <2>4, SMT
  <2> QED BY <2>5 DEF s, t
<1> QED BY <1>1, <1>2

\* The session then has the digest of the static policy.
LEMMA DigestIsStaticPolicy ==
  ASSUME TpmInv, NEW d, NEW vs, DataOK(d, vs), HasCounter(d), d.version = 0 => nv["lock"] # None
  PROVE  SessionDigest(d) = d.public.authPolicy
<1>1. CounterContext(d) = CounterName(d)
  BY CounterContextIsName DEF DataOK
<1>2. d.version = 0 => NameOf("lock", nv["lock"]) = LockName
  BY NamesStay DEF LockName, Handles
<1>3. d.public.authPolicy = StaticPolicy(d.version, d.ak, CounterName(d), LockName)
  BY DEF DataOK
<1>4. CASE d.version = 0
  <2>1. SessionDigest(d) = << <<"PolicyAuthorize", <<>>, d.ak.name>> >> \o
                           << <<"PolicySecret", CounterName(d)>>, <<"PolicyNV", LockName, 0>> >>
    BY <1>1, <1>2, <1>4 DEF SessionDigest, SessionPolicyRef
  <2>2. d.public.authPolicy = << <<"PolicyAuthorize", <<>>, d.ak.name>>, <<"PolicySecret", CounterName(d)>>,
                                 <<"PolicyNV", LockName, 0>> >>
    BY <1>3, <1>4 DEF StaticPolicy
  <2>3. \A x, y, z : << x >> \o << y, z >> = << x, y, z >>
    BY TupleConcat
  <2> QED BY <2>1, <2>2, <2>3
<1>5. CASE d.version # 0
  <2>1. SessionDigest(d) = << <<"PolicyAuthorize", PcrPolicyRef(CounterName(d)), d.ak.name>> >> \o
                           << <<"PolicyAuthValue">> >>
    BY <1>1, <1>5 DEF SessionDigest, SessionPolicyRef
  <2>2. d.public.authPolicy = << <<"PolicyAuthorize", PcrPolicyRef(CounterName(d)), d.ak.name>>,
                                 <<"PolicyAuthValue">> >>
    BY <1>3, <1>5 DEF StaticPolicy
  <2>3. \A x, y : << x >> \o << y >> = << x, y >>
    BY TupleConcat
  <2> QED BY <2>1, <2>2, <2>3
<1> QED BY <1>4, <1>5

\* What UnsealFromTPM returns for key data of this package.
LEMMA UnsealOutcome ==
  ASSUME TpmInv, NEW d, NEW vs, DataOK(d, vs), NEW pin
  PROVE  /\ UnsealFromTPM(d, pin) = "ok" <=>
              /\ ~ (tries >= MaxTries) /\ Selected(d.sel) \in vs /\ HasCounter(d) /\ NotRevoked(d)
              /\ d.version = 0 => nv["lock"] # None
              /\ pin = PinOf(d)
         /\ UnsealFromTPM(d, pin) = "PINFail" =>
              Selected(d.sel) \in vs /\ HasCounter(d) /\ NotRevoked(d)
<1> DEFINE err == ExecutePolicySession(d, pin)
<1>1. err = IF Selected(d.sel) \notin vs THEN "PCR values not permitted"
            ELSE IF ~ HasCounter(d) THEN "no counter"
            ELSE IF ~ NotRevoked(d) THEN "revoked"
            ELSE IF d.version = 0 /\ nv[d.handle].auth # pin THEN "PINFail"
            ELSE IF d.version = 0 /\ nv["lock"] = None THEN "no lock index"
            ELSE "nil"
  BY SessionOutcome
<1>2. Loads(d) /\ d.version \in {0, 1}
  BY DEF DataOK, KindOK, Loads
<1>3. HasCounter(d) /\ (d.version = 0 => nv["lock"] # None) => SessionDigest(d) = d.public.authPolicy
  BY DigestIsStaticPolicy
<1>4. UnsealFromTPM(d, pin) =
        IF tries >= MaxTries THEN "TPMLockout"
        ELSE IF ~ Loads(d) THEN "invalid object"
        ELSE IF err # "nil" THEN err
        ELSE IF SessionDigest(d) # d.public.authPolicy THEN "policy check failed"
        ELSE IF d.version > 0 /\ d.private.pin # pin THEN "PINFail"
        ELSE "ok"
  BY DEF UnsealFromTPM
<1> HIDE DEF err
<1>5. UnsealFromTPM(d, pin) =
        IF tries >= MaxTries THEN "TPMLockout"
        ELSE IF err # "nil" THEN err
        ELSE IF d.version > 0 /\ d.private.pin # pin THEN "PINFail"
        ELSE "ok"
  BY <1>1, <1>2, <1>3, <1>4
<1>6. d.version > 0 <=> d.version # 0
  BY <1>2, SMT
<1>7. err = "nil" <=> /\ Selected(d.sel) \in vs /\ HasCounter(d) /\ NotRevoked(d)
                      /\ d.version = 0 => nv[d.handle].auth = pin /\ nv["lock"] # None
  BY <1>1
<1>8. err = "PINFail" => Selected(d.sel) \in vs /\ HasCounter(d) /\ NotRevoked(d)
  BY <1>1
<1>9. err # "ok"
  BY <1>1
<1>10. UnsealFromTPM(d, pin) = "ok" <=>
         ~ (tries >= MaxTries) /\ err = "nil" /\ (d.version # 0 => d.private.pin = pin)
  BY <1>5, <1>6, <1>9
<1>11. UnsealFromTPM(d, pin) = "PINFail" => err = "PINFail" \/ err = "nil"
  BY <1>5
<1> QED BY <1>7, <1>8, <1>10, <1>11 DEF PinOf
-----------------------------------------------------------------------------
(* The invariant implies the properties                                    *)

\* The revocation check tells whether the key data was revoked.
LEMMA KnownFacts ==
  ASSUME IInv, NEW k \in Known
  PROVE  /\ DataOK(k.data, k.values) /\ PinOK(k.data, k.pins) /\ k.pins \subseteq Pins
         /\ HasCounter(k.data) => (NotRevoked(k.data) <=> ~ k.revoked)
<1>1. CASE k = [data |-> file, values |-> values, pins |-> pins, revoked |-> FALSE]
  <2>1. /\ DataOK(file, values) /\ PinOK(file, pins) /\ pins \subseteq Pins /\ file.count \in Nat
        /\ file.handle # HandleNull /\ nv[file.handle] # None => nv[file.handle].value = file.count
    BY DEF IInv, FileInv, DataOK, Defined
  <2>2. HasCounter(file) => NotRevoked(file)
    BY <2>1, SMT DEF HasCounter, NotRevoked
  <2> QED BY <1>1, <2>1, <2>2
<1>2. CASE object.held /\ k = [data |-> object.data, values |-> object.values,
                               pins |-> object.pins, revoked |-> object.revoked]
  <2> DEFINE d == object.data
  <2>1. object # NoObject
    <3>1. NoObject.held = FALSE
      BY DEF NoObject
    <3> QED BY <1>2, <3>1
  <2>2. /\ DataOK(d, object.values) /\ SameKey(d, file) /\ PinOK(d, object.pins)
        /\ object.pins \subseteq Pins /\ d.count <= file.count
        /\ object.revoked <=> d.count < file.count
    BY <2>1 DEF IInv, ObjectInv
  <2>3. d.count \in Nat /\ file.count \in Nat /\ d.handle = file.handle
    BY <2>2 DEF IInv, FileInv, DataOK, SameKey
  <2>4. /\ file.handle # HandleNull /\ nv[file.handle] # None => nv[file.handle].value = file.count
        /\ file.handle = HandleNull => file.count = 0
    BY DEF IInv, FileInv, Defined
  <2> HIDE DEF d
  <2>5. HasCounter(d) => (NotRevoked(d) <=> ~ object.revoked)
    BY <2>2, <2>3, <2>4, SMT DEF HasCounter, NotRevoked
  <2> QED BY <1>2, <2>2, <2>5 DEF d
<1> QED BY <1>1, <1>2 DEF Known

LEMMA UnsealIsExact == IInv => UnsealExactly
<1> SUFFICES ASSUME IInv, tries < MaxTries, NEW k \in Known
             PROVE  /\ Opens(k.data) # {} => Permitted(k) /\ Opens(k.data) \subseteq k.pins
                    /\ Permitted(k) /\ (k.data.version = 0 => nv["lock"] # None) =>
                         \E pin \in k.pins : Opens(k.data) = {pin}
                    /\ ~ Permitted(k) => \A pin \in Pins : UnsealFromTPM(k.data, pin) # "PINFail"
  BY DEF UnsealExactly
<1> DEFINE d == k.data
           vs == k.values
<1>1. TpmInv /\ DataOK(d, vs) /\ PinOK(d, k.pins) /\ k.pins \subseteq Pins
      /\ (HasCounter(d) => (NotRevoked(d) <=> ~ k.revoked))
  BY KnownFacts DEF IInv
<1>2. ~ (tries >= MaxTries)
  BY <1>1, PolicySessionAssumption, SMT DEF TpmInv
<1>3. Permitted(k) <=> Selected(d.sel) \in vs /\ HasCounter(d) /\ NotRevoked(d)
  BY <1>1 DEF Permitted, HasCounter
<1>4. ASSUME NEW pin
      PROVE  /\ UnsealFromTPM(d, pin) = "ok" <=>
                  Permitted(k) /\ (d.version = 0 => nv["lock"] # None) /\ pin = PinOf(d)
             /\ UnsealFromTPM(d, pin) = "PINFail" => Permitted(k)
  BY <1>1, <1>2, <1>3, UnsealOutcome
<1>5. Permitted(k) => PinOf(d) \in k.pins
  <2>1. d.version = 0 => d.handle # HandleNull
    BY <1>1, SMT DEF DataOK, KindOK, HandleNull
  <2> QED BY <1>1, <1>3, <2>1 DEF PinOK, Defined, HasCounter
<1> HIDE DEF d, vs
<1>6. Opens(d) # {} => Permitted(k) /\ Opens(d) \subseteq k.pins
  BY <1>4, <1>5 DEF Opens
<1>7. ASSUME Permitted(k), d.version = 0 => nv["lock"] # None
      PROVE  \E pin \in k.pins : Opens(d) = {pin}
  <2>1. Opens(d) = {PinOf(d)}
    BY <1>1, <1>4, <1>5, <1>7 DEF Opens
  <2> QED BY <1>5, <1>7, <2>1
<1> QED BY <1>4, <1>6, <1>7 DEF d

\* A policy that is fenced off permits no present value.
LEMMA FencedIsShut ==
  ASSUME TpmInv, NEW d, NEW vs, DataOK(d, vs), Fenced(d.authorized)
  PROVE  Selected(d.sel) \notin vs
<1> SUFFICES ASSUME Selected(d.sel) \in vs
             PROVE  FALSE
  OBVIOUS
<1> DEFINE v == Selected(d.sel)
           x == << <<"PolicyPCR", v>> >>
<1>1. d.authorized[1][2] = d.ors
  BY SMT DEF DataOK, AuthorizedPolicy
<1>2. x \in d.ors /\ x[1][2] = v
  BY PermittedValues
<1>3. DOMAIN v = d.sel /\ \A p \in d.sel : v[p] = pcr[p]
  BY DEF Selected
<1> HIDE DEF v, x
<1>4. PICK p \in DOMAIN v : v[p].fences < pcr[p].fences
  BY <1>1, <1>2 DEF Fenced
<1>5. pcr[p].fences \in Nat /\ v[p] = pcr[p]
  BY <1>3, <1>4 DEF TpmInv, DataOK
<1> QED BY <1>4, <1>5, SMT

LEMMA BarredStaysShut == IInv => BarredUntilReset
<1> SUFFICES ASSUME IInv, NEW k \in Known, k.data.authorized \in barred, NEW pin \in Opens(k.data)
             PROVE  FALSE
  BY DEF BarredUntilReset
<1>1. TpmInv /\ DataOK(k.data, k.values) /\ Fenced(k.data.authorized)
  BY KnownFacts DEF IInv, FenceInv
<1>2. Selected(k.data.sel) \in k.values
  BY <1>1, UnsealOutcome DEF Opens
<1> QED BY <1>1, <1>2, FencedIsShut

\* The authorization policies of the index matter in version 0 only.
LEMMA UnsealSame ==
  ASSUME NEW d, NEW e, NEW pin,
         d.version = e.version, d.handle = e.handle, d.ak = e.ak, d.public = e.public,
         d.private = e.private, d.sel = e.sel, d.ors = e.ors, d.count = e.count,
         d.authorized = e.authorized, d.signature = e.signature,
         d.version = 0 => d.policies = e.policies
  PROVE  UnsealFromTPM(d, pin) = UnsealFromTPM(e, pin)
<1>1. /\ CounterContext(d) = CounterContext(e) /\ SessionPolicyRef(d) = SessionPolicyRef(e)
      /\ Loads(d) = Loads(e) /\ ValidCounterHandle(d) = ValidCounterHandle(e)
      /\ HasCounter(d) = HasCounter(e) /\ NotRevoked(d) = NotRevoked(e)
  BY Zenon DEF CounterContext, SessionPolicyRef, Loads, ValidCounterHandle, HasCounter, NotRevoked
<1>2. RevocationCheckAllowed(d) <=> RevocationCheckAllowed(e)
  BY DEF RevocationCheckAllowed
<1>3. AssertedPolicy(d) = AssertedPolicy(e) /\ SessionDigest(d) = SessionDigest(e)
  BY <1>1 DEF AssertedPolicy, SessionDigest
<1>4. ExecutePolicySession(d, pin) = ExecutePolicySession(e, pin)
  BY <1>1, <1>2, <1>3 DEF ExecutePolicySession
<1> QED BY <1>1, <1>3, <1>4 DEF UnsealFromTPM

\* The static policy of a sealed object says for which metadata it was made.
LEMMA StaticPolicyDetermines ==
  ASSUME NEW v \in {0, 1}, NEW w \in {0, 1}, NEW a, NEW b, NEW m, NEW n, NEW l, NEW k,
         StaticPolicy(v, a, m, l) = StaticPolicy(w, b, n, k)
  PROVE  v = w /\ a.name = b.name /\ m = n
<1>1. \A c, x, y : Len(StaticPolicy(0, c, x, y)) = 3 /\ Len(StaticPolicy(1, c, x, y)) = 2
  BY DEF StaticPolicy
<1>2. v = w
  BY <1>1, SMT
<1>3. CASE v = 0
  BY <1>2, <1>3 DEF StaticPolicy
<1>4. CASE v = 1
  <2>1. <<"PolicyAuthorize", PcrPolicyRef(m), a.name>> = <<"PolicyAuthorize", PcrPolicyRef(n), b.name>>
    BY <1>2, <1>4 DEF StaticPolicy
  <2> QED BY <1>2, <2>1 DEF PcrPolicyRef
<1> QED BY <1>3, <1>4

LEMMA ValidationIsSound == IInv => ValidatedIsSound
<1> SUFFICES ASSUME IInv, NEW d \in Variants, Validates(d), NEW pin
             PROVE  UnsealFromTPM(d, pin) = UnsealFromTPM(file, pin)
  BY Zenon DEF ValidatedIsSound
<1>0. PICK v \in 0 .. 2, h \in Handles \cup {HandleNull, "object"}, a \in {RsaKey, EccKey},
           ps \in {file.policies, V0Policies(EccKey), Tail(V0Policies(RsaKey))} :
        d = Variant(v, h, a, ps)
  BY SMT DEF Variants
<1>1. TpmInv /\ DataOK(file, values) /\ KindOK(file) /\ DOMAIN file = DataFields
  BY DEF IInv, FileInv, DataOK
<1>2. /\ d.version = v /\ d.handle = h /\ d.ak = a /\ d.policies = ps /\ d.public = file.public
      /\ d.private = file.private /\ d.sel = file.sel /\ d.ors = file.ors /\ d.count = file.count
      /\ d.authorized = file.authorized /\ d.signature = file.signature
  BY <1>0, <1>1 DEF DataFields, Variant
<1>3. /\ v <= 1 /\ ValidCounterHandle(d) /\ HasCounter(d) /\ StaticPolicyMatches(d)
      /\ v = 0 => nv[h].policies = ps
  BY <1>2 DEF Validates
<1>4. v \in {0, 1} /\ file.version \in {0, 1} /\ file.ak \in {RsaKey, EccKey}
  BY <1>1, <1>3, SMT DEF KindOK
<1>5. v = file.version /\ a.name = file.ak.name /\ CounterContext(d) = CounterName(file)
  <2>1. StaticPolicy(v, a, CounterContext(d), NameOf("lock", nv["lock"])) =
          StaticPolicy(file.version, file.ak, CounterName(file), LockName)
    BY <1>1, <1>2, <1>3 DEF StaticPolicyMatches, DataOK
  <2> QED BY <1>4, <2>1, StaticPolicyDetermines, SMT
<1>6. a = file.ak
  BY <1>4, <1>5, SMT DEF RsaKey, EccKey
<1>7. h = file.handle
  BY <1>2, <1>5 DEF CounterContext, CounterName, NameOf, NoName
<1>8. v = 0 => ps = file.policies
  <2> SUFFICES ASSUME v = 0 PROVE ps = file.policies
    OBVIOUS
  <2>1. file.policies = V0Policies(RsaKey) /\ h = "pinIndex"
    BY <1>1, <1>5, <1>7, SMT DEF KindOK
  <2>2. nv["pinIndex"] # None
    BY <1>2, <1>3, <2>1 DEF HasCounter, HandleNull
  <2> QED BY <1>1, <1>3, <2>1, <2>2, FirstNVFacts DEF TpmInv, Handles
<1>9. /\ d.version = file.version /\ d.handle = file.handle /\ d.ak = file.ak
      /\ d.version = 0 => d.policies = file.policies
  BY <1>2, <1>5, <1>6, <1>7, <1>8
<1> QED BY <1>2, <1>9, UnsealSame
-----------------------------------------------------------------------------
(* The invariant is inductive                                              *)

\* Key data and the policies computed for it.
LEMMA SealedDataOK ==
  ASSUME NEW k \in Kinds, NEW sel \in SUBSET PCRs, NEW vs, ValuesOK(sel, vs)
  PROVE  /\ DataOK(KeyData(k[1], k[2], k[3], sel, vs), vs)
         /\ KeyData(k[1], k[2], k[3], sel, vs).private.pin = NoPIN
         /\ KeyData(k[1], k[2], k[3], sel, vs).handle = k[3]
         /\ KeyData(k[1], k[2], k[3], sel, vs).version = k[1]
         /\ KeyData(k[1], k[2], k[3], sel, vs).count = IF k[3] = HandleNull THEN 0 ELSE 1
<1> DEFINE d == KeyData(k[1], k[2], k[3], sel, vs)
           name == IF k[3] = HandleNull THEN NoName ELSE NameOf(k[3], FirstNV[k[3]])
           count == IF k[3] = HandleNull THEN 0 ELSE 1
           public == [type |-> "keyedhash", attrs |-> "sealed",
                      authPolicy |-> StaticPolicy(k[1], k[2], name, LockName)]
           dynamic == DynamicPolicy(k[1], k[2], sel, vs, name, count)
<1>1. d = [version |-> k[1], public |-> public, private |-> [public |-> public, pin |-> NoPIN],
           handle |-> k[3], ak |-> k[2], policies |-> IF k[1] = 0 THEN V0Policies(k[2]) ELSE <<>>,
           hint |-> "none", sel |-> sel, ors |-> dynamic.ors, count |-> dynamic.count,
           authorized |-> dynamic.authorized, signature |-> dynamic.signature]
  BY DEF KeyData, LockName
<1>2. /\ dynamic.ors = {<< <<"PolicyPCR", v>> >> : v \in vs} /\ dynamic.count = count
      /\ dynamic.authorized = AuthorizedPolicy(dynamic.ors, name, count)
      /\ dynamic.signature = <<k[2].name, dynamic.authorized,
                               IF k[1] = 0 THEN <<>> ELSE PcrPolicyRef(name)>>
  BY DEF DynamicPolicy
<1>3. /\ public.type = "keyedhash" /\ public.attrs = "sealed"
      /\ public.authPolicy = StaticPolicy(k[1], k[2], name, LockName)
  OBVIOUS
<1> HIDE DEF dynamic, public, d
<1>4. /\ DOMAIN d = DataFields /\ d.version = k[1] /\ d.public = public /\ d.handle = k[3] /\ d.ak = k[2]
      /\ d.policies = (IF k[1] = 0 THEN V0Policies(k[2]) ELSE <<>>) /\ d.sel = sel
      /\ d.private = [public |-> public, pin |-> NoPIN] /\ d.ors = dynamic.ors
      /\ d.count = dynamic.count /\ d.authorized = dynamic.authorized /\ d.signature = dynamic.signature
  BY <1>1 DEF DataFields
<1>5. DOMAIN d.private = {"public", "pin"} /\ d.private.public = public /\ d.private.pin = NoPIN
  BY <1>4, SMT
<1>6. KindOK(d)
  BY <1>4, SMT DEF KindOK, Kinds
<1>7. CounterName(d) = name
  BY <1>4 DEF CounterName
<1> HIDE DEF name
<1>8. DataOK(d, vs)
  BY <1>2, <1>3, <1>4, <1>5, <1>6, <1>7, SMT DEF DataOK
<1> QED BY <1>2, <1>4, <1>5, <1>8 DEF d

\* The values of boots have no fences.
LEMMA BootValuesOK ==
  ASSUME NEW sel, NEW vs \in BootValues(sel)
  PROVE  ValuesOK(sel, vs)
<1>1. PICK bs \in SUBSET Boots \ {{}} : vs = {Measured(b, sel) : b \in bs}
  BY DEF BootValues
<1>2. ASSUME NEW v \in vs
      PROVE  DOMAIN v = sel /\ \A p \in sel : v[p].fences = 0
  <2>1. PICK b \in bs : v = Measured(b, sel)
    BY <1>1
  <2> QED BY <2>1 DEF Measured
<1> QED BY <1>2, SMT DEF ValuesOK

LEMMA InitIInv == Init => IInv
<1> SUFFICES ASSUME Init
             PROVE  IInv
  OBVIOUS
<1>1. PICK k \in Kinds, sel \in Selections : \E vs \in BootValues(sel) :
        values = vs /\ file = KeyData(k[1], k[2], k[3], sel, vs)
  BY DEF Init
<1>2. values \in BootValues(sel) /\ file = KeyData(k[1], k[2], k[3], sel, values)
  BY <1>1
<1>3. /\ DataOK(file, values) /\ file.private.pin = NoPIN /\ file.handle = k[3] /\ file.version = k[1]
      /\ file.count = IF k[3] = HandleNull THEN 0 ELSE 1
  BY <1>2, BootValuesOK, SealedDataOK, SMT DEF Selections, PCRs
<1>4. /\ nv = FirstNV /\ tries = 0 /\ pins = {NoPIN} /\ object = NoObject /\ pc = "idle" /\ barred = {}
  BY DEF Init
<1>5. TpmInv
  <2>1. PICK b \in Boots : pcr = Measured(b, PCRs)
    BY DEF Init
  <2>2. /\ DOMAIN pcr = PCRs
        /\ \A p \in PCRs : DOMAIN pcr[p] = {"boot", "fences"} /\ pcr[p].fences \in Nat
    BY <2>1 DEF Measured
  <2>3. DOMAIN nv = Handles
    BY <1>4 DEF FirstNV
  <2>4. \A h \in Handles : /\ DOMAIN nv[h] = {"kind", "ak", "policies", "value", "auth"}
                           /\ nv[h].value = 1
    BY <1>4 DEF FirstNV, Index, Handles
  <2> QED BY <1>4, <2>2, <2>3, <2>4, SMT DEF TpmInv
<1>6. FileInv
  <2>1. \A h \in Handles : nv[h].value = 1 /\ nv[h].auth = NoPIN
    BY <1>4 DEF FirstNV, Index, Handles
  <2>2. file.handle = HandleNull \/ file.handle \in Handles
    BY <1>3, SMT DEF Kinds, Handles
  <2>3. PinOK(file, pins)
    BY <1>3, <1>4, <2>1, <2>2 DEF PinOK, PinOf, Defined
  <2> QED BY <1>3, <1>4, <2>1, <2>2, <2>3, PolicySessionAssumption DEF FileInv, Defined
<1> QED BY <1>4, <1>5, <1>6 DEF IInv, ObjectInv, WriteInv, FenceInv

\* What a step leaves alone.
LEMMA TpmSame ==
  ASSUME TpmInv, UNCHANGED <<pcr, nv>>, tries' \in Nat
  PROVE  TpmInv'
BY DEF TpmInv

LEMMA FileSame ==
  ASSUME FileInv, UNCHANGED <<nv, file, values, pins>>
  PROVE  FileInv'
BY DEF FileInv, PinOK, PinOf, Defined

LEMMA ObjectSame ==
  ASSUME ObjectInv, UNCHANGED <<nv, file, object>>
  PROVE  ObjectInv'
BY DEF ObjectInv, PinOK, PinOf, Defined

LEMMA WriteSame ==
  ASSUME WriteInv, pc' # "write" \/ UNCHANGED <<nv, file, values, pc, arg>>
  PROVE  WriteInv'
BY DEF WriteInv, Defined

LEMMA FenceSame ==
  ASSUME FenceInv, UNCHANGED <<pcr, barred>>, pc' # "fence" \/ UNCHANGED <<pc, arg>>
  PROVE  FenceInv'
<1>1. \A a : Fenced(a)' <=> Fenced(a)
  BY DEF Fenced
<1>2. CASE pc' # "fence"
  BY <1>1, <1>2 DEF FenceInv
<1>3. CASE UNCHANGED <<pc, arg>>
  BY <1>1, <1>3 DEF FenceInv, Fencing
<1> QED BY <1>2, <1>3

\* A PIN that fails, and the recovery of the dictionary attack logic, change a counter.
LEMMA TriesStep ==
  ASSUME IInv, tries' \in Nat, UNCHANGED <<pcr, nv, file, values, pins, object, call, barred>>
  PROVE  IInv'
BY TpmSame, FileSame, ObjectSame, WriteSame, FenceSame DEF IInv, call

\* The object that is read is the file.
LEMMA ReadStep ==
  ASSUME IInv, ReadSealedKeyObject
  PROVE  IInv'
<1>1. /\ object' = [held |-> TRUE, data |-> file, values |-> values, pins |-> pins, revoked |-> FALSE]
      /\ UNCHANGED <<pcr, nv, tries, file, values, pins, pc, arg, barred>>
  BY DEF ReadSealedKeyObject, call
<1>2. ObjectInv'
  <2>1. /\ DataOK(file, values) /\ file.count \in Nat /\ PinOK(file, pins) /\ pins \subseteq Pins
    BY DEF IInv, FileInv, DataOK
  <2>2. PinOK(file, pins)'
    BY <1>1, <2>1 DEF PinOK, PinOf, Defined
  <2>3. /\ DOMAIN object' = {"held", "data", "values", "pins", "revoked"} /\ object'.held = TRUE
        /\ object'.data = file /\ object'.values = values /\ object'.pins = pins /\ object'.revoked = FALSE
    BY <1>1
  <2>4. PinOK(object.data, object.pins)'
    BY <1>1, <2>2, <2>3 DEF PinOK, PinOf, Defined
  <2>5. ~ (file.count < file.count) /\ file.count <= file.count
    BY <2>1, SMT
  <2> QED BY <1>1, <2>1, <2>3, <2>4, <2>5 DEF ObjectInv, SameKey
<1> QED BY <1>1, <1>2, TpmSame, FileSame, WriteSame, FenceSame DEF IInv, TpmInv

\* The values that a policy is updated for.
LEMMA NewValuesOK ==
  ASSUME TpmInv, file.sel \subseteq PCRs, NEW vs \in NewValues
  PROVE  ValuesOK(file.sel, vs)
<1>1. ASSUME NEW b, vs = {Measured(b, file.sel)}
      PROVE  ValuesOK(file.sel, vs)
  BY <1>1, SMT DEF ValuesOK, Measured
<1>2. ASSUME vs = {Selected(file.sel)}
      PROVE  ValuesOK(file.sel, vs)
  BY <1>2 DEF ValuesOK, Selected, TpmInv
<1> QED BY <1>1, <1>2 DEF NewValues

LEMMA UpdateStep ==
  ASSUME IInv, NEW vs \in NewValues, UpdateKeyPCRProtectionPolicy(vs)
  PROVE  IInv'
<1> DEFINE h == file.handle
           count == IF h = HandleNull THEN 0 ELSE nv[h].value + 1
           name == CounterContext(file)
           dynamic == DynamicPolicy(file.version, file.ak, file.sel, vs, name, count)
<1>1. /\ pc = "idle" /\ HasCounter(file)
      /\ file' = [file EXCEPT !.ors = dynamic.ors, !.count = count,
                    !.authorized = dynamic.authorized, !.signature = dynamic.signature]
      /\ values' = vs
      /\ nv' = IF h = HandleNull THEN nv ELSE [nv EXCEPT ![h].value = count]
      /\ object' = IF object.held /\ h # HandleNull THEN [object EXCEPT !.revoked = TRUE] ELSE object
      /\ UNCHANGED <<pcr, tries, pins, pc, arg, barred>>
  BY DEF UpdateKeyPCRProtectionPolicy, Validates, call
<1>2. TpmInv /\ DataOK(file, values) /\ KindOK(file) /\ FileInv /\ ObjectInv
  BY DEF IInv, FileInv, DataOK
<1>3. name = CounterName(file)
  BY <1>1, <1>2, CounterContextIsName
<1>4. /\ dynamic.ors = {<< <<"PolicyPCR", v>> >> : v \in vs}
      /\ dynamic.authorized = AuthorizedPolicy(dynamic.ors, name, count)
      /\ dynamic.signature = <<file.ak.name, dynamic.authorized,
                               IF file.version = 0 THEN <<>> ELSE PcrPolicyRef(name)>>
  BY DEF DynamicPolicy
<1>5. /\ h # HandleNull => h \in Handles /\ nv[h] # None /\ nv[h].value \in Nat /\ nv[h].value = file.count
      /\ h = HandleNull => file.count = 0
      /\ file.count \in Nat
  BY <1>1, <1>2 DEF KindOK, Handles, HasCounter, TpmInv, FileInv, DataOK, Defined
<1>6. count \in Nat /\ (h # HandleNull => count = file.count + 1) /\ (h = HandleNull => count = file.count)
  BY <1>5, SMT
<1> HIDE DEF dynamic, count, name
<1>7. /\ DOMAIN file' = DataFields /\ file'.version = file.version /\ file'.public = file.public
      /\ file'.private = file.private /\ file'.handle = h /\ file'.ak = file.ak
      /\ file'.policies = file.policies /\ file'.sel = file.sel /\ file'.ors = dynamic.ors
      /\ file'.count = count /\ file'.authorized = dynamic.authorized /\ file'.signature = dynamic.signature
  BY <1>1, <1>2 DEF DataOK, DataFields
<1>8. DataOK(file', values')
  <2>1. ValuesOK(file.sel, vs)
    BY <1>2, NewValuesOK DEF DataOK
  <2>2. CounterName(file') = CounterName(file)
    BY <1>7 DEF CounterName
  <2>3. KindOK(file')
    BY <1>2, <1>7 DEF KindOK
  <2> HIDE DEF h
  <2> QED BY <1>1, <1>2, <1>3, <1>4, <1>6, <1>7, <2>1, <2>2, <2>3 DEF DataOK
<1>9. /\ \A g \in Handles : nv[g] # None <=> nv'[g] # None
      /\ \A g \in Handles : nv[g] # None =>
           /\ DOMAIN nv'[g] = DOMAIN nv[g] /\ nv'[g].kind = nv[g].kind /\ nv'[g].ak = nv[g].ak
           /\ nv'[g].policies = nv[g].policies /\ nv'[g].auth = nv[g].auth
           /\ nv'[g].value = IF g = h THEN count ELSE nv[g].value
      /\ DOMAIN nv' = Handles
  <2>1. CASE h = HandleNull
    BY <1>1, <1>2, <2>1 DEF TpmInv, Handles, HandleNull
  <2>2. CASE h # HandleNull
    <3>1. nv' = [nv EXCEPT ![h] = [nv[h] EXCEPT !.value = count]]
      BY <1>1, <2>2
    <3>2. h \in Handles /\ nv[h] # None /\ DOMAIN nv[h] = {"kind", "ak", "policies", "value", "auth"}
      BY <1>2, <1>5, <2>2 DEF TpmInv
    <3>3. DOMAIN None = {"kind"}
      BY DEF None
    <3> HIDE DEF None, h
    <3> DEFINE index == [nv[h] EXCEPT !.value = count]
    <3>4. /\ DOMAIN index = DOMAIN nv[h] /\ index.kind = nv[h].kind /\ index.ak = nv[h].ak
          /\ index.policies = nv[h].policies /\ index.auth = nv[h].auth /\ index.value = count
          /\ index # None
      BY <3>2, <3>3
    <3> HIDE DEF index
    <3>5. DOMAIN nv = Handles /\ nv' = [nv EXCEPT ![h] = index]
      BY <1>2, <3>1 DEF TpmInv, index
    <3> QED BY <3>2, <3>4, <3>5
  <2> QED BY <2>1, <2>2
<1>10. TpmInv'
  BY <1>1, <1>2, <1>6, <1>9, SMT DEF TpmInv
<1>11. FileInv'
  <2>1. PinOK(file, pins)'
    BY <1>1, <1>2, <1>5, <1>7, <1>9, SMT DEF FileInv, PinOK, PinOf, Defined
  <2>2. Defined(file)' => nv'[file'.handle].value = file'.count
    BY <1>5, <1>7, <1>9 DEF Defined
  <2>3. file'.handle = HandleNull => file'.count = 0
    BY <1>5, <1>6, <1>7
  <2> QED BY <1>1, <1>2, <1>8, <2>1, <2>2, <2>3 DEF FileInv
<1>12. ObjectInv'
  <2>1. CASE object = NoObject
    <3>1. ~ object.held
      BY <2>1 DEF NoObject
    <3> QED BY <1>1, <2>1, <3>1 DEF ObjectInv
  <2>2. CASE object # NoObject
    <3>1. /\ DOMAIN object = {"held", "data", "values", "pins", "revoked"} /\ object.held = TRUE
          /\ DataOK(object.data, object.values) /\ SameKey(object.data, file)
          /\ object.data.count <= file.count
          /\ object.revoked \in BOOLEAN /\ (object.revoked <=> object.data.count < file.count)
          /\ PinOK(object.data, object.pins) /\ object.pins \subseteq Pins
      BY <1>2, <2>2 DEF ObjectInv
    <3>2. /\ DOMAIN object' = {"held", "data", "values", "pins", "revoked"} /\ object'.held = TRUE
          /\ object'.data = object.data /\ object'.values = object.values /\ object'.pins = object.pins
          /\ h # HandleNull => object'.revoked = TRUE
          /\ h = HandleNull => object'.revoked = object.revoked
      BY <1>1, <3>1
    <3>3. SameKey(object'.data, file') /\ object.data.count \in Nat /\ object.data.handle = h
      BY <1>7, <3>1, <3>2 DEF SameKey, DataOK
    <3>4. object.data.count <= file'.count /\ (h # HandleNull => object.data.count < file'.count)
          /\ (h = HandleNull => file'.count = file.count)
      BY <1>5, <1>6, <1>7, <3>1, <3>3, SMT
    <3>5. object'.revoked \in BOOLEAN /\ (object'.revoked <=> object'.data.count < file'.count)
      BY <3>1, <3>2, <3>4
    <3>6. PinOK(object.data, object.pins)'
      BY <1>5, <1>9, <3>1, <3>2, <3>3, SMT DEF PinOK, PinOf, Defined
    <3> QED BY <3>1, <3>2, <3>3, <3>4, <3>5, <3>6 DEF ObjectInv
  <2> QED BY <2>1, <2>2
<1>13. WriteInv' /\ FenceInv'
  BY <1>1, WriteSame, FenceSame DEF IInv
<1> QED BY <1>10, <1>11, <1>12, <1>13 DEF IInv

\* Key data with another PIN or hint has the same policies.
LEMMA SamePoliciesOK ==
  ASSUME NEW d, NEW e, NEW vs, DataOK(d, vs), DOMAIN e = DataFields, DOMAIN e.private = {"public", "pin"},
         e.private.public = d.public, e.version = d.version, e.public = d.public, e.handle = d.handle,
         e.ak = d.ak, e.policies = d.policies, e.sel = d.sel, e.ors = d.ors, e.count = d.count,
         e.authorized = d.authorized, e.signature = d.signature
  PROVE  DataOK(e, vs) /\ SameKey(e, d)
<1>1. KindOK(e) /\ CounterName(e) = CounterName(d)
  BY DEF DataOK, KindOK, CounterName
<1> QED BY <1>1 DEF DataOK, SameKey

\* performPinChangeV0: the index has the new PIN, and the object uses the index.
LEMMA ChangePINV0Step ==
  ASSUME IInv, NEW old \in Pins, NEW new \in Pins, ChangePIN(old, new), file.version = 0
  PROVE  IInv'
<1>1. /\ pc = "idle" /\ pc' = "write" /\ HasCounter(file)
      /\ nv' = [nv EXCEPT ![file.handle].auth = new] /\ pins' = pins \cup {new}
      /\ arg' = [data |-> [file EXCEPT !.hint = AuthModeHint(new)], pin |-> new]
      /\ object' = IF object.held THEN [object EXCEPT !.pins = pins'] ELSE object
      /\ UNCHANGED <<pcr, tries, file, values, barred>>
  BY DEF ChangePIN, PerformPinChangeV0, Validates, WithPins
<1>2. TpmInv /\ DataOK(file, values) /\ FileInv /\ ObjectInv /\ file.handle = "pinIndex" /\ nv["pinIndex"] # None
  BY <1>1, SMT DEF IInv, FileInv, DataOK, KindOK, HasCounter, HandleNull
<1>3. /\ \A g \in Handles : nv[g] # None <=> nv'[g] # None
      /\ \A g \in Handles : nv[g] # None =>
           /\ DOMAIN nv'[g] = DOMAIN nv[g] /\ nv'[g].kind = nv[g].kind /\ nv'[g].ak = nv[g].ak
           /\ nv'[g].policies = nv[g].policies /\ nv'[g].value = nv[g].value
      /\ DOMAIN nv' = Handles /\ nv'["pinIndex"].auth = new
  <2> DEFINE index == [nv["pinIndex"] EXCEPT !.auth = new]
  <2>1. DOMAIN nv["pinIndex"] = {"kind", "ak", "policies", "value", "auth"} /\ DOMAIN None = {"kind"}
    BY <1>2 DEF TpmInv, Handles, None
  <2> HIDE DEF None
  <2>2. /\ DOMAIN index = DOMAIN nv["pinIndex"] /\ index.kind = nv["pinIndex"].kind
        /\ index.ak = nv["pinIndex"].ak /\ index.policies = nv["pinIndex"].policies
        /\ index.value = nv["pinIndex"].value /\ index.auth = new /\ index # None
    BY <2>1
  <2>3. DOMAIN nv = Handles /\ nv' = [nv EXCEPT !["pinIndex"] = index] /\ "pinIndex" \in Handles
    BY <1>1, <1>2 DEF TpmInv, Handles
  <2> HIDE DEF index
  <2> QED BY <1>2, <2>2, <2>3
<1>4. TpmInv'
  BY <1>1, <1>2, <1>3 DEF TpmInv
<1>5. FileInv'
  <2>1. PinOK(file, pins)'
    BY <1>1, <1>2, <1>3, SMT DEF PinOK, PinOf
  <2> QED BY <1>1, <1>2, <1>3, <2>1 DEF FileInv, Defined, Handles, HandleNull
<1>6. ObjectInv'
  <2>1. CASE object = NoObject
    <3>1. ~ object.held
      BY <2>1 DEF NoObject
    <3> QED BY <1>1, <2>1, <3>1 DEF ObjectInv
  <2>2. CASE object # NoObject
    <3>1. /\ DOMAIN object = {"held", "data", "values", "pins", "revoked"} /\ object.held = TRUE
          /\ DataOK(object.data, object.values) /\ SameKey(object.data, file)
          /\ object.data.count <= file.count
          /\ object.revoked \in BOOLEAN /\ (object.revoked <=> object.data.count < file.count)
      BY <1>2, <2>2 DEF ObjectInv
    <3>2. /\ DOMAIN object' = {"held", "data", "values", "pins", "revoked"} /\ object'.held = TRUE
          /\ object'.data = object.data /\ object'.values = object.values /\ object'.pins = pins'
          /\ object'.revoked = object.revoked
      BY <1>1, <3>1
    <3>3. object.data.version = 0 /\ object.data.handle = "pinIndex"
      BY <1>2, <3>1 DEF SameKey
    <3>4. PinOK(object.data, object.pins)' /\ pins' \subseteq Pins
      BY <1>1, <1>2, <1>3, <3>2, <3>3 DEF PinOK, PinOf, FileInv
    <3> QED BY <1>1, <3>1, <3>2, <3>4 DEF ObjectInv
  <2> QED BY <2>1, <2>2
<1>7. WriteInv'
  <2> DEFINE e == [file EXCEPT !.hint = AuthModeHint(new)]
  <2>1. arg'.data = e /\ arg'.pin = new
    BY <1>1
  <2>2. DataOK(e, values) /\ SameKey(e, file) /\ e.count = file.count
    <3>1. /\ DOMAIN e = DataFields /\ e.private = file.private /\ e.version = file.version
          /\ e.public = file.public /\ e.handle = file.handle /\ e.ak = file.ak
          /\ e.policies = file.policies /\ e.sel = file.sel /\ e.ors = file.ors /\ e.count = file.count
          /\ e.authorized = file.authorized /\ e.signature = file.signature
      BY <1>2 DEF DataOK, DataFields
    <3>2. DOMAIN file.private = {"public", "pin"} /\ file.private.public = file.public
      BY <1>2 DEF DataOK
    <3> HIDE DEF e
    <3> QED BY <1>2, <3>1, <3>2, SamePoliciesOK
  <2> HIDE DEF e
  <2> QED BY <1>1, <1>2, <1>3, <2>1, <2>2 DEF WriteInv
<1>8. FenceInv'
  BY <1>1, FenceSame DEF IInv
<1> QED BY <1>4, <1>5, <1>6, <1>7, <1>8 DEF IInv

\* performPinChange makes a private area with the new PIN; nothing else changes yet.
LEMMA ChangePINV1Step ==
  ASSUME IInv, NEW old \in Pins, NEW new \in Pins, ChangePIN(old, new), file.version # 0
  PROVE  IInv'
<1> DEFINE hinted == [file EXCEPT !.hint = AuthModeHint(new)]
           private == [hinted.private EXCEPT !.pin = new]
           e == [hinted EXCEPT !.private = private]
<1>1. /\ pc' = "write" /\ arg' = [data |-> e, pin |-> new]
      /\ UNCHANGED <<pcr, nv, tries, file, values, pins, object, barred>>
  BY DEF ChangePIN, PerformPinChange, WithPins
<1>2. DataOK(file, values)
  BY DEF IInv, FileInv
<1>3. /\ DOMAIN hinted = DataFields /\ hinted.private = file.private /\ hinted.version = file.version
      /\ hinted.public = file.public /\ hinted.handle = file.handle /\ hinted.ak = file.ak
      /\ hinted.policies = file.policies /\ hinted.sel = file.sel /\ hinted.ors = file.ors
      /\ hinted.count = file.count /\ hinted.authorized = file.authorized
      /\ hinted.signature = file.signature
  BY <1>2 DEF DataOK, DataFields
<1> HIDE DEF hinted
<1>4. DOMAIN private = {"public", "pin"} /\ private.public = file.public /\ private.pin = new
  BY <1>2, <1>3 DEF DataOK
<1> HIDE DEF private
<1>5. /\ DOMAIN e = DataFields /\ e.private = private /\ e.version = file.version
      /\ e.public = file.public /\ e.handle = file.handle /\ e.ak = file.ak
      /\ e.policies = file.policies /\ e.sel = file.sel /\ e.ors = file.ors /\ e.count = file.count
      /\ e.authorized = file.authorized /\ e.signature = file.signature
  BY <1>3 DEF DataFields
<1> HIDE DEF e
<1>6. DataOK(e, values) /\ SameKey(e, file)
  BY <1>2, <1>4, <1>5, SamePoliciesOK
<1>7. WriteInv'
  BY <1>1, <1>4, <1>5, <1>6 DEF WriteInv
<1> QED BY <1>1, <1>7, TpmSame, FileSame, ObjectSame, FenceSame DEF IInv, TpmInv

LEMMA WriteKeyDataStep ==
  ASSUME IInv, WriteKeyData
  PROVE  IInv'
<1>1. pc = "write" /\ pc' = "idle" /\ UNCHANGED <<pcr, nv, tries, values, barred>>
  BY DEF WriteKeyData, Return
<1>2. TpmInv' /\ WriteInv' /\ FenceInv'
  BY <1>1, TpmSame, WriteSame, FenceSame DEF IInv, TpmInv
<1>3. CASE UNCHANGED <<file, pins, object>>
  BY <1>1, <1>2, <1>3, FileSame, ObjectSame DEF IInv
<1>4. CASE /\ file' = (IF Unchanged THEN file ELSE arg.data) /\ pins' = {arg.pin}
           /\ object' = WithPins(pins')
  <2>1. /\ DataOK(file, values) /\ DataOK(arg.data, values) /\ SameKey(arg.data, file)
        /\ arg.data.count = file.count /\ arg.pin \in Pins
        /\ file.version = 0 /\ Defined(file) => nv[file.handle].auth = arg.pin
        /\ file.version # 0 => arg.data.private.pin = arg.pin
        /\ FileInv /\ ObjectInv
    BY <1>1 DEF IInv, FileInv, WriteInv
  <2>2. /\ DataOK(file', values) /\ SameKey(file', file) /\ file'.count = file.count
        /\ file.version # 0 => file'.private.pin = arg.pin
    BY <1>4, <2>1 DEF SameKey, Unchanged
  <2>3. FileInv'
    <3>1. PinOK(file, pins)'
      BY <1>1, <1>4, <2>1, <2>2 DEF PinOK, PinOf, Defined, SameKey
    <3> QED BY <1>1, <1>4, <2>1, <2>2, <3>1 DEF FileInv, Defined, SameKey
  <2>4. ObjectInv'
    <3>1. CASE object = NoObject
      <4>1. ~ object.held
        BY <3>1 DEF NoObject
      <4> QED BY <1>4, <3>1, <4>1 DEF ObjectInv, WithPins
    <3>2. CASE object # NoObject
      <4>1. /\ DOMAIN object = {"held", "data", "values", "pins", "revoked"} /\ object.held = TRUE
            /\ DataOK(object.data, object.values) /\ SameKey(object.data, file)
            /\ object.data.count <= file.count
            /\ object.revoked \in BOOLEAN /\ (object.revoked <=> object.data.count < file.count)
            /\ PinOK(object.data, object.pins) /\ object.pins \subseteq Pins
        BY <2>1, <3>2 DEF ObjectInv
      <4>2. /\ DOMAIN object' = {"held", "data", "values", "pins", "revoked"} /\ object'.held = TRUE
            /\ object'.data = object.data /\ object'.values = object.values
            /\ object'.revoked = object.revoked
            /\ object'.pins = IF file.version = 0 THEN {arg.pin} ELSE object.pins
        BY <1>4, <4>1 DEF WithPins
      <4>3. SameKey(object'.data, file') /\ object'.pins \subseteq Pins
        BY <2>1, <2>2, <4>1, <4>2 DEF SameKey
      <4>4. PinOK(object.data, object.pins)'
        BY <1>1, <2>1, <4>1, <4>2, SMT DEF PinOK, PinOf, Defined, SameKey
      <4> QED BY <2>2, <4>1, <4>2, <4>3, <4>4 DEF ObjectInv
    <3> QED BY <3>1, <3>2
  <2> QED BY <1>2, <2>3, <2>4 DEF IInv
<1> QED BY <1>3, <1>4 DEF WriteKeyData

\* A policy that is satisfied now was computed for no more fences than there are.
LEMMA SatisfiedIsFencing ==
  ASSUME TpmInv, NEW d, NEW vs, DataOK(d, vs), Selected(d.sel) \in vs, NEW ps, d.sel \cap ps # {}
  PROVE  Fencing(d.authorized, ps) /\ FencesOK(d.authorized)
<1>1. d.authorized[1][2] = d.ors
  BY SMT DEF DataOK, AuthorizedPolicy
<1>2. PICK p \in d.sel \cap ps : TRUE
  OBVIOUS
<1>3. p \in PCRs /\ pcr[p].fences \in Nat /\ d.sel \subseteq PCRs
  BY <1>2 DEF TpmInv, DataOK
<1>4. ASSUME NEW x \in d.ors
      PROVE  /\ DOMAIN x[1][2] = d.sel /\ \A q \in d.sel : x[1][2][q].fences \in Nat
             /\ x[1][2][p].fences <= pcr[p].fences
  <2>1. PICK v \in vs : x = << <<"PolicyPCR", v>> >>
    BY DEF DataOK
  <2>2. x[1][2] = v
    BY <2>1
  <2>3. DOMAIN v = d.sel /\ \A q \in d.sel : v[q].fences \in Nat
    BY DEF DataOK, ValuesOK
  <2>4. v[p].fences <= pcr[p].fences
    <3>1. CASE \A w \in vs : \A q \in d.sel : w[q].fences = 0
      BY <1>2, <1>3, <3>1, SMT
    <3>2. CASE \A w, u \in vs : w = u
      <4>1. v = Selected(d.sel)
        BY <3>2
      <4> QED BY <1>2, <1>3, <4>1, SMT DEF Selected
    <3> QED BY <3>1, <3>2 DEF DataOK, ValuesOK
  <2> QED BY <2>2, <2>3, <2>4
<1>5. FencesOK(d.authorized)
  BY <1>1, <1>3, <1>4 DEF FencesOK
<1>6. Fencing(d.authorized, ps)
  <2> SUFFICES ASSUME NEW x \in d.ors
               PROVE  \E q \in DOMAIN x[1][2] \cap ps : x[1][2][q].fences <= pcr[q].fences
    BY <1>1 DEF Fencing
  <2> QED BY <1>2, <1>4
<1> QED BY <1>5, <1>6

LEMMA BlockStep ==
  ASSUME IInv, NEW ps, BlockPCRProtectionPolicies(ps)
  PROVE  IInv'
<1>1. /\ pc' = "fence" /\ arg' = [data |-> None, left |-> ps, bars |-> Satisfiable(ps)]
      /\ UNCHANGED <<pcr, nv, tries, file, values, pins, object, barred>>
  BY DEF BlockPCRProtectionPolicies
<1>2. DOMAIN arg' = {"data", "left", "bars"} /\ arg'.left = ps /\ arg'.bars = Satisfiable(ps)
  BY <1>1
<1>3. ASSUME NEW d \in KnownData
      PROVE  \E vs : DataOK(d, vs)
  <2>1. CASE d = file
    BY <2>1 DEF IInv, FileInv
  <2>2. CASE object.held /\ d = object.data
    <3>1. object # NoObject
      <4>1. NoObject.held = FALSE
        BY DEF NoObject
      <4> QED BY <2>2, <4>1
    <3> QED BY <2>2, <3>1 DEF IInv, ObjectInv
  <2> QED BY <2>1, <2>2 DEF KnownData
<1>4. ASSUME NEW a \in Satisfiable(ps)
      PROVE  Fencing(a, ps) /\ FencesOK(a)
  <2>1. PICK d \in KnownData : /\ a = d.authorized /\ d.sel \cap ps # {}
                               /\ << <<"PolicyPCR", Selected(d.sel)>> >> \in d.ors
    BY Zenon DEF Satisfiable
  <2>2. PICK vs : DataOK(d, vs)
    BY <1>3
  <2>3. Selected(d.sel) \in vs
    BY <2>1, <2>2, PermittedValues
  <2> QED BY <2>1, <2>2, <2>3, SatisfiedIsFencing DEF IInv
<1>5. FenceInv'
  <2>1. \A a \in barred : Fenced(a)' /\ FencesOK(a)
    BY <1>1 DEF IInv, FenceInv, Fenced
  <2>2. \A a \in Satisfiable(ps) : Fencing(a, ps)'
    BY <1>1, <1>4 DEF Fencing
  <2> QED BY <1>1, <1>2, <1>4, <2>1, <2>2 DEF FenceInv
<1> QED BY <1>1, <1>5, TpmSame, FileSame, ObjectSame, WriteSame DEF IInv, TpmInv

LEMMA FenceStep ==
  ASSUME IInv, NEW p \in PCRs, Fence(p)
  PROVE  IInv'
<1>1. pc = "fence" /\ p \in arg.left /\ UNCHANGED <<nv, tries, file, values, pins, object, barred>>
  BY DEF Fence
<1>2. CASE Return /\ UNCHANGED pcr
  BY <1>1, <1>2, TpmSame, FileSame, ObjectSame, WriteSame, FenceSame DEF IInv, TpmInv, Return
<1>3. CASE /\ pcr' = [pcr EXCEPT ![p].fences = @ + 1]
           /\ arg' = [arg EXCEPT !.left = PCRsLeft(p)]
           /\ UNCHANGED pc
  <2>1. TpmInv /\ FenceInv
    BY DEF IInv
  <2>2. /\ DOMAIN pcr' = PCRs
        /\ \A q \in PCRs : /\ DOMAIN pcr'[q] = {"boot", "fences"} /\ pcr'[q].fences \in Nat
                           /\ pcr[q].fences \in Nat
                           /\ pcr'[q].fences = IF q = p THEN pcr[q].fences + 1 ELSE pcr[q].fences
    <3> DEFINE new == [pcr[p] EXCEPT !.fences = @ + 1]
    <3>1. DOMAIN pcr[p] = {"boot", "fences"} /\ pcr[p].fences \in Nat
      BY <2>1 DEF TpmInv
    <3>2. DOMAIN new = {"boot", "fences"} /\ new.fences = pcr[p].fences + 1
      BY <3>1
    <3>3. pcr' = [pcr EXCEPT ![p] = new]
      BY <1>3
    <3> HIDE DEF new
    <3> QED BY <2>1, <3>1, <3>2, <3>3, SMT DEF TpmInv
  <2>3. TpmInv'
    BY <1>1, <2>1, <2>2 DEF TpmInv
  <2>4. DOMAIN arg' = {"data", "left", "bars"} /\ arg'.left = arg.left \ {p} /\ arg'.bars = arg.bars
    BY <1>1, <1>3, <2>1 DEF FenceInv, PCRsLeft
  <2>5. ASSUME NEW a, FencesOK(a), Fenced(a)
        PROVE  Fenced(a)'
    <3> SUFFICES ASSUME NEW x \in a[1][2]
                 PROVE  \E q \in DOMAIN x[1][2] : x[1][2][q].fences < pcr'[q].fences
      BY Zenon DEF Fenced
    <3>1. PICK q \in DOMAIN x[1][2] : x[1][2][q].fences < pcr[q].fences
      BY <2>5 DEF Fenced
    <3>2. q \in PCRs /\ x[1][2][q].fences \in Nat
      BY <2>5 DEF FencesOK
    <3>3. x[1][2][q].fences < pcr'[q].fences
      BY <2>2, <3>1, <3>2, SMT
    <3> QED BY <3>3
  <2>6. ASSUME NEW a, FencesOK(a), Fencing(a, arg.left)
        PROVE  Fencing(a, arg.left)'
    <3> SUFFICES ASSUME NEW x \in a[1][2]
                 PROVE  \/ \E q \in DOMAIN x[1][2] : x[1][2][q].fences < pcr'[q].fences
                        \/ \E q \in DOMAIN x[1][2] \cap arg'.left : x[1][2][q].fences <= pcr'[q].fences
      BY Zenon DEF Fencing
    <3>1. \A q \in DOMAIN x[1][2] : q \in PCRs /\ x[1][2][q].fences \in Nat
      BY <2>6 DEF FencesOK
    <3>2. CASE \E q \in DOMAIN x[1][2] : x[1][2][q].fences < pcr[q].fences
      <4>1. PICK q \in DOMAIN x[1][2] : x[1][2][q].fences < pcr[q].fences
        BY <3>2
      <4>2. x[1][2][q].fences < pcr'[q].fences
        BY <2>2, <3>1, <4>1, SMT
      <4> QED BY <4>2
    <3>3. CASE \E q \in DOMAIN x[1][2] \cap arg.left : x[1][2][q].fences <= pcr[q].fences
      <4>1. PICK q \in DOMAIN x[1][2] \cap arg.left : x[1][2][q].fences <= pcr[q].fences
        BY <3>3
      <4>2. CASE q = p
        <5>1. x[1][2][q].fences < pcr'[q].fences
          BY <2>2, <3>1, <4>1, <4>2, SMT
        <5> QED BY <5>1
      <4>3. CASE q # p
        <5>1. x[1][2][q].fences <= pcr'[q].fences /\ q \in arg'.left
          BY <2>2, <2>4, <3>1, <4>1, <4>3
        <5> QED BY <4>1, <5>1
      <4> QED BY <4>2, <4>3
    <3> QED BY <2>6, <3>2, <3>3 DEF Fencing
  <2>7. FenceInv'
    BY <1>1, <1>3, <2>1, <2>4, <2>5, <2>6 DEF FenceInv
  <2> QED BY <1>1, <1>3, <2>3, <2>7, FileSame, ObjectSame, WriteSame DEF IInv
<1> QED BY <1>2, <1>3 DEF Fence

LEMMA BlockReturnsStep ==
  ASSUME IInv, BlockReturns
  PROVE  IInv'
<1>1. /\ pc = "fence" /\ arg.left = {} /\ barred' = barred \cup arg.bars /\ pc' = "idle"
      /\ UNCHANGED <<pcr, nv, tries, file, values, pins, object>>
  BY DEF BlockReturns, Return
<1>2. \A a \in barred' : Fenced(a) /\ FencesOK(a)
  <2>1. \A a \in barred : Fenced(a) /\ FencesOK(a)
    BY DEF IInv, FenceInv
  <2>2. \A a \in arg.bars : Fencing(a, arg.left) /\ FencesOK(a)
    BY <1>1 DEF IInv, FenceInv
  <2>3. \A a : Fencing(a, arg.left) => Fenced(a)
    BY <1>1 DEF Fencing, Fenced
  <2> QED BY <1>1, <2>1, <2>2, <2>3
<1>3. FenceInv'
  BY <1>1, <1>2 DEF FenceInv, Fenced
<1> QED BY <1>1, <1>3, TpmSame, FileSame, ObjectSame, WriteSame DEF IInv, TpmInv

LEMMA ResetStep ==
  ASSUME IInv, NEW b, Reset(b)
  PROVE  IInv'
<1>1. /\ pcr' = Measured(b, PCRs) /\ object' = NoObject /\ barred' = {} /\ pc' = "idle"
      /\ UNCHANGED <<nv, tries, file, values, pins>>
  BY DEF Reset, Return
<1>2. /\ DOMAIN pcr' = PCRs
      /\ \A p \in PCRs : DOMAIN pcr'[p] = {"boot", "fences"} /\ pcr'[p].fences \in Nat
  BY <1>1 DEF Measured
<1>3. TpmInv'
  BY <1>1, <1>2 DEF IInv, TpmInv
<1>4. ObjectInv' /\ FenceInv'
  BY <1>1 DEF ObjectInv, FenceInv
<1> QED BY <1>1, <1>3, <1>4, FileSame, WriteSame DEF IInv

LEMMA UndefineStep ==
  ASSUME IInv, NEW h \in Handles, Undefine(h)
  PROVE  IInv'
<1>1. /\ pc = "idle" /\ nv' = [nv EXCEPT ![h] = None]
      /\ UNCHANGED <<pcr, tries, file, values, pins, object, pc, arg, barred>>
  BY DEF Undefine, call
<1>2. TpmInv
  BY DEF IInv
<1>3. DOMAIN nv' = Handles /\ \A g \in Handles : nv'[g] # None => nv'[g] = nv[g] /\ nv[g] # None
  BY <1>1, <1>2 DEF TpmInv
<1>4. TpmInv'
  BY <1>1, <1>2, <1>3 DEF TpmInv
<1>5. ASSUME NEW d, NEW vs, DataOK(d, vs)
      PROVE  d.handle # HandleNull => d.handle \in Handles
  BY <1>5 DEF DataOK, KindOK, Handles
<1>6. FileInv'
  <2>1. file.handle # HandleNull => file.handle \in Handles
    BY <1>5 DEF IInv, FileInv
  <2>2. PinOK(file, pins)'
    BY <1>1, <1>3, <2>1 DEF IInv, FileInv, PinOK, PinOf, Defined
  <2> QED BY <1>1, <1>3, <2>1, <2>2 DEF IInv, FileInv, Defined
<1>7. ObjectInv'
  <2>1. CASE object = NoObject
    BY <1>1, <2>1 DEF ObjectInv
  <2>2. CASE object # NoObject
    <3>1. /\ DOMAIN object = {"held", "data", "values", "pins", "revoked"} /\ object.held = TRUE
          /\ DataOK(object.data, object.values) /\ SameKey(object.data, file)
          /\ object.data.count <= file.count
          /\ object.revoked \in BOOLEAN /\ (object.revoked <=> object.data.count < file.count)
          /\ PinOK(object.data, object.pins) /\ object.pins \subseteq Pins
      BY <2>2 DEF IInv, ObjectInv
    <3>2. object.data.handle # HandleNull => object.data.handle \in Handles
      BY <1>5, <3>1
    <3>3. PinOK(object.data, object.pins)'
      BY <1>1, <1>3, <3>1, <3>2 DEF PinOK, PinOf, Defined
    <3> QED BY <1>1, <3>1, <3>3 DEF ObjectInv
  <2> QED BY <2>1, <2>2
<1> QED BY <1>1, <1>4, <1>6, <1>7, WriteSame, FenceSame DEF IInv

LEMMA NextIInv == IInv /\ [Next]_vars => IInv'
<1> SUFFICES ASSUME IInv, [Next]_vars
             PROVE  IInv'
  OBVIOUS
<1>1. tries \in Nat /\ tries + 1 \in Nat
  BY SMT DEF IInv, TpmInv
<1>2. CASE UNCHANGED vars
  BY <1>1, <1>2, TriesStep DEF vars
<1>3. ASSUME NEW old \in Pins, NEW new \in Pins, ChangePIN(old, new)
      PROVE  IInv'
  BY <1>3, ChangePINV0Step, ChangePINV1Step
<1>4. ASSUME NEW vs \in NewValues, UpdateKeyPCRProtectionPolicy(vs)
      PROVE  IInv'
  BY <1>4, UpdateStep
<1>5. CASE ReadSealedKeyObject \/ WriteKeyData \/ BlockReturns
  BY <1>5, ReadStep, WriteKeyDataStep, BlockReturnsStep
<1>6. CASE Recover
  BY <1>6, TriesStep DEF Recover
<1>7. ASSUME NEW pin \in Pins, Unseal(pin) \/ ChangePINFails(pin)
      PROVE  IInv'
  BY <1>1, <1>7, TriesStep DEF Unseal, ChangePINFails
<1>8. ASSUME NEW ps \in SUBSET PCRs, BlockPCRProtectionPolicies(ps)
      PROVE  IInv'
  BY <1>8, BlockStep
<1>9. ASSUME NEW p \in PCRs, Fence(p)
      PROVE  IInv'
  BY <1>9, FenceStep
<1>10. ASSUME NEW b \in Boots, Reset(b)
       PROVE  IInv'
  BY <1>10, ResetStep
<1>11. ASSUME NEW h \in Handles, Undefine(h)
       PROVE  IInv'
  BY <1>11, UndefineStep
<1> QED BY <1>2, <1>3, <1>4, <1>5, <1>6, <1>7, <1>8, <1>9, <1>10, <1>11 DEF Next

LEMMA Invariance == Spec => []IInv
BY InitIInv, NextIInv, PTL DEF Spec

(***************************************************************************)
(* UnsealFromTPM returns the key exactly from the PCR values of the        *)
(* policy, with the PIN, as long as no update has revoked the policy: see  *)
(* UnsealExactly.  For any boots and PINs, and however often the key is    *)
(* updated, its PIN changed, or a change interrupted.                      *)
(***************************************************************************)
THEOREM UnsealsExactly == Spec => []UnsealExactly
BY Invariance, UnsealIsExact, PTL

(***************************************************************************)
(* Key data that keyData.validate accepts unseals like the file that was   *)
(* written: see ValidatedIsSound.                                          *)
(***************************************************************************)
THEOREM ValidatedKeyDataIsSound == Spec => []ValidatedIsSound
BY Invariance, ValidationIsSound, PTL

(***************************************************************************)
(* A policy that BlockPCRProtectionPolicies fenced off unseals no more in  *)
(* this boot, for any number of fences and updates: see BarredUntilReset.  *)
(***************************************************************************)
THEOREM FencesLastUntilReset == Spec => []BarredUntilReset
BY Invariance, BarredStaysShut, PTL
=============================================================================
