---------------------------- MODULE PolicySession ----------------------------
(***************************************************************************)
(* The authorization policy of a sealed key and its PIN, assertion by      *)
(* assertion: how the policy is computed and executed (policy.go), how a   *)
(* key data file is checked (keydata.go), unsealing (unseal.go), changing  *)
(* the PIN (pin.go) and fencing off the PCRs (BlockPCRProtectionPolicies). *)
(* Both versions of key data files are covered.                            *)
(*                                                                         *)
(* A policy digest is known by the assertions it was made of.  One key     *)
(* data file exists, and one SealedKeyObject that was read from it at some *)
(* time.  A call may fail or the machine may stop between a command that   *)
(* changes the TPM and the next step.                                      *)
(***************************************************************************)
EXTENDS Naturals, Sequences

CONSTANTS
  Boots,      \* what a boot measures
  Pins,       \* PINs, with NoPIN
  NoPIN,      \* the empty string
  MaxTries,   \* failures of authorization before the TPM is in lockout mode
  MaxCount,   \* bound on the value of a counter
  MaxFences   \* bound on the fences in a PCR

ASSUME PolicySessionAssumption == NoPIN \in Pins /\ MaxTries \in Nat

PCRs == {7, 12}
Handles == {"pinIndex", "counter", "lock"}   \* NV indices
HandleNull == "null"
None == [kind |-> "none"]

VARIABLES
  pcr,      \* what was measured to each PCR: the boot, and the number of fences
  nv,       \* the NV index at each handle
  tries,    \* failed authorizations since the last recovery
  file,     \* the key data file
  values,   \* history: the PCR values its policy was computed for
  pins,     \* history: the PINs it may have
  object,   \* the SealedKeyObject, with the history of the file it was read from
  pc,       \* "idle", "write" (ChangePIN) or "fence" (BlockPCRProtectionPolicies)
  arg,      \* what the call works on: the new key data and PIN, or the PCRs left
  barred    \* history: the PCR policies that were fenced off in this boot

call == <<pc, arg>>
vars == <<pcr, nv, tries, file, values, pins, object, call, barred>>
-----------------------------------------------------------------------------
(* Computing policies                                                      *)

Selected(sel) == [p \in sel |-> pcr[p]]

\* The name of an index covers its handle, attributes and policy.
NameOf(h, index) == <<h, index.kind, index.ak>>

\* computePcrPolicyRefFromCounterName
PcrPolicyRef(name) == <<"AUTH-PCR-POLICY", name>>
NoName == <<"null">>

\* The digest that computeDynamicPolicy signs.
AuthorizedPolicy(ors, name, count) ==
  << <<"PolicyOR", ors>> >> \o
    (IF name = NoName THEN <<>> ELSE << <<"PolicyNV", name, count>> >>)

\* computeDynamicPolicy; only version 0 signs without a reference.
DynamicPolicy(version, ak, sel, vs, name, count) ==
  LET ors == {<< <<"PolicyPCR", v>> >> : v \in vs}
  IN [sel |-> sel, ors |-> ors, count |-> count,
      authorized |-> AuthorizedPolicy(ors, name, count),
      signature |-> <<ak.name, AuthorizedPolicy(ors, name, count),
                      IF version = 0 THEN <<>> ELSE PcrPolicyRef(name)>>]

\* computeStaticPolicy, and the policy of version 0 files.
StaticPolicy(version, ak, name, lock) ==
  IF version = 0
  THEN << <<"PolicyAuthorize", <<>>, ak.name>>, <<"PolicySecret", name>>, <<"PolicyNV", lock, 0>> >>
  ELSE << <<"PolicyAuthorize", PcrPolicyRef(name), ak.name>>, <<"PolicyAuthValue">> >>

\* computeV0PinNVIndexPostInitAuthPolicies
V0PinIndexPostInitAuthPolicies(ak) ==
  << <<"NVIncrement", ak.name>>, <<"NVChangeAuth">>, <<"NVRead">>, <<"PolicyNV">> >>
-----------------------------------------------------------------------------
(* Key data files                                                          *)

\* Version 0 files always have a counter, which is the index of the PIN.
ValidCounterHandle(d) == d.handle # HandleNull \/ d.version = 0 => d.handle \in Handles
HasCounter(d) == d.handle # HandleNull => nv[d.handle] # None

CounterContext(d) == IF d.handle = HandleNull THEN NoName ELSE NameOf(d.handle, nv[d.handle])

\* TPM2_Load checks that the private area belongs to the public area.
Loads(d) == d.private.public = d.public

\* Mutant: the static metadata is not compared with the sealed object.
MutStaticPolicyMatches(d) == TRUE

StaticPolicyMatches(d) ==
  d.public.authPolicy = StaticPolicy(d.version, d.ak, CounterContext(d), NameOf("lock", nv["lock"]))

\* keyData.validate
Validates(d) ==
  /\ d.version <= 1
  /\ d.public.type = "keyedhash" /\ d.public.attrs = "sealed"
  /\ Loads(d)
  /\ d.version = 0 => nv["lock"] # None
  /\ ValidCounterHandle(d) /\ HasCounter(d)
  /\ d.ak.type = IF d.version = 0 THEN "rsa" ELSE "ecc"
  /\ StaticPolicyMatches(d)
  /\ d.version = 0 =>
       /\ Len(d.policies) - 1 = Len(V0PinIndexPostInitAuthPolicies(d.ak))
       /\ Tail(d.policies) = V0PinIndexPostInitAuthPolicies(d.ak)
       /\ nv[d.handle].policies = d.policies
-----------------------------------------------------------------------------
(* Executing policies                                                      *)

\* The revocation check of version 0 files, in a session of its own for the index.
RevocationCheckAllowed(d) ==
  d.version = 0 => /\ \E n \in DOMAIN d.policies : d.policies[n] = <<"PolicyNV">>
                   /\ nv[d.handle].policies = d.policies

\* TPM2_PolicyNV with OpUnsignedLE
NotRevoked(d) == d.handle # HandleNull => nv[d.handle].value <= d.count

\* The session's digest before TPM2_PolicyAuthorize.
AssertedPolicy(d) ==
  << <<"PolicyOR", d.ors>> >> \o
    (IF d.handle = HandleNull THEN <<>> ELSE << <<"PolicyNV", CounterContext(d), d.count>> >>)

SessionPolicyRef(d) == IF d.version = 0 THEN <<>> ELSE PcrPolicyRef(CounterContext(d))

\* executePolicySession: the error of the first assertion that fails.  The PIN is that
\* of the index in version 0 files, and is asserted when the session is used in later ones.
ExecutePolicySession(d, pin) ==
  IF << <<"PolicyPCR", Selected(d.sel)>> >> \notin d.ors THEN "PCR values not permitted"
  ELSE IF ~ ValidCounterHandle(d) THEN "invalid counter handle"
  ELSE IF ~ HasCounter(d) THEN "no counter"
  ELSE IF ~ RevocationCheckAllowed(d) THEN "invalid counter policies"
  ELSE IF ~ NotRevoked(d) THEN "revoked"
  ELSE IF d.signature # <<d.ak.name, d.authorized, SessionPolicyRef(d)>> THEN "invalid signature"
  ELSE IF AssertedPolicy(d) # d.authorized THEN "invalid PCR policy"
  ELSE IF d.version = 0 /\ nv[d.handle].auth # pin THEN "PINFail"
  ELSE IF d.version = 0 /\ nv["lock"] = None THEN "no lock index"
  ELSE "nil"

\* The digest of a session in which no assertion failed.
SessionDigest(d) ==
  << <<"PolicyAuthorize", SessionPolicyRef(d), d.ak.name>> >> \o
    (IF d.version = 0
     THEN << <<"PolicySecret", CounterContext(d)>>, <<"PolicyNV", NameOf("lock", nv["lock"]), 0>> >>
     ELSE << <<"PolicyAuthValue">> >>)

\* UnsealFromTPM, and what TPM2_Unseal checks.
UnsealFromTPM(d, pin) ==
  LET err == ExecutePolicySession(d, pin)
  IN IF tries >= MaxTries THEN "TPMLockout"
     ELSE IF ~ Loads(d) THEN "invalid object"
     ELSE IF err # "nil" THEN err
     ELSE IF SessionDigest(d) # d.public.authPolicy THEN "policy check failed"
     ELSE IF d.version > 0 /\ d.private.pin # pin THEN "PINFail"
     ELSE "ok"
-----------------------------------------------------------------------------
(* The state in which the files were sealed                                *)

RsaKey == [name |-> "rsa", type |-> "rsa"]
EccKey == [name |-> "ecc", type |-> "ecc"]
V0Policies(ak) == << <<"init">> >> \o V0PinIndexPostInitAuthPolicies(ak)

Index(kind, ak, policies) ==
  [kind |-> kind, ak |-> ak.name, policies |-> policies, value |-> 1, auth |-> NoPIN]
FirstNV ==
  [h \in Handles |-> CASE h = "pinIndex" -> Index("pin", RsaKey, V0Policies(RsaKey))
                       [] h = "counter" -> Index("counter", EccKey, <<>>)
                       [] h = "lock" -> Index("lock", RsaKey, <<>>)]

\* A key data file with the policies the functions above compute; the PIN is not set.
KeyData(version, ak, h, sel, vs) ==
  LET name == IF h = HandleNull THEN NoName ELSE NameOf(h, FirstNV[h])
      public == [type |-> "keyedhash", attrs |-> "sealed",
                 authPolicy |-> StaticPolicy(version, ak, name, NameOf("lock", FirstNV["lock"]))]
      dynamic == DynamicPolicy(version, ak, sel, vs, name, IF h = HandleNull THEN 0 ELSE 1)
  IN [version |-> version, public |-> public, private |-> [public |-> public, pin |-> NoPIN],
      handle |-> h, ak |-> ak, policies |-> IF version = 0 THEN V0Policies(ak) ELSE <<>>,
      hint |-> "none", sel |-> sel, ors |-> dynamic.ors, count |-> dynamic.count,
      authorized |-> dynamic.authorized, signature |-> dynamic.signature]

Kinds == {<<0, RsaKey, "pinIndex">>, <<1, EccKey, "counter">>, <<1, EccKey, HandleNull>>}
Measured(b, sel) == [p \in sel |-> [boot |-> b, fences |-> 0]]
Selections == {{7}, {7, 12}}
BootValues(sel) == {{Measured(b, sel) : b \in bs} : bs \in SUBSET Boots \ {{}}}

NoObject == [held |-> FALSE]
NoArg == [data |-> None]

Init ==
  /\ \E b \in Boots : pcr = Measured(b, PCRs)
  /\ nv = FirstNV /\ tries = 0
  /\ \E k \in Kinds, sel \in Selections : \E vs \in BootValues(sel) :
       values = vs /\ file = KeyData(k[1], k[2], k[3], sel, vs)
  /\ pins = {NoPIN} /\ object = NoObject
  /\ pc = "idle" /\ arg = NoArg /\ barred = {}
-----------------------------------------------------------------------------
(* Operations                                                              *)

Return == pc' = "idle" /\ arg' = NoArg

\* ReadSealedKeyObject
ReadSealedKeyObject ==
  /\ pc = "idle"
  /\ object' = [held |-> TRUE, data |-> file, values |-> values, pins |-> pins, revoked |-> FALSE]
  /\ UNCHANGED <<pcr, nv, tries, file, values, pins, call, barred>>

\* A wrong PIN counts as a failed authorization; other results leave the TPM as it is.
Unseal(pin) ==
  /\ pc = "idle" /\ object.held
  /\ tries' = IF UnsealFromTPM(object.data, pin) = "PINFail" THEN tries + 1 ELSE tries
  /\ UNCHANGED <<pcr, nv, file, values, pins, object, call, barred>>

\* updateKeyPCRProtectionPolicyCommon for the one file; its steps are in SealedKeys.
UpdateKeyPCRProtectionPolicy(vs) ==
  LET h == file.handle
      count == IF h = HandleNull THEN 0 ELSE nv[h].value + 1
      dynamic == DynamicPolicy(file.version, file.ak, file.sel, vs, CounterContext(file), count)
  IN /\ pc = "idle" /\ Validates(file)
     /\ h # HandleNull => nv[h].value < MaxCount
     /\ file' = [file EXCEPT !.ors = dynamic.ors, !.count = count,
                   !.authorized = dynamic.authorized, !.signature = dynamic.signature]
     /\ values' = vs
     /\ nv' = IF h = HandleNull THEN nv ELSE [nv EXCEPT ![h].value = count]
     /\ object' = IF object.held /\ h # HandleNull THEN [object EXCEPT !.revoked = TRUE] ELSE object
     /\ UNCHANGED <<pcr, tries, pins, call, barred>>

\* The PINs of the object: in version 0 files the PIN is in the TPM.
WithPins(ps) == IF object.held /\ file.version = 0 THEN [object EXCEPT !.pins = ps] ELSE object

\* Mutant: the hint says that there is a PIN, whatever it is.
MutAuthModeHint(new) == "PIN"

AuthModeHint(new) == IF new = NoPIN THEN "none" ELSE "PIN"

\* performPinChangeV0: TPM2_NV_ChangeAuth changes the PIN in the TPM.
PerformPinChangeV0(old, new) ==
  /\ nv[file.handle].auth = old
  /\ nv' = [nv EXCEPT ![file.handle].auth = new]
  /\ pins' = pins \cup {new}
  /\ arg' = [data |-> [file EXCEPT !.hint = AuthModeHint(new)], pin |-> new]

\* performPinChange: TPM2_ObjectChangeAuth makes a new private area.
PerformPinChange(old, new) ==
  /\ file.private.pin = old
  /\ arg' = [data |-> [file EXCEPT !.hint = AuthModeHint(new), !.private = [@ EXCEPT !.pin = new]], pin |-> new]
  /\ UNCHANGED <<nv, pins>>

\* ChangePIN, up to the change of the authorization value.
ChangePIN(old, new) ==
  /\ pc = "idle" /\ tries < MaxTries /\ Validates(file)
  /\ IF file.version = 0 THEN PerformPinChangeV0(old, new) ELSE PerformPinChange(old, new)
  /\ pc' = "write"
  /\ object' = WithPins(pins')
  /\ UNCHANGED <<pcr, tries, file, values, barred>>

\* The old PIN is wrong: ErrPINFail.
ChangePINFails(old) ==
  /\ pc = "idle" /\ tries < MaxTries /\ Validates(file)
  /\ old # IF file.version = 0 THEN nv[file.handle].auth ELSE file.private.pin
  /\ tries' = tries + 1
  /\ UNCHANGED <<pcr, nv, file, values, pins, object, call, barred>>

\* Mutant: the file is not written if the hint is the same, in any version.
MutUnchanged == file.hint = arg.data.hint

\* A version 0 file is left alone if the hint is the same: the PIN is not in it.
Unchanged == file.version = 0 /\ file.hint = arg.data.hint

\* The end of ChangePIN: writeToFileAtomic replaces the file, or fails.
WriteKeyData ==
  /\ pc = "write"
  /\ \/ /\ file' = IF Unchanged THEN file ELSE arg.data
        /\ pins' = {arg.pin} /\ object' = WithPins(pins')
     \/ ~ Unchanged /\ UNCHANGED <<file, pins, object>>
  /\ Return
  /\ UNCHANGED <<pcr, nv, tries, values, barred>>

\* The policies that depend on one of the PCRs and permit the present values.
KnownData == {file} \cup (IF object.held THEN {object.data} ELSE {})
Satisfiable(ps) ==
  {d.authorized : d \in {k \in KnownData :
                           k.sel \cap ps # {} /\ << <<"PolicyPCR", Selected(k.sel)>> >> \in k.ors}}

\* BlockPCRProtectionPolicies
BlockPCRProtectionPolicies(ps) ==
  /\ pc = "idle"
  /\ pc' = "fence" /\ arg' = [data |-> None, left |-> ps, bars |-> Satisfiable(ps)]
  /\ UNCHANGED <<pcr, nv, tries, file, values, pins, object, barred>>

\* Mutant: the call succeeds after the first PCR.
MutPCRsLeft(p) == {}

PCRsLeft(p) == arg.left \ {p}

\* One PCR is extended with the fence, or the call fails; the order of the PCRs is the caller's.
Fence(p) ==
  /\ pc = "fence" /\ p \in arg.left /\ pcr[p].fences < MaxFences
  /\ \/ /\ pcr' = [pcr EXCEPT ![p].fences = @ + 1]
        /\ arg' = [arg EXCEPT !.left = PCRsLeft(p)]
        /\ UNCHANGED pc
     \/ Return /\ UNCHANGED pcr
  /\ UNCHANGED <<nv, tries, file, values, pins, object, barred>>

BlockReturns ==
  /\ pc = "fence" /\ arg.left = {}
  /\ barred' = barred \cup arg.bars
  /\ Return
  /\ UNCHANGED <<pcr, nv, tries, file, values, pins, object>>
-----------------------------------------------------------------------------
(* The environment                                                         *)

\* The machine stops, or is restarted, and boots.
Reset(b) ==
  /\ pcr' = Measured(b, PCRs)
  /\ object' = NoObject /\ barred' = {}
  /\ Return
  /\ UNCHANGED <<nv, tries, file, values, pins>>

\* The dictionary attack logic recovers.
Recover == pc = "idle" /\ tries > 0 /\ tries' = 0 /\ UNCHANGED <<pcr, nv, file, values, pins, object, call, barred>>

\* The owner undefines an index that a policy may need.
Undefine(h) ==
  /\ pc = "idle" /\ nv[h] # None
  /\ h = file.handle \/ (h = "lock" /\ file.version = 0)
  /\ nv' = [nv EXCEPT ![h] = None]
  /\ UNCHANGED <<pcr, tries, file, values, pins, object, call, barred>>

\* The values a new policy may be computed for: those of a boot, or the current ones.
NewValues == {{Measured(b, file.sel)} : b \in Boots} \cup {{Selected(file.sel)}}

Next ==
  \/ ReadSealedKeyObject
  \/ \E pin \in Pins : Unseal(pin) \/ ChangePINFails(pin) \/ (\E new \in Pins : ChangePIN(pin, new))
  \/ \E vs \in NewValues : UpdateKeyPCRProtectionPolicy(vs)
  \/ WriteKeyData
  \/ \E ps \in SUBSET PCRs : BlockPCRProtectionPolicies(ps)
  \/ \E p \in PCRs : Fence(p)
  \/ BlockReturns
  \/ \E b \in Boots : Reset(b)
  \/ Recover
  \/ \E h \in Handles : Undefine(h)

Spec == Init /\ [][Next]_vars
-----------------------------------------------------------------------------
(* Properties                                                              *)

Known ==
  {[data |-> file, values |-> values, pins |-> pins, revoked |-> FALSE]} \cup
    (IF object.held THEN {[data |-> object.data, values |-> object.values,
                           pins |-> object.pins, revoked |-> object.revoked]} ELSE {})

Opens(d) == {pin \in Pins : UnsealFromTPM(d, pin) = "ok"}

\* The PCRs and the counter permit the policy, and the indices of the file are there.
Permitted(k) ==
  /\ Selected(k.data.sel) \in k.values /\ ~ k.revoked
  /\ k.data.handle # HandleNull => nv[k.data.handle] # None

(***************************************************************************)
(* UnsealFromTPM returns the key exactly if the PCR values are among those *)
(* the policy was computed for, no update has revoked it and the PIN is    *)
(* right.  Exactly one PIN is: the one that was set last; after a          *)
(* ChangePIN that was interrupted the old one, or in version 0, where the  *)
(* TPM holds it, the old or the new one.  A PIN is only tried, and can     *)
(* only fail, when the rest of the policy is satisfied.                    *)
(***************************************************************************)
UnsealExactly ==
  tries < MaxTries =>
    \A k \in Known : LET opens == Opens(k.data) IN
      /\ opens # {} => Permitted(k) /\ opens \subseteq k.pins
      /\ Permitted(k) /\ (k.data.version = 0 => nv["lock"] # None) =>
           \E pin \in k.pins : opens = {pin}
      /\ ~ Permitted(k) => \A pin \in Pins : UnsealFromTPM(k.data, pin) # "PINFail"

\* Key data with static metadata that belongs to another file.
Variant(v, h, a, ps) == [file EXCEPT !.version = v, !.handle = h, !.ak = a, !.policies = ps]
Variants ==
  {Variant(v, h, a, ps) :
     v \in 0 .. 2, h \in Handles \cup {HandleNull, "object"}, a \in {RsaKey, EccKey},
     ps \in {file.policies, V0Policies(EccKey), Tail(V0Policies(RsaKey))}}

(***************************************************************************)
(* Validation is sound: key data that keyData.validate accepts unseals     *)
(* exactly like the file that was written, for every PIN and in every      *)
(* state of the TPM, also if its static metadata comes from another file   *)
(* ("we know that the sealed object is an object with an authorization     *)
(* policy created by this package and with matching static metadata and    *)
(* persistent TPM resources").  The SealedKeyObject has no part in it.     *)
(***************************************************************************)
ValidatedIsSound ==
  ~ object.held => \A d \in Variants : Validates(d) =>
    \A pin \in Pins : UnsealFromTPM(d, pin) = UnsealFromTPM(file, pin)

(***************************************************************************)
(* AuthMode2F tells whether a PIN is set, also after a change of the PIN   *)
(* was interrupted; except in version 0, where the PIN is in the TPM and   *)
(* the hint in the file, until the change is repeated.                     *)
(***************************************************************************)
HintMatches == \A x \in Pins : pins = {x} => (file.hint = "none" <=> x = NoPIN)

(***************************************************************************)
(* BlockPCRProtectionPolicies makes "PCR policies that depend on the       *)
(* specified PCRs and are satisfiable by the current PCR values invalid    *)
(* until the next TPM restart": none of them unseals again in this boot,   *)
(* whatever is fenced, updated or read later.                              *)
(***************************************************************************)
BarredUntilReset ==
  \A k \in Known : k.data.authorized \in barred => Opens(k.data) = {}
=============================================================================
