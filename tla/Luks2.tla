-------------------------------- MODULE Luks2 --------------------------------
(***************************************************************************)
(* The keyslots of a LUKS2 container under InitializeLUKS2Container,       *)
(* AddRecoveryKeyToLUKS2Container and ChangeLUKS2KeyUsingRecoveryKey       *)
(* (crypt.go).  Each function runs cryptsetup one or more times; each run  *)
(* may fail without an effect, and the machine may stop between two runs.  *)
(***************************************************************************)
EXTENDS Naturals

CONSTANTS
  MaxSlot,      \* keyslots are numbered from 0 to MaxSlot
  Key,          \* the 64-byte keys that are sealed to the TPM
  RecoveryKey,  \* the 16-byte recovery keys
  NoKey         \* an inactive keyslot, or no key

ASSUME Luks2Assumption ==
  MaxSlot \in Nat /\ Key \cap RecoveryKey = {} /\ NoKey \notin Key \cup RecoveryKey

VARIABLES
  slots,     \* the key of each keyslot
  preferred, \* the keyslots with priority "prefer"
  pc,        \* the next run of cryptsetup of the running function, or "idle"
  arg,       \* its new key
  rkey,      \* the recovery key given to it
  result,    \* what the last function returned: "none", "ok" or "failed"
  faulted,   \* history: a run of the last function failed for no reason of its own
  main,      \* history: the key the last initialization or change left, if complete
  gap,       \* history: a change has removed the main key and added no other yet
  recovery,  \* history: the recovery keys added since the initialization, but for
  exposed    \* history: the first one added in a gap, if it is there still, or NoKey

added == <<gap, recovery, exposed>>
vars == <<slots, preferred, pc, arg, rkey, result, faulted, main, added>>

Slot == 0 .. MaxSlot

\* Whether a key unlocks the container through one of the given keyslots.
Unlocks(k, S) == \E s \in S : slots[s] = k

Init ==
  /\ slots = [s \in Slot |-> NoKey] /\ preferred = {}
  /\ pc = "idle" /\ arg = NoKey /\ rkey = NoKey /\ result = "none" /\ faulted = FALSE
  /\ main = NoKey /\ gap = FALSE /\ recovery = {} /\ exposed = NoKey

Call(first, k, r) ==
  /\ pc = "idle" /\ pc' = first
  /\ arg' = k /\ rkey' = r /\ result' = "none" /\ faulted' = FALSE

Return(r) == pc' = "idle" /\ arg' = NoKey /\ rkey' = NoKey /\ result' = r

Continue(next) == pc' = next /\ UNCHANGED <<arg, rkey, result>>
-----------------------------------------------------------------------------
InitializeLUKS2Container(k) ==
  /\ Call("luksFormat", k, NoKey)
  /\ main' = NoKey
  /\ UNCHANGED <<slots, preferred, added>>

LuksFormat ==
  /\ pc = "luksFormat"
  /\ slots' = [s \in Slot |-> IF s = 0 THEN arg ELSE NoKey] /\ preferred' = {}
  /\ gap' = FALSE /\ recovery' = {} /\ exposed' = NoKey
  /\ Continue("setPreferred")
  /\ UNCHANGED <<faulted, main>>

\* Mutant: keyslots counted from 1.
MutPreferredSlot == 1

\* The keyslot argument of setLUKS2KeyslotPreferred.
PreferredSlot == 0

\* setLUKS2KeyslotPreferred(devicePath, 0), the end of two functions.
SetLUKS2KeyslotPreferred ==
  /\ pc = "setPreferred"
  /\ preferred' = preferred \cup {PreferredSlot}
  /\ main' = arg
  /\ Return("ok")
  /\ UNCHANGED <<slots, faulted, added>>

\* cryptsetup luksAddKey without --key-slot takes the first inactive keyslot.
FirstFree(s) == slots[s] = NoKey /\ \A t \in Slot : t < s => slots[t] # NoKey

(***************************************************************************)
(* AddRecoveryKeyToLUKS2Container, with any existing key: it may be a      *)
(* recovery key, and is refused if it does not unlock the container.  The  *)
(* new key goes to the first inactive keyslot, which is keyslot 0 in a gap.*)
(***************************************************************************)
AddRecoveryKeyToLUKS2Container(existing, r) ==
  /\ pc = "idle" /\ faulted' = FALSE
  /\ \/ /\ Unlocks(existing, Slot)
        /\ \E s \in Slot : FirstFree(s) /\ slots' = [slots EXCEPT ![s] = r]
        /\ IF gap /\ exposed = NoKey
           THEN exposed' = r /\ UNCHANGED recovery
           ELSE recovery' = recovery \cup {r} /\ UNCHANGED exposed
        /\ Return("ok")
     \/ Return("failed") /\ UNCHANGED <<slots, recovery, exposed>>
  /\ UNCHANGED <<preferred, main, gap>>

ChangeLUKS2KeyUsingRecoveryKey(r, k) ==
  /\ Call("luksKillSlot", k, r)
  /\ main' = NoKey
  /\ UNCHANGED <<slots, preferred, added>>

\* Mutant: keyslots counted from 1.
MutKilledSlot == 1

\* The keyslot argument of luksKillSlot.
KilledSlot == 0

(***************************************************************************)
(* cryptsetup luksKillSlot (external): the keyslot must be active, and the *)
(* key must unlock one of the others.                                      *)
(***************************************************************************)
CanKill == slots[KilledSlot] # NoKey /\ Unlocks(rkey, Slot \ {KilledSlot})

LuksKillSlot ==
  /\ pc = "luksKillSlot"
  /\ \/ /\ CanKill
        /\ slots' = [slots EXCEPT ![KilledSlot] = NoKey] /\ preferred' = preferred \ {KilledSlot}
        /\ gap' = TRUE /\ exposed' = NoKey
        /\ Continue("luksAddKey")
     \/ /\ ~ CanKill
        /\ Return("failed") /\ UNCHANGED <<slots, preferred, gap, exposed>>
  /\ UNCHANGED <<faulted, main, recovery>>

\* Mutant: the new key goes to another keyslot.
MutMainSlot == MaxSlot

\* --key-slot 0
MainSlot == 0

\* addKeyToLUKS2Container with the recovery key as the existing key.
LuksAddKey ==
  /\ pc = "luksAddKey"
  /\ \/ /\ Unlocks(rkey, Slot) /\ slots[MainSlot] = NoKey
        /\ slots' = [slots EXCEPT ![MainSlot] = arg]
        /\ gap' = FALSE
        /\ Continue("setPreferred")
     \/ /\ ~ (Unlocks(rkey, Slot) /\ slots[MainSlot] = NoKey)
        /\ Return("failed") /\ UNCHANGED <<slots, gap>>
  /\ UNCHANGED <<preferred, faulted, main, recovery, exposed>>
-----------------------------------------------------------------------------
\* cryptsetup cannot be run, or cannot use the device.
CryptsetupFails ==
  /\ pc # "idle"
  /\ Return("failed") /\ faulted' = TRUE
  /\ UNCHANGED <<slots, preferred, main, added>>

\* The machine stops between two runs of cryptsetup.
Crash ==
  /\ pc # "idle"
  /\ Return("none") /\ faulted' = TRUE
  /\ UNCHANGED <<slots, preferred, main, added>>

Next ==
  \/ \E k \in Key : InitializeLUKS2Container(k)
  \/ \E k \in Key \cup RecoveryKey, r \in RecoveryKey : AddRecoveryKeyToLUKS2Container(k, r)
  \/ \E k \in Key, r \in RecoveryKey : ChangeLUKS2KeyUsingRecoveryKey(r, k)
  \/ LuksFormat \/ SetLUKS2KeyslotPreferred \/ LuksKillSlot \/ LuksAddKey
  \/ CryptsetupFails \/ Crash

Spec == Init /\ [][Next]_vars
-----------------------------------------------------------------------------
\* The type invariant; no keyslot but 0 ever gets the priority "prefer".
TypeOK ==
  /\ slots \in [Slot -> Key \cup RecoveryKey \cup {NoKey}] /\ preferred \subseteq {0}
  /\ pc \in {"idle", "luksFormat", "luksKillSlot", "luksAddKey", "setPreferred"}
  /\ arg \in IF pc = "idle" THEN {NoKey} ELSE Key
  /\ rkey \in RecoveryKey \cup {NoKey}
  /\ result \in {"none", "ok", "failed"} /\ faulted \in BOOLEAN
  /\ main \in Key \cup {NoKey}
  /\ gap \in BOOLEAN /\ recovery \subseteq RecoveryKey /\ exposed \in RecoveryKey \cup {NoKey}

(***************************************************************************)
(* The fallback stays: a recovery key that was added unlocks the container *)
(* until it is initialized again, whatever fails or stops in between, and  *)
(* never through keyslot 0, which ChangeLUKS2KeyUsingRecoveryKey removes.  *)
(* There is one exception: when a change stopped after luksKillSlot, the   *)
(* first recovery key that is added goes to keyslot 0, and unlocks the     *)
(* container only until the next change removes that keyslot.              *)
(***************************************************************************)
RecoveryKeysStay ==
  /\ \A r \in recovery : Unlocks(r, Slot \ {0})
  /\ exposed # NoKey => Unlocks(exposed, Slot)

(***************************************************************************)
(* An initialization or a change that returned without an error has left   *)
(* its key in the preferred keyslot 0, and no other sealed key unlocks the *)
(* container.                                                              *)
(***************************************************************************)
MainKeyReplaced ==
  main # NoKey =>
    /\ slots[0] = main /\ 0 \in preferred
    /\ \A k \in Key \ {main} : ~ Unlocks(k, Slot)

(***************************************************************************)
(* That the change "is not atomic ... is not a problem": a later call with *)
(* a recovery key of the container replaces the key, and does not fail on  *)
(* what an interrupted call left.                                          *)
(***************************************************************************)
ChangeCanBeRepeated ==
  [][pc = "luksKillSlot" /\ rkey \in recovery /\ result' = "failed" => faulted']_vars
=============================================================================
