----------------------------- MODULE Activation -----------------------------
(***************************************************************************)
(* Activating an encrypted volume (crypt.go): the PIN attempts of          *)
(* ActivateVolumeWithTPMSealedKey, its fallback to the recovery key,       *)
(* ActivateVolumeWithRecoveryKey, and the kernel keyring in which both     *)
(* leave data for GetActivationDataFromKernel.                             *)
(*                                                                         *)
(* One volume is activated and closed any number of times.  The PIN and    *)
(* the recovery key come from a reader or from systemd-ask-password; what  *)
(* the user answers is arbitrary.                                          *)
(***************************************************************************)
EXTENDS Integers

CONSTANTS
  MaxPassphraseTries,  \* bound on ActivateVolumeOptions.PassphraseTries
  MaxRecoveryKeyTries, \* bound on ActivateVolumeOptions.RecoveryKeyTries
  MaxFailures          \* authorization failures that put the TPM in lockout

ASSUME ActivationAssumption ==
  MaxPassphraseTries \in Nat /\ MaxRecoveryKeyTries \in Nat /\ MaxFailures \in Nat \ {0}

VARIABLES
  keyFile,     \* the state of the key file and of what it unseals
  authMode,    \* the file's AuthMode2F: "none" or "pin"
  pinSet,      \* whether a PIN is set, which a stale authMode may not tell
  srk,         \* whether there is a storage root key at its handle
  nullAuth,    \* whether the hierarchies have null authorization values
  failures,    \* the TPM's dictionary attack counter
  pc,
  tries,       \* attempts left in the loop that is running
  allowed,     \* PassphraseTries of the running call, or its default
  rTries,      \* RecoveryKeyTries of the running call
  err,         \* the error of the last attempt
  reason,      \* why the recovery key is used
  result,      \* what the last call returned: "none", "true" or "false"
  via,         \* how the volume was activated: "none", "tpm" or a reason
  keyring,     \* the keys with this volume's description in the user keyring
  unsealed,    \* history: this call has unsealed the key
  wrongPins,   \* history: the wrong PINs this call has tried
  fault        \* history: EnsureProvisioned failed in this call despite null authorization values

device == <<keyFile, authMode, pinSet, nullAuth>>
progress == <<pc, tries, allowed, rTries, err, reason, result>>
history == <<unsealed, wrongPins, fault>>
vars == <<device, srk, failures, progress, via, keyring, history>>

KeyFiles == {"good", "missing", "corrupt", "unsatisfied", "wrongKey"}
Errors == {"nil", "other", "InvalidKeyFile", "TPMLockout", "TPMProvisioning",
           "PINFail", "requiresPin", "exec"}
Reasons == {"UnexpectedError", "Requested", "TPMLockout", "TPMProvisioningError",
            "InvalidKeyFile", "PassphraseFail"}

Init ==
  /\ keyFile \in KeyFiles /\ authMode \in {"none", "pin"} /\ pinSet \in BOOLEAN
  /\ authMode = "pin" => pinSet
  /\ srk \in BOOLEAN /\ nullAuth \in BOOLEAN
  /\ failures \in 0 .. MaxFailures
  /\ pc = "idle" /\ tries = 0 /\ allowed = 0 /\ rTries = 0 /\ err = "nil"
  /\ reason = "none" /\ result = "none"
  /\ via = "none" /\ keyring = {} /\ unsealed = FALSE /\ wrongPins = 0 /\ fault = FALSE

Return(r) ==
  /\ pc' = "idle" /\ result' = r
  /\ tries' = 0 /\ allowed' = 0 /\ rTries' = 0 /\ err' = "nil" /\ reason' = "none"
-----------------------------------------------------------------------------
(* ActivateVolumeWithTPMSealedKey                                          *)

ActivateVolumeWithTPMSealedKey(passphraseTries, recoveryKeyTries) ==
  /\ pc = "idle" /\ via = "none"
  /\ pc' = "read" /\ result' = "none"
  /\ tries' = passphraseTries /\ rTries' = recoveryKeyTries
  /\ unsealed' = FALSE /\ wrongPins' = 0 /\ fault' = FALSE
  /\ UNCHANGED <<device, srk, failures, allowed, err, reason, via, keyring>>

\* The recovery reason for an error of activateWithTPMKey.
ReasonFor(e) ==
  CASE e = "TPMLockout" -> "TPMLockout"
    [] e = "TPMProvisioning" -> "TPMProvisioningError"
    [] e \in {"InvalidKeyFile", "exec"} -> "InvalidKeyFile"
    [] e \in {"requiresPin", "PINFail"} -> "PassphraseFail"
    [] OTHER -> "UnexpectedError"

FallBack(e) ==
  /\ pc' = "recover" /\ reason' = ReasonFor(e) /\ err' = "nil" /\ tries' = rTries
  /\ UNCHANGED <<allowed, rTries, result>>

\* activateWithTPMKey, up to its loop.
ReadKey ==
  /\ pc = "read"
  /\ \/ keyFile = "missing" /\ FallBack("other")
     \/ keyFile = "corrupt" /\ FallBack("InvalidKeyFile")
     \/ /\ keyFile \notin {"missing", "corrupt"}
        /\ IF tries = 0 /\ authMode = "pin" THEN FallBack("requiresPin")
           ELSE /\ pc' = "unseal"
                /\ tries' = (IF tries = 0 THEN 1 ELSE tries) /\ allowed' = tries'
                /\ UNCHANGED <<rTries, err, reason, result>>
  /\ UNCHANGED <<device, srk, failures, via, keyring, history>>

(***************************************************************************)
(* UnsealFromTPM with a right or wrong PIN, when there is an SRK or not.   *)
(* The policy assertions come before the PIN is used.                      *)
(***************************************************************************)
UnsealResult(pin, hasSrk) ==
  IF failures = MaxFailures THEN "TPMLockout"
  ELSE IF ~ hasSrk THEN "TPMProvisioning"
  ELSE IF keyFile = "unsatisfied" THEN "InvalidKeyFile"
  ELSE IF pin = "wrong" THEN "PINFail"
  ELSE "nil"

(***************************************************************************)
(* EnsureProvisioned without lockout (see module Provisioning).  It makes  *)
(* an SRK if the hierarchies have null authorization values, unless a      *)
(* command fails, and it may fail after that too.                          *)
(***************************************************************************)
EnsureProvisioned(ok) ==
  /\ ok => nullAuth
  /\ srk' \in IF ok THEN {TRUE} ELSE {srk, srk \/ nullAuth}
  /\ fault' = (fault \/ (nullAuth /\ ~ ok))

\* Mutant: what the second attempt returns is assigned to other variables.
MutRetried(first, pin) == first

\* The result of unsealing again once there is an SRK.
Retried(first, pin) == UnsealResult(pin, TRUE)

\* unsealKeyFromTPM: without an SRK, EnsureProvisioned is tried, and then unsealing again.
UnsealKeyFromTPM(pin) ==
  LET first == UnsealResult(pin, srk)
  IN /\ IF first = "TPMProvisioning"
        THEN \E ok \in BOOLEAN :
               EnsureProvisioned(ok) /\ err' = IF ok THEN Retried(first, pin) ELSE first
        ELSE err' = first /\ UNCHANGED <<srk, fault>>
     /\ failures' = IF err' = "PINFail" THEN failures + 1 ELSE failures
     /\ unsealed' = (unsealed \/ err' = "nil")
     /\ wrongPins' = IF err' = "PINFail" THEN wrongPins + 1 ELSE wrongPins

\* Mutant: a wrong PIN ends the loop.
MutLoopEnds(e, left) == e # "nil" \/ left = 0

\* Mutant: the loop goes on when no tries are left.
MutLoopForever(e, left) == e # "nil" /\ (e # "PINFail" \/ authMode # "pin")

\* The loop of activateWithTPMKey ends with an error that is not a wrong PIN.
LoopEnds(e, left) == (e # "nil" /\ (e # "PINFail" \/ authMode # "pin")) \/ left = 0

\* Without AuthModePIN the empty PIN is used.
PINs ==
  IF authMode = "pin" THEN {"right", "wrong"} ELSE IF pinSet THEN {"wrong"} ELSE {"right"}

UnsealAttempt ==
  /\ pc = "unseal"
  /\ \/ /\ \E pin \in PINs : UnsealKeyFromTPM(pin)
        /\ tries' = tries - 1
        /\ pc' = IF LoopEnds(err', tries') THEN "attach" ELSE "unseal"
        /\ UNCHANGED <<allowed, rTries, reason, result>>
     \/ /\ FallBack("other")  \* no PIN was obtained, or a TPM command failed
        /\ srk' \in {srk, srk \/ nullAuth}
        /\ UNCHANGED <<failures, history>>
  /\ UNCHANGED <<device, via, keyring>>

\* unix.AddKey replaces a key with the same description.  It may fail.
AddKey(k) == keyring' = keyring \cup {k} \/ UNCHANGED keyring

\* activate with the unsealed key, after the loop.
Attach ==
  /\ pc = "attach"
  /\ \/ /\ err # "nil" /\ FallBack(err) /\ UNCHANGED <<via, keyring>>
     \/ /\ err = "nil" /\ keyFile = "good"
        /\ via' = "tpm" /\ AddKey("tpm") /\ Return("true")
     \/ /\ err = "nil"
        /\ FallBack("exec") \/ FallBack("other")
        /\ UNCHANGED <<via, keyring>>
  /\ UNCHANGED <<device, srk, failures, history>>
-----------------------------------------------------------------------------
(* The recovery key                                                        *)

ActivateVolumeWithRecoveryKey(recoveryKeyTries) ==
  /\ pc = "idle" /\ via = "none"
  /\ pc' = "recover" /\ reason' = "Requested" /\ result' = "none" /\ tries' = recoveryKeyTries
  /\ unsealed' = FALSE /\ wrongPins' = 0 /\ fault' = FALSE
  /\ UNCHANGED <<device, srk, failures, allowed, rTries, err, via, keyring>>

\* Mutant: the error of an earlier attempt is returned after a good one.
MutRecoverySuccess == via' = reason /\ AddKey(reason) /\ Return(IF err = "nil" THEN "true" ELSE "false")

RecoverySuccess == via' = reason /\ AddKey(reason) /\ Return("true")

\* Mutant: an attempt with a wrong recovery key does not count.
MutRecoveryRetry(e) == err' = e /\ UNCHANGED <<tries, pc, allowed, rTries, reason, result>>

\* "continue" in the loop of activateWithRecoveryKey.
RecoveryRetry(e) ==
  IF tries = 1 THEN Return("false")
  ELSE /\ tries' = tries - 1 /\ err' = e
       /\ UNCHANGED <<pc, allowed, rTries, reason, result>>

(***************************************************************************)
(* One iteration of activateWithRecoveryKey: an answer that cannot be      *)
(* parsed or that systemd-cryptsetup refuses is retried, any other error   *)
(* is final.                                                               *)
(***************************************************************************)
RecoveryAttempt ==
  /\ pc = "recover"
  /\ \/ tries = 0 /\ Return("false") /\ UNCHANGED <<via, keyring>>
     \/ /\ tries > 0
        /\ \/ RecoverySuccess
           \/ RecoveryRetry("other") /\ UNCHANGED <<via, keyring>>
           \/ RecoveryRetry("exec") /\ UNCHANGED <<via, keyring>>
           \/ Return("false") /\ UNCHANGED <<via, keyring>>
  /\ UNCHANGED <<device, srk, failures, history>>
-----------------------------------------------------------------------------
(* Between the calls                                                       *)

\* The volume is closed; the user keyring stays.
CloseVolume ==
  /\ pc = "idle" /\ via # "none"
  /\ via' = "none" /\ result' = "none"
  /\ UNCHANGED <<device, srk, failures, pc, tries, allowed, rTries, err, reason,
                 keyring, history>>

\* GetActivationDataFromKernel with remove: any key of the volume may come first.
GetActivationDataFromKernel ==
  /\ pc = "idle"
  /\ \E k \in keyring : keyring' = keyring \ {k}
  /\ UNCHANGED <<device, srk, failures, progress, via, history>>

\* The key file stops being usable, or the SRK is evicted, between two calls.
DeviceChanges ==
  /\ pc = "idle" /\ via = "none"
  /\ keyFile' \in KeyFiles /\ srk' \in BOOLEAN
  /\ UNCHANGED <<authMode, pinSet, nullAuth, failures, progress, via, keyring, history>>

Steps == ReadKey \/ UnsealAttempt \/ Attach \/ RecoveryAttempt

Next ==
  \/ \E n \in 0 .. MaxPassphraseTries, m \in 0 .. MaxRecoveryKeyTries :
       ActivateVolumeWithTPMSealedKey(n, m)
  \/ \E m \in 0 .. MaxRecoveryKeyTries : ActivateVolumeWithRecoveryKey(m)
  \/ Steps
  \/ CloseVolume
  \/ GetActivationDataFromKernel
  \/ DeviceChanges

(***************************************************************************)
(* A call that is running goes on: the user answers every prompt and the   *)
(* child processes exit.                                                   *)
(***************************************************************************)
Spec == Init /\ [][Next]_vars /\ WF_vars(Steps)
-----------------------------------------------------------------------------
\* The type invariant.
TypeOK ==
  /\ keyFile \in KeyFiles /\ authMode \in {"none", "pin"} /\ pinSet \in BOOLEAN
  /\ srk \in BOOLEAN /\ nullAuth \in BOOLEAN
  /\ failures \in 0 .. MaxFailures
  /\ pc \in {"idle", "read", "unseal", "attach", "recover"}
  /\ pc = "unseal" => tries > 0
  /\ err \in Errors /\ reason \in Reasons \cup {"none"} /\ result \in {"none", "true", "false"}
  /\ via \in Reasons \cup {"none", "tpm"} /\ keyring \subseteq Reasons \cup {"tpm"}

(***************************************************************************)
(* "If the volume is successfully activated, either with the TPM sealed    *)
(* key or the fallback recovery key, this function returns true.  If it is *)
(* not successfully activated, then this function returns false."          *)
(***************************************************************************)
TrueIffActive == pc = "idle" /\ result # "none" => (result = "true" <=> via # "none")

(***************************************************************************)
(* The recovery key is asked for because of wrong PINs only when every     *)
(* attempt that PassphraseTries permits was made, and never more wrong     *)
(* PINs than that reach the TPM's dictionary attack logic.                 *)
(***************************************************************************)
AllTriesBeforePassphraseFail ==
  pc # "idle" =>
    /\ wrongPins <= allowed
    /\ reason = "PassphraseFail" /\ authMode = "pin" /\ ~ unsealed => wrongPins = allowed

(***************************************************************************)
(* What the recovery key is said to be used for is so when it is asked     *)
(* for (RecoveryKeyUsageReason): the TPM is in lockout; it is not          *)
(* correctly provisioned, and that could not be repaired "without          *)
(* requiring any type of manual recovery" because the hierarchies have     *)
(* authorization values or EnsureProvisioned failed; the key file is       *)
(* invalid, or its key was unsealed and could not be used; or a PIN is     *)
(* set.                                                                    *)
(***************************************************************************)
RecoveryReasonIsTrue ==
  /\ reason = "TPMLockout" => failures = MaxFailures
  /\ reason = "TPMProvisioningError" => fault \/ ~ nullAuth
  /\ reason = "InvalidKeyFile" => keyFile \in {"corrupt", "unsatisfied"} \/ unsealed
  /\ reason = "PassphraseFail" => pinSet

(***************************************************************************)
(* Every call returns: both loops use up their tries.                      *)
(***************************************************************************)
CallsReturn == pc # "idle" ~> pc = "idle"

(***************************************************************************)
(* The PassphraseTries attempts are made "to obtain the correct passphrase *)
(* before failing": once the key was unsealed, wrong PINs are no reason to *)
(* fall back to the recovery key.                                          *)
(***************************************************************************)
CorrectPINSuffices == unsealed => reason # "PassphraseFail"
=============================================================================
