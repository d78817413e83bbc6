-------------------------- MODULE ActivationProofs --------------------------
(***************************************************************************)
(* Safety of volume activation, for any number of PIN and recovery key     *)
(* attempts and any limit of the TPM's dictionary attack logic.            *)
(***************************************************************************)
EXTENDS Activation, TLAPS

NumbersOK == tries \in Nat /\ allowed \in Nat /\ rTries \in Nat /\ wrongPins \in Nat

(***************************************************************************)
(* What the running call knows.  In the PIN loop every attempt that was    *)
(* used up and did not unseal the key was a wrong PIN, because any other   *)
(* error ends the loop; after it, a wrong PIN is the last error only when  *)
(* all attempts are used up.  The last error is true of the TPM and of the *)
(* key file (ErrInv).                                                      *)
(***************************************************************************)
ErrInv ==
  /\ err = "TPMLockout" => failures = MaxFailures
  /\ err = "TPMProvisioning" => fault \/ ~ nullAuth
  /\ err = "InvalidKeyFile" => keyFile = "unsatisfied"
  /\ err = "PINFail" => pinSet
  /\ err = "nil" => unsealed
IdleInv == pc = "idle" => reason = "none" /\ allowed = 0
ReadInv == pc = "read" => reason = "none" /\ allowed = 0 /\ wrongPins = 0 /\ ~ unsealed
UnsealInv ==
  pc = "unseal" =>
    /\ reason = "none" /\ wrongPins + tries <= allowed
    /\ authMode = "pin" /\ ~ unsealed => wrongPins + tries = allowed
AttachInv ==
  pc = "attach" =>
    /\ reason = "none" /\ wrongPins <= allowed
    /\ err \in {"nil", "TPMLockout", "TPMProvisioning", "InvalidKeyFile", "PINFail"}
    /\ err = "PINFail" /\ authMode = "pin" /\ ~ unsealed => wrongPins = allowed
    /\ ErrInv
RecoverInv == pc = "recover" => reason \in Reasons

IInv ==
  /\ TypeOK /\ NumbersOK /\ unsealed \in BOOLEAN /\ fault \in BOOLEAN
  /\ authMode = "pin" => pinSet
  /\ pc # "idle" => via = "none"
  /\ IdleInv /\ ReadInv /\ UnsealInv /\ AttachInv /\ RecoverInv
  /\ TrueIffActive /\ AllTriesBeforePassphraseFail /\ RecoveryReasonIsTrue

USE DEF IInv, TypeOK, NumbersOK, IdleInv, ReadInv, UnsealInv, AttachInv, RecoverInv,
        ErrInv, TrueIffActive, AllTriesBeforePassphraseFail, RecoveryReasonIsTrue,
        KeyFiles, Errors, Reasons

LEMMA InitEstablishes == Init => IInv
<1> SUFFICES ASSUME Init PROVE IInv
  OBVIOUS
<1>1. ~ unsealed /\ unsealed \in BOOLEAN /\ fault \in BOOLEAN
  BY Zenon DEF Init
<1> QED BY <1>1, ActivationAssumption DEF Init

LEMMA ActivateWithTPMStep ==
  ASSUME IInv, NEW n \in 0 .. MaxPassphraseTries, NEW m \in 0 .. MaxRecoveryKeyTries,
         ActivateVolumeWithTPMSealedKey(n, m)
  PROVE  IInv'
<1>1. ~ unsealed' /\ unsealed' \in BOOLEAN /\ fault' \in BOOLEAN
  BY Zenon DEF ActivateVolumeWithTPMSealedKey
<1> QED BY <1>1, ActivationAssumption DEF ActivateVolumeWithTPMSealedKey, device

LEMMA ActivateWithRecoveryKeyStep ==
  ASSUME IInv, NEW m \in 0 .. MaxRecoveryKeyTries, ActivateVolumeWithRecoveryKey(m)
  PROVE  IInv'
<1>1. ~ unsealed' /\ unsealed' \in BOOLEAN /\ fault' \in BOOLEAN
  BY Zenon DEF ActivateVolumeWithRecoveryKey
<1> QED BY <1>1, ActivationAssumption DEF ActivateVolumeWithRecoveryKey, device

\* activateWithTPMKey up to its loop.
LEMMA ReadKeyStep == ASSUME IInv, ReadKey PROVE IInv'
  BY ActivationAssumption DEF ReadKey, FallBack, ReasonFor, device, history

\* What UnsealFromTPM returns is true of the TPM and of the key file.
LEMMA UnsealResultIsTrue ==
  ASSUME NEW pin, NEW hasSrk \in BOOLEAN
  PROVE  /\ UnsealResult(pin, hasSrk) \in
              {"nil", "TPMLockout", "TPMProvisioning", "InvalidKeyFile", "PINFail"}
         /\ UnsealResult(pin, hasSrk) = "TPMLockout" <=> failures = MaxFailures
         /\ UnsealResult(pin, hasSrk) = "TPMProvisioning" => ~ hasSrk
         /\ UnsealResult(pin, hasSrk) = "InvalidKeyFile" => keyFile = "unsatisfied"
         /\ UnsealResult(pin, hasSrk) = "PINFail" => pin = "wrong"
  BY DEF UnsealResult

\* A wrong PIN can be given only if one is set.
LEMMA WrongPIN == ASSUME IInv, NEW pin \in PINs, pin = "wrong" PROVE pinSet
  BY DEF PINs

\* What unsealKeyFromTPM may return, and what it does to the TPM.
LEMMA UnsealOutcome ==
  ASSUME IInv, NEW pin \in PINs, UnsealKeyFromTPM(pin), UNCHANGED device
  PROVE  /\ err' \in {"nil", "TPMLockout", "TPMProvisioning", "InvalidKeyFile", "PINFail"}
         /\ ErrInv'
         /\ srk' \in BOOLEAN /\ fault' \in BOOLEAN /\ failures' \in 0 .. MaxFailures
         /\ unsealed' \in BOOLEAN /\ (unsealed' <=> unsealed \/ err' = "nil")
         /\ wrongPins' = IF err' = "PINFail" THEN wrongPins + 1 ELSE wrongPins
<1> DEFINE Results == {"nil", "TPMLockout", "TPMProvisioning", "InvalidKeyFile", "PINFail"}
<1>1. /\ err' \in Results
      /\ err' = "TPMLockout" <=> failures = MaxFailures
      /\ err' = "TPMProvisioning" => fault' \/ ~ nullAuth
      /\ err' = "InvalidKeyFile" => keyFile = "unsatisfied"
      /\ err' = "PINFail" => pin = "wrong"
      /\ srk' \in BOOLEAN /\ fault' \in BOOLEAN
  <2> HIDE DEF IInv, TypeOK, NumbersOK, UnsealInv, AttachInv, ErrInv
  <2>1. srk \in BOOLEAN /\ nullAuth \in BOOLEAN /\ fault \in BOOLEAN
    BY DEF IInv, TypeOK
  <2>2. CASE UnsealResult(pin, srk) # "TPMProvisioning"
    BY <2>1, <2>2, UnsealResultIsTrue DEF UnsealKeyFromTPM
  <2>3. CASE UnsealResult(pin, srk) = "TPMProvisioning"
    <3>1. PICK ok \in BOOLEAN :
            EnsureProvisioned(ok) /\ err' = IF ok THEN UnsealResult(pin, TRUE) ELSE "TPMProvisioning"
      BY <2>3 DEF UnsealKeyFromTPM, Retried
    <3>2. srk' \in BOOLEAN /\ fault' \in BOOLEAN /\ (~ ok => fault' \/ ~ nullAuth)
      BY <2>1, <3>1, Zenon DEF EnsureProvisioned
    <3>3. CASE ok
      BY <3>1, <3>2, <3>3, UnsealResultIsTrue
    <3>4. CASE ~ ok
      BY <2>1, <2>3, <3>1, <3>2, <3>4, UnsealResultIsTrue
    <3> QED BY <3>3, <3>4
  <2> QED BY <2>2, <2>3
<1>2. /\ unsealed' \in BOOLEAN /\ (unsealed' <=> unsealed \/ err' = "nil")
      /\ wrongPins' = IF err' = "PINFail" THEN wrongPins + 1 ELSE wrongPins
      /\ failures' = IF err' = "PINFail" THEN failures + 1 ELSE failures
  BY DEF UnsealKeyFromTPM
<1>3. failures' \in 0 .. MaxFailures
  BY <1>1, <1>2, ActivationAssumption
<1>4. err' = "PINFail" => pinSet
  BY <1>1, WrongPIN
<1>5. UNCHANGED <<keyFile, nullAuth, pinSet>>
  BY DEF device
<1>6. ErrInv'
  BY <1>1, <1>2, <1>4, <1>5 DEF ErrInv
<1> QED BY <1>1, <1>2, <1>3, <1>6

\* One attempt of the loop.
LEMMA UnsealAttemptStep == ASSUME IInv, UnsealAttempt PROVE IInv'
<1>1. CASE /\ FallBack("other") /\ srk' \in {srk, srk \/ nullAuth}
           /\ UNCHANGED <<failures, history>>
  <2>1. srk' \in BOOLEAN
    BY <1>1
  <2>2. UNCHANGED <<failures, history, device, via, keyring>> /\ FallBack("other") /\ pc = "unseal"
    BY <1>1 DEF UnsealAttempt
  <2> QED
    BY <2>1, <2>2, ActivationAssumption DEF FallBack, ReasonFor, device, history
<1>2. ASSUME NEW pin \in PINs, UnsealKeyFromTPM(pin), tries' = tries - 1,
             pc' = IF LoopEnds(err', tries') THEN "attach" ELSE "unseal",
             UNCHANGED <<allowed, rTries, reason, result>>
      PROVE  IInv'
  <2>1. pc = "unseal" /\ UNCHANGED <<device, via, keyring>>
    BY DEF UnsealAttempt
  <2>2. /\ err' \in {"nil", "TPMLockout", "TPMProvisioning", "InvalidKeyFile", "PINFail"}
        /\ ErrInv'
        /\ srk' \in BOOLEAN /\ fault' \in BOOLEAN /\ failures' \in 0 .. MaxFailures
        /\ unsealed' \in BOOLEAN /\ (unsealed' <=> unsealed \/ err' = "nil")
        /\ wrongPins' = IF err' = "PINFail" THEN wrongPins + 1 ELSE wrongPins
    BY <1>2, <2>1, UnsealOutcome
  <2>3. UNCHANGED <<keyFile, authMode, pinSet, nullAuth, via, keyring>>
    BY <2>1 DEF device
  <2>4. TypeOK' /\ NumbersOK'
    BY <1>2, <2>1, <2>2, <2>3, ActivationAssumption DEF LoopEnds
  <2>5. UnsealInv'
    BY <1>2, <2>1, <2>2, <2>3 DEF LoopEnds
  <2>6. AttachInv'
    BY <1>2, <2>1, <2>2, <2>3 DEF LoopEnds
  <2>7. AllTriesBeforePassphraseFail'
    BY <1>2, <2>1, <2>2, <2>3 DEF LoopEnds
  <2>8. pc' \in {"unseal", "attach"} /\ reason' = "none" /\ via' = "none"
        /\ (authMode' = "pin" => pinSet')
    BY <1>2, <2>1, <2>3
  <2>9. IdleInv' /\ ReadInv' /\ RecoverInv' /\ TrueIffActive' /\ RecoveryReasonIsTrue'
    BY <2>8
  <2> HIDE DEF TypeOK, NumbersOK, IdleInv, ReadInv, UnsealInv, AttachInv, RecoverInv,
               TrueIffActive, AllTriesBeforePassphraseFail, RecoveryReasonIsTrue
  <2> QED BY <2>2, <2>4, <2>5, <2>6, <2>7, <2>8, <2>9
<1> QED BY <1>1, <1>2 DEF UnsealAttempt

\* activate with the unsealed key, or the fallback for the error of the loop.
LEMMA AttachStep == ASSUME IInv, Attach PROVE IInv'
  BY ActivationAssumption DEF Attach, FallBack, ReasonFor, AddKey, Return, device, history

LEMMA RecoveryAttemptStep == ASSUME IInv, RecoveryAttempt PROVE IInv'
<1>1. CASE RecoverySuccess
  <2>1. /\ pc = "recover" /\ pc' = "idle" /\ result' = "true" /\ via' = reason
        /\ tries' = 0 /\ allowed' = 0 /\ rTries' = 0 /\ err' = "nil" /\ reason' = "none"
        /\ UNCHANGED <<keyFile, authMode, pinSet, nullAuth, srk, failures, unsealed, wrongPins, fault>>
    BY <1>1, Zenon DEF RecoveryAttempt, RecoverySuccess, Return, device, history
  <2>2. reason \in Reasons
    BY <2>1
  <2>3. keyring' \subseteq Reasons \cup {"tpm"}
    BY <1>1, <2>2, Zenon DEF RecoverySuccess, AddKey
  <2>4. TypeOK' /\ NumbersOK'
    BY <2>1, <2>2, <2>3, ActivationAssumption
  <2> QED BY <2>1, <2>2, <2>4
<1>2. CASE Return("false") /\ UNCHANGED <<via, keyring>>
  BY <1>2, ActivationAssumption DEF RecoveryAttempt, Return, device, history
<1>3. ASSUME NEW e \in {"other", "exec"}, tries > 0, tries # 1, tries' = tries - 1, err' = e,
             UNCHANGED <<pc, allowed, rTries, reason, result, via, keyring>>
      PROVE  IInv'
  BY <1>3, ActivationAssumption DEF RecoveryAttempt, device, history
<1> QED BY <1>1, <1>2, <1>3 DEF RecoveryAttempt, RecoveryRetry

LEMMA BetweenCallsStep ==
  ASSUME IInv, CloseVolume \/ GetActivationDataFromKernel \/ DeviceChanges PROVE IInv'
<1>1. CASE CloseVolume
  BY <1>1, ActivationAssumption DEF CloseVolume, device, history
<1>2. CASE GetActivationDataFromKernel
  BY <1>2, ActivationAssumption DEF GetActivationDataFromKernel, progress, device, history
<1>3. CASE DeviceChanges
  BY <1>3, ActivationAssumption DEF DeviceChanges, progress, history
<1> QED BY <1>1, <1>2, <1>3

LEMMA NextPreserves == IInv /\ [Next]_vars => IInv'
<1> SUFFICES ASSUME IInv, [Next]_vars PROVE IInv'
  OBVIOUS
<1>1. CASE UNCHANGED vars
  BY <1>1 DEF vars, device, progress, history
<1>2. CASE Next
  <2> HIDE DEF IInv
  <2> QED
    BY <1>2, ActivateWithTPMStep, ActivateWithRecoveryKeyStep, ReadKeyStep, UnsealAttemptStep,
       AttachStep, RecoveryAttemptStep, BetweenCallsStep DEF Next, Steps
<1> QED BY <1>1, <1>2

LEMMA Invariance == Spec => []IInv
<1> HIDE DEF IInv
<1> QED BY InitEstablishes, NextPreserves, PTL DEF Spec

(***************************************************************************)
(* A call of ActivateVolumeWithTPMSealedKey or                             *)
(* ActivateVolumeWithRecoveryKey returns true exactly if the volume is     *)
(* active afterwards.                                                      *)
(***************************************************************************)
THEOREM ResultsAreTruthful == Spec => []TrueIffActive
<1>1. IInv => TrueIffActive
  OBVIOUS
<1> HIDE DEF IInv, TrueIffActive
<1> QED BY <1>1, Invariance, PTL

(***************************************************************************)
(* The loop of activateWithTPMKey gives up because of wrong PINs only when *)
(* every attempt was made, and uses up no more of the TPM's attempts.      *)
(***************************************************************************)
THEOREM AllPINTriesAreUsed == Spec => []AllTriesBeforePassphraseFail
<1>1. IInv => AllTriesBeforePassphraseFail
  OBVIOUS
<1> HIDE DEF IInv, AllTriesBeforePassphraseFail
<1> QED BY <1>1, Invariance, PTL

(***************************************************************************)
(* The reason ActivateVolumeWithTPMSealedKey records for the use of the    *)
(* recovery key is true of the TPM and of the key file; in particular a    *)
(* missing SRK is the reason only if it could not be made again.           *)
(***************************************************************************)
THEOREM ReasonsAreTruthful == Spec => []RecoveryReasonIsTrue
<1>1. IInv => RecoveryReasonIsTrue
  OBVIOUS
<1> HIDE DEF IInv, RecoveryReasonIsTrue
<1> QED BY <1>1, Invariance, PTL

(***************************************************************************)
(* The type invariant of Activation; in particular an attempt to unseal    *)
(* the key is made only while there are attempts left.                     *)
(***************************************************************************)
THEOREM ActivationTypeCorrect == Spec => []TypeOK
<1>1. IInv => TypeOK
  OBVIOUS
<1> HIDE DEF IInv, TypeOK
<1> QED BY <1>1, Invariance, PTL
=============================================================================
