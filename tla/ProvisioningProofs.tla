------------------------ MODULE ProvisioningProofs ------------------------
(***************************************************************************)
(* Proofs about Provisioning.  The inductive invariant says what is in     *)
(* place at every command of a call.                                       *)
(***************************************************************************)
EXTENDS Provisioning, TLAPS

\* The commands that come after both primary keys were provisioned.
AfterSRK == {"check", "daParams", "clearControl", "changeAuth", "unsealAgain"}

\* Where the running call stands.
CallInv ==
  /\ pc \in {"unseal", "unsealAgain"} => op = "unseal"
  /\ pc = "sealKey" => op = "seal"
  /\ op = "seal" => pc \in {"evictSRK", "createSRK", "sealKey"}
  /\ op = "unseal" => mode = "ModeWithoutLockout"
  /\ op = "none" <=> pc = "idle"
  /\ pc # "idle" => result = "none"
  /\ pc \in {"check", "unsealAgain"} => mode = "ModeWithoutLockout"
  /\ pc \in {"clear", "daParams", "clearControl", "changeAuth"} =>
       op = "ensure" /\ mode # "ModeWithoutLockout"
  /\ pc = "init" => ek = "ek"
  /\ pc \in {"evictSRK", "createSRK"} /\ op # "seal" => ek = "ek" /\ session # "nil"
  /\ pc \in {"clear", "evictEK", "createEK"} => op # "seal"
  /\ pc \in AfterSRK =>
       /\ op \in {"ensure", "unseal"} /\ ek = "ek" /\ srk = "srk" /\ provisionedSrk = "srk"
       /\ session # "nil"
  /\ pc \in {"clearControl", "changeAuth"} => daParams
  /\ pc = "changeAuth" => disableClear
  /\ pc = "sealKey" /\ provisionedSrk = "nil" => srk = "srk"

\* TypeOK, in two parts.
Flags ==
  /\ genuine \in BOOLEAN /\ disableClear \in BOOLEAN /\ lockoutAuthSet \in BOOLEAN
  /\ daParams \in BOOLEAN /\ lockedOut \in BOOLEAN /\ fault \in BOOLEAN
  /\ refreshable \in BOOLEAN
Kinds ==
  /\ ek \in Objects("ek") /\ srk \in Objects("srk")
  /\ conn \in {"closed", "open", "secure"}
  /\ session \in {"nil", "unsalted", "alike", "ek"} /\ connEk \in {"nil", "alike", "ek"}
  /\ conn = "closed" => pc = "idle" /\ session = "nil" /\ connEk = "nil" /\ provisionedSrk = "nil"
  /\ provisionedSrk \in {"nil", "old", "srk"} /\ sealed \subseteq Objects("srk")
CallKinds ==
  /\ pc \in {"idle", "properties", "clear", "evictEK", "createEK", "init", "evictSRK", "createSRK",
             "check", "daParams", "clearControl", "changeAuth", "sealKey", "unseal", "unsealAgain"}
  /\ op \in {"none", "ensure", "seal", "unseal"}
  /\ mode \in Modes /\ newAuth \in {"none", "value"} /\ knows \subseteq Hierarchies
  /\ result \in Errors \cup {"none", "ok"}

\* What a full provisioning has set is still set.
RefreshableInv == refreshable => lockoutAuthSet /\ disableClear /\ daParams

IInv == TypeOK /\ SealedToTheSRK /\ SecureConnectionVerified /\ RefreshableInv /\ CallInv
-----------------------------------------------------------------------------
(***************************************************************************)
(* Every step keeps the invariant: one lemma per action.                   *)
(***************************************************************************)
LEMMA ConnectToDefaultTPMStep ==
  ASSUME IInv, ConnectToDefaultTPM
  PROVE  IInv'
<1>1. Flags'
  BY Zenon DEF ConnectToDefaultTPM, InitConnection, InitUnverified, Inited, NotInited, Disconnected,
         IInv, TypeOK, Flags, tpm, lockout, connection, args, call
<1>2. Kinds'
  BY DEF ConnectToDefaultTPM, InitConnection, InitUnverified, Inited, NotInited, Disconnected, IInv,
         TypeOK, Kinds, CallInv, AfterSRK, Objects,
    tpm, lockout, connection, args, call
<1>3. CallKinds'
  BY DEF ConnectToDefaultTPM, InitConnection, InitUnverified, Inited, NotInited, Disconnected, IInv,
         TypeOK, CallKinds, Modes, Hierarchies,
    Errors, tpm, lockout, connection, args, call
<1>4. SealedToTheSRK' /\ SecureConnectionVerified' /\ RefreshableInv'
  BY DEF ConnectToDefaultTPM, InitConnection, InitUnverified, Inited, NotInited, Disconnected, IInv,
         TypeOK, CallInv, AfterSRK, SealedToTheSRK, SecureConnectionVerified,
    RefreshableInv, Objects, tpm, lockout, connection, args, call
<1>5. CallInv'
  BY DEF ConnectToDefaultTPM, InitConnection, InitUnverified, Inited, NotInited, Disconnected, IInv,
         TypeOK, CallInv, AfterSRK, SecureConnectionVerified, Objects, Modes,
    tpm, lockout, connection, args, call
<1> QED BY <1>1, <1>2, <1>3, <1>4, <1>5, Zenon DEF IInv, TypeOK, Flags, Kinds, CallKinds

LEMMA SecureConnectToDefaultTPMStep ==
  ASSUME IInv, NEW auth \in BOOLEAN, SecureConnectToDefaultTPM(auth)
  PROVE  IInv'
<1>1. Flags'
  BY Zenon DEF SecureConnectToDefaultTPM, InitConnection, InitVerified, Inited, NotInited,
         Disconnected, IInv, TypeOK, Flags, tpm, lockout, connection, args, call
<1>2. Kinds'
  BY DEF SecureConnectToDefaultTPM, InitConnection, InitVerified, Inited, NotInited, Disconnected,
         IInv, TypeOK, Kinds, CallInv, AfterSRK, Objects,
    tpm, lockout, connection, args, call
<1>3. CallKinds'
  BY DEF SecureConnectToDefaultTPM, InitConnection, InitVerified, Inited, NotInited, Disconnected,
         IInv, TypeOK, CallKinds, Modes, Hierarchies,
    Errors, tpm, lockout, connection, args, call
<1>4. SealedToTheSRK' /\ SecureConnectionVerified' /\ RefreshableInv'
  BY DEF SecureConnectToDefaultTPM, InitConnection, InitVerified, Inited, NotInited, Disconnected,
         IInv, TypeOK, CallInv, AfterSRK, SealedToTheSRK, SecureConnectionVerified,
    RefreshableInv, Objects, tpm, lockout, connection, args, call
<1>5. CallInv'
  BY DEF SecureConnectToDefaultTPM, InitConnection, InitVerified, Inited, NotInited, Disconnected,
         IInv, TypeOK, CallInv, AfterSRK, SecureConnectionVerified, Objects, Modes,
    tpm, lockout, connection, args, call
<1> QED BY <1>1, <1>2, <1>3, <1>4, <1>5, Zenon DEF IInv, TypeOK, Flags, Kinds, CallKinds

LEMMA CloseStep ==
  ASSUME IInv, Close
  PROVE  IInv'
<1>1. Flags'
  BY Zenon DEF Close, Disconnected, IInv, TypeOK, Flags, tpm, lockout, connection, args, call
<1>2. Kinds'
  BY DEF Close, Disconnected, IInv, TypeOK, Kinds, CallInv, AfterSRK, Objects,
    tpm, lockout, connection, args, call
<1>3. CallKinds'
  BY DEF Close, Disconnected, IInv, TypeOK, CallKinds, Modes, Hierarchies,
    Errors, tpm, lockout, connection, args, call
<1>4. SealedToTheSRK' /\ SecureConnectionVerified' /\ RefreshableInv'
  BY DEF Close, Disconnected, IInv, TypeOK, CallInv, AfterSRK, SealedToTheSRK, SecureConnectionVerified,
    RefreshableInv, Objects, tpm, lockout, connection, args, call
<1>5. CallInv'
  BY DEF Close, Disconnected, IInv, TypeOK, CallInv, AfterSRK, SecureConnectionVerified, Objects, Modes,
    tpm, lockout, connection, args, call
<1> QED BY <1>1, <1>2, <1>3, <1>4, <1>5, Zenon DEF IInv, TypeOK, Flags, Kinds, CallKinds

LEMMA EnsureProvisionedStep ==
  ASSUME IInv, NEW m \in Modes, NEW auth \in {"none", "value"}, NEW ks \in SUBSET Hierarchies, EnsureProvisioned(m, auth, ks)
  PROVE  IInv'
<1>1. Flags'
  BY Zenon DEF EnsureProvisioned, Begin, IInv, TypeOK, Flags, tpm, lockout, connection, args, call
<1>2. Kinds'
  BY DEF EnsureProvisioned, Begin, IInv, TypeOK, Kinds, CallInv, AfterSRK, Objects,
    tpm, lockout, connection, args, call
<1>3. CallKinds'
  BY DEF EnsureProvisioned, Begin, IInv, TypeOK, CallKinds, Modes, Hierarchies,
    Errors, tpm, lockout, connection, args, call
<1>4. SealedToTheSRK' /\ SecureConnectionVerified' /\ RefreshableInv'
  BY DEF EnsureProvisioned, Begin, IInv, TypeOK, CallInv, AfterSRK, SealedToTheSRK, SecureConnectionVerified,
    RefreshableInv, Objects, tpm, lockout, connection, args, call
<1>5. CallInv'
  BY DEF EnsureProvisioned, Begin, IInv, TypeOK, CallInv, AfterSRK, SecureConnectionVerified, Objects, Modes,
    tpm, lockout, connection, args, call
<1> QED BY <1>1, <1>2, <1>3, <1>4, <1>5, Zenon DEF IInv, TypeOK, Flags, Kinds, CallKinds

LEMMA SealKeyToTPMStep ==
  ASSUME IInv, NEW ks \in SUBSET Hierarchies, SealKeyToTPM(ks)
  PROVE  IInv'
<1>1. Flags'
  BY Zenon DEF SealKeyToTPM, Begin, IInv, TypeOK, Flags, tpm, lockout, connection, args, call
<1>2. Kinds'
  BY DEF SealKeyToTPM, Begin, IInv, TypeOK, Kinds, CallInv, AfterSRK, Objects,
    tpm, lockout, connection, args, call
<1>3. CallKinds'
  BY DEF SealKeyToTPM, Begin, IInv, TypeOK, CallKinds, Modes, Hierarchies,
    Errors, tpm, lockout, connection, args, call
<1>4. SealedToTheSRK' /\ SecureConnectionVerified' /\ RefreshableInv'
  BY DEF SealKeyToTPM, Begin, IInv, TypeOK, CallInv, AfterSRK, SealedToTheSRK, SecureConnectionVerified,
    RefreshableInv, Objects, tpm, lockout, connection, args, call
<1>5. CallInv'
  BY DEF SealKeyToTPM, Begin, IInv, TypeOK, CallInv, AfterSRK, SecureConnectionVerified, Objects, Modes,
    tpm, lockout, connection, args, call
<1> QED BY <1>1, <1>2, <1>3, <1>4, <1>5, Zenon DEF IInv, TypeOK, Flags, Kinds, CallKinds

LEMMA UnsealKeyFromTPMStep ==
  ASSUME IInv, NEW ks \in SUBSET Hierarchies, UnsealKeyFromTPM(ks)
  PROVE  IInv'
<1>1. Flags'
  BY Zenon DEF UnsealKeyFromTPM, Begin, IInv, TypeOK, Flags, tpm, lockout, connection, args, call
<1>2. Kinds'
  BY DEF UnsealKeyFromTPM, Begin, IInv, TypeOK, Kinds, CallInv, AfterSRK, Objects,
    tpm, lockout, connection, args, call
<1>3. CallKinds'
  BY DEF UnsealKeyFromTPM, Begin, IInv, TypeOK, CallKinds, Modes, Hierarchies,
    Errors, tpm, lockout, connection, args, call
<1>4. SealedToTheSRK' /\ SecureConnectionVerified' /\ RefreshableInv'
  BY DEF UnsealKeyFromTPM, Begin, IInv, TypeOK, CallInv, AfterSRK, SealedToTheSRK, SecureConnectionVerified,
    RefreshableInv, Objects, tpm, lockout, connection, args, call
<1>5. CallInv'
  BY DEF UnsealKeyFromTPM, Begin, IInv, TypeOK, CallInv, AfterSRK, SecureConnectionVerified, Objects, Modes,
    tpm, lockout, connection, args, call
<1> QED BY <1>1, <1>2, <1>3, <1>4, <1>5, Zenon DEF IInv, TypeOK, Flags, Kinds, CallKinds

LEMMA PropertiesStep ==
  ASSUME IInv, Properties
  PROVE  IInv'
<1>1. Flags'
  BY Zenon DEF Properties, Panics, Goto, Return, End, Disconnected, IInv, TypeOK, Flags, tpm,
         lockout, connection, args, call
<1>2. Kinds'
  BY DEF Properties, Panics, Goto, Return, End, Disconnected, IInv, TypeOK, Kinds, CallInv, AfterSRK, Objects,
    tpm, lockout, connection, args, call
<1>3. CallKinds'
  BY ZenonT(30) DEF Properties, Panics, Goto, Return, End, Disconnected, IInv, TypeOK, CallKinds, Modes, Hierarchies,
    Errors, tpm, lockout, connection, args, call
<1>4. SealedToTheSRK' /\ SecureConnectionVerified' /\ RefreshableInv'
  BY DEF Properties, Panics, Goto, Return, End, Disconnected, IInv, TypeOK, CallInv, AfterSRK,
         SealedToTheSRK, SecureConnectionVerified,
    RefreshableInv, Objects, tpm, lockout, connection, args, call
<1>5. CallInv'
  BY DEF Properties, Panics, Goto, Return, End, Disconnected, IInv, TypeOK, CallInv, AfterSRK,
         SecureConnectionVerified, Objects, Modes,
    tpm, lockout, connection, args, call
<1> QED BY <1>1, <1>2, <1>3, <1>4, <1>5, Zenon DEF IInv, TypeOK, Flags, Kinds, CallKinds

LEMMA ClearStep ==
  ASSUME IInv, Clear
  PROVE  IInv'
<1>1. Flags'
  BY Zenon DEF Clear, LockoutRefused, Cleared, Return, End, IInv, TypeOK, Flags, tpm, lockout,
         connection, args, call
<1>2. Kinds'
  <2>1. CASE LockoutRefused
    BY <2>1 DEF LockoutRefused, Return, End, IInv, TypeOK, Kinds, Objects, connection
  <2>2. CASE ~ LockoutRefused
    BY <2>2 DEF Clear, Cleared, IInv, TypeOK, CallInv, Kinds, Objects, connection, args
  <2> QED BY <2>1, <2>2
<1>3. CallKinds'
  BY DEF Clear, LockoutRefused, Cleared, Return, End, IInv, TypeOK, CallKinds, Modes, Hierarchies,
    Errors, tpm, lockout, connection, args, call
<1>4. SealedToTheSRK' /\ SecureConnectionVerified' /\ RefreshableInv'
  <2>1. CASE LockoutRefused
    BY <2>1, Zenon DEF LockoutRefused, IInv, SealedToTheSRK, SecureConnectionVerified, RefreshableInv,
      connection
  <2>2. CASE ~ LockoutRefused
    BY <2>2 DEF Clear, Cleared, IInv, TypeOK, SealedToTheSRK, SecureConnectionVerified,
      RefreshableInv, connection, args
  <2> QED BY <2>1, <2>2
<1>5. CallInv'
  BY DEF Clear, LockoutRefused, Cleared, Return, End, IInv, TypeOK, CallInv, AfterSRK,
         SecureConnectionVerified, Objects, Modes,
    tpm, lockout, connection, args, call
<1> QED BY <1>1, <1>2, <1>3, <1>4, <1>5, Zenon DEF IInv, TypeOK, Flags, Kinds, CallKinds

LEMMA EvictEKStep ==
  ASSUME IInv, EvictEK
  PROVE  IInv'
<1>1. Flags'
  BY Zenon DEF EvictEK, Goto, Return, End, Error, Nested, IInv, TypeOK, Flags, tpm, lockout,
         connection, args, call
<1>2. Kinds'
  BY DEF EvictEK, Goto, Return, End, Error, Nested, IInv, TypeOK, Kinds, CallInv, AfterSRK, Objects,
    tpm, lockout, connection, args, call
<1>3. CallKinds'
  BY ZenonT(30) DEF EvictEK, Goto, Return, End, Error, Nested, IInv, TypeOK, CallKinds, Modes, Hierarchies,
    Errors, tpm, lockout, connection, args, call
<1>4. SealedToTheSRK' /\ SecureConnectionVerified' /\ RefreshableInv'
  BY DEF EvictEK, Goto, Return, End, Error, Nested, IInv, TypeOK, CallInv, AfterSRK, SealedToTheSRK,
         SecureConnectionVerified,
    RefreshableInv, Objects, tpm, lockout, connection, args, call
<1>5. CallInv'
  BY DEF EvictEK, Goto, Return, End, Error, Nested, IInv, TypeOK, CallInv, AfterSRK,
         SecureConnectionVerified, Objects, Modes,
    tpm, lockout, connection, args, call
<1> QED BY <1>1, <1>2, <1>3, <1>4, <1>5, Zenon DEF IInv, TypeOK, Flags, Kinds, CallKinds

LEMMA CreateEKStep ==
  ASSUME IInv, CreateEK
  PROVE  IInv'
<1>1. Flags'
  BY Zenon DEF CreateEK, Goto, Return, End, Error, Nested, IInv, TypeOK, Flags, tpm, lockout,
         connection, args, call
<1>2. Kinds'
  BY DEF CreateEK, Goto, Return, End, Error, Nested, IInv, TypeOK, Kinds, CallInv, AfterSRK, Objects,
    tpm, lockout, connection, args, call
<1>3. CallKinds'
  BY ZenonT(30) DEF CreateEK, Goto, Return, End, Error, Nested, IInv, TypeOK, CallKinds, Modes, Hierarchies,
    Errors, tpm, lockout, connection, args, call
<1>4. SealedToTheSRK' /\ SecureConnectionVerified' /\ RefreshableInv'
  BY DEF CreateEK, Goto, Return, End, Error, Nested, IInv, TypeOK, CallInv, AfterSRK, SealedToTheSRK,
         SecureConnectionVerified,
    RefreshableInv, Objects, tpm, lockout, connection, args, call
<1>5. CallInv'
  BY DEF CreateEK, Goto, Return, End, Error, Nested, IInv, TypeOK, CallInv, AfterSRK,
         SecureConnectionVerified, Objects, Modes,
    tpm, lockout, connection, args, call
<1> QED BY <1>1, <1>2, <1>3, <1>4, <1>5, Zenon DEF IInv, TypeOK, Flags, Kinds, CallKinds

LEMMA ReinitStep ==
  ASSUME IInv, Reinit
  PROVE  IInv'
<1>1. Flags'
  BY Zenon DEF Reinit, InitConnection, InitUnverified, InitVerified, Inited, NotInited, Goto, End,
         Error, Nested, IInv, TypeOK, Flags, tpm, lockout, connection, args, call
<1>2. Kinds'
  BY DEF Reinit, InitConnection, InitUnverified, InitVerified, Inited, NotInited, Goto, End, Error,
         Nested, IInv, TypeOK, Kinds, CallInv, AfterSRK, Objects,
    tpm, lockout, connection, args, call
<1>3. CallKinds'
  <2>1. PICK i \in InitConnection(conn = "secure", "endorsement" \in knows) :
          IF i.err = "nil" THEN Goto("evictSRK") ELSE End(Error(i.err), i.err = "fault")
    BY DEF Reinit
  <2>2. i.err \in {"nil", "fault", "Verification"}
    BY DEF Reinit, InitConnection, InitUnverified, InitVerified, Inited, NotInited, IInv, CallInv
  <2>3. result' \in Errors \cup {"none", "ok"}
    BY <2>1, <2>2 DEF Goto, End, Error, IInv, TypeOK, Errors
  <2> QED BY <2>1, <2>3 DEF Goto, End, IInv, TypeOK, CallKinds, Modes, args
<1>4. SealedToTheSRK' /\ SecureConnectionVerified' /\ RefreshableInv'
  BY DEF Reinit, InitConnection, InitUnverified, InitVerified, Inited, NotInited, Goto, End, Error,
         Nested, IInv, TypeOK, CallInv, AfterSRK, SealedToTheSRK, SecureConnectionVerified,
    RefreshableInv, Objects, tpm, lockout, connection, args, call
<1>5. CallInv'
  BY DEF Reinit, InitConnection, InitUnverified, InitVerified, Inited, NotInited, Goto, End, Error,
         Nested, IInv, TypeOK, CallInv, AfterSRK, SecureConnectionVerified, Objects, Modes,
    tpm, lockout, connection, args, call
<1> QED BY <1>1, <1>2, <1>3, <1>4, <1>5, Zenon DEF IInv, TypeOK, Flags, Kinds, CallKinds

LEMMA EvictSRKStep ==
  ASSUME IInv, EvictSRK
  PROVE  IInv'
<1>1. Flags'
  BY Zenon DEF EvictSRK, Goto, Return, End, Error, Nested, IInv, TypeOK, Flags, tpm, lockout,
         connection, args, call
<1>2. Kinds'
  BY DEF EvictSRK, Goto, Return, End, Error, Nested, IInv, TypeOK, Kinds, CallInv, AfterSRK, Objects,
    tpm, lockout, connection, args, call
<1>3. CallKinds'
  BY ZenonT(30) DEF EvictSRK, Goto, Return, End, Error, Nested, IInv, TypeOK, CallKinds, Modes, Hierarchies,
    Errors, tpm, lockout, connection, args, call
<1>4. SealedToTheSRK' /\ SecureConnectionVerified' /\ RefreshableInv'
  BY DEF EvictSRK, Goto, Return, End, Error, Nested, IInv, TypeOK, CallInv, AfterSRK, SealedToTheSRK,
         SecureConnectionVerified,
    RefreshableInv, Objects, tpm, lockout, connection, args, call
<1>5. CallInv'
  BY DEF EvictSRK, Goto, Return, End, Error, Nested, IInv, TypeOK, CallInv, AfterSRK,
         SecureConnectionVerified, Objects, Modes,
    tpm, lockout, connection, args, call
<1> QED BY <1>1, <1>2, <1>3, <1>4, <1>5, Zenon DEF IInv, TypeOK, Flags, Kinds, CallKinds

LEMMA CreateSRKStep ==
  ASSUME IInv, CreateSRK
  PROVE  IInv'
<1>1. Flags'
  BY Zenon DEF CreateSRK, Goto, Return, End, Error, Nested, IInv, TypeOK, Flags, tpm, lockout,
         connection, args, call
<1>2. Kinds'
  BY DEF CreateSRK, Goto, Return, End, Error, Nested, IInv, TypeOK, Kinds, CallInv, AfterSRK, Objects,
    tpm, lockout, connection, args, call
<1>3. CallKinds'
  BY ZenonT(30) DEF CreateSRK, Goto, Return, End, Error, Nested, IInv, TypeOK, CallKinds, Modes, Hierarchies,
    Errors, tpm, lockout, connection, args, call
<1>4. SealedToTheSRK' /\ SecureConnectionVerified' /\ RefreshableInv'
  BY DEF CreateSRK, Goto, Return, End, Error, Nested, IInv, TypeOK, CallInv, AfterSRK,
         SealedToTheSRK, SecureConnectionVerified,
    RefreshableInv, Objects, tpm, lockout, connection, args, call
<1>5. CallInv'
  BY DEF CreateSRK, Goto, Return, End, Error, Nested, IInv, TypeOK, CallInv, AfterSRK,
         SecureConnectionVerified, Objects, Modes,
    tpm, lockout, connection, args, call
<1> QED BY <1>1, <1>2, <1>3, <1>4, <1>5, Zenon DEF IInv, TypeOK, Flags, Kinds, CallKinds

LEMMA CheckLockoutStep ==
  ASSUME IInv, CheckLockout
  PROVE  IInv'
<1>1. Flags'
  BY Zenon DEF CheckLockout, Provisioned, Goto, Return, End, IInv, TypeOK, Flags, tpm, lockout,
         connection, args, call
<1>2. Kinds'
  BY DEF CheckLockout, Provisioned, Goto, Return, End, IInv, TypeOK, Kinds, CallInv, AfterSRK, Objects,
    tpm, lockout, connection, args, call
<1>3. CallKinds'
  BY ZenonT(30) DEF CheckLockout, Provisioned, Goto, Return, End, IInv, TypeOK, CallKinds, Modes, Hierarchies,
    Errors, tpm, lockout, connection, args, call
<1>4. SealedToTheSRK' /\ SecureConnectionVerified' /\ RefreshableInv'
  BY DEF CheckLockout, Provisioned, Goto, Return, End, IInv, TypeOK, CallInv, AfterSRK,
         SealedToTheSRK, SecureConnectionVerified,
    RefreshableInv, Objects, tpm, lockout, connection, args, call
<1>5. CallInv'
  BY DEF CheckLockout, Provisioned, Goto, Return, End, IInv, TypeOK, CallInv, AfterSRK,
         SecureConnectionVerified, Objects, Modes,
    tpm, lockout, connection, args, call
<1> QED BY <1>1, <1>2, <1>3, <1>4, <1>5, Zenon DEF IInv, TypeOK, Flags, Kinds, CallKinds

LEMMA DictionaryAttackParametersStep ==
  ASSUME IInv, DictionaryAttackParameters
  PROVE  IInv'
<1>1. Flags'
  BY Zenon DEF DictionaryAttackParameters, LockoutRefused, Goto, Return, End, IInv, TypeOK, Flags,
         tpm, lockout, connection, args, call
<1>2. Kinds'
  BY ZenonT(30) DEF DictionaryAttackParameters, LockoutRefused, Goto, Return, End, IInv, TypeOK, Kinds, CallInv,
         AfterSRK, Objects,
    tpm, lockout, connection, args, call
<1>3. CallKinds'
  BY ZenonT(30) DEF DictionaryAttackParameters, LockoutRefused, Goto, Return, End, IInv, TypeOK, CallKinds,
         Modes, Hierarchies,
    Errors, tpm, lockout, connection, args, call
<1>4. SealedToTheSRK' /\ SecureConnectionVerified' /\ RefreshableInv'
  <2>1. CASE LockoutRefused
    BY <2>1, Zenon DEF LockoutRefused, IInv, SealedToTheSRK, SecureConnectionVerified, RefreshableInv,
      connection
  <2>2. CASE ~ LockoutRefused
    <3>1. /\ daParams' /\ refreshable' = refreshable /\ disableClear' = disableClear
          /\ lockoutAuthSet' = lockoutAuthSet /\ sealed' = sealed /\ genuine' = genuine
          /\ conn' = conn /\ session' = session /\ connEk' = connEk
      BY <2>2, Zenon DEF DictionaryAttackParameters, connection
    <3> QED BY <3>1, Zenon DEF IInv, SealedToTheSRK, SecureConnectionVerified, RefreshableInv
  <2> QED BY <2>1, <2>2
<1>5. CallInv'
  BY DEF DictionaryAttackParameters, LockoutRefused, Goto, Return, End, IInv, TypeOK, CallInv,
         AfterSRK, SecureConnectionVerified, Objects, Modes,
    tpm, lockout, connection, args, call
<1> QED BY <1>1, <1>2, <1>3, <1>4, <1>5, Zenon DEF IInv, TypeOK, Flags, Kinds, CallKinds

LEMMA ClearControlStep ==
  ASSUME IInv, ClearControl
  PROVE  IInv'
<1>1. Flags'
  BY Zenon DEF ClearControl, Goto, IInv, TypeOK, Flags, tpm, lockout, connection, args, call
<1>2. Kinds'
  BY DEF ClearControl, Goto, IInv, TypeOK, Kinds, CallInv, AfterSRK, Objects,
    tpm, lockout, connection, args, call
<1>3. CallKinds'
  BY DEF ClearControl, Goto, IInv, TypeOK, CallKinds, Modes, Hierarchies,
    Errors, tpm, lockout, connection, args, call
<1>4. SealedToTheSRK' /\ SecureConnectionVerified' /\ RefreshableInv'
  BY DEF ClearControl, Goto, IInv, TypeOK, CallInv, AfterSRK, SealedToTheSRK, SecureConnectionVerified,
    RefreshableInv, Objects, tpm, lockout, connection, args, call
<1>5. CallInv'
  BY DEF ClearControl, Goto, IInv, TypeOK, CallInv, AfterSRK, SecureConnectionVerified, Objects, Modes,
    tpm, lockout, connection, args, call
<1> QED BY <1>1, <1>2, <1>3, <1>4, <1>5, Zenon DEF IInv, TypeOK, Flags, Kinds, CallKinds

LEMMA HierarchyChangeAuthStep ==
  ASSUME IInv, HierarchyChangeAuth
  PROVE  IInv'
<1>1. Flags'
  BY Zenon DEF HierarchyChangeAuth, Return, End, IInv, TypeOK, Flags, tpm, lockout, connection, args, call
<1>2. Kinds'
  BY DEF HierarchyChangeAuth, Return, End, IInv, TypeOK, Kinds, CallInv, AfterSRK, Objects,
    tpm, lockout, connection, args, call
<1>3. CallKinds'
  BY DEF HierarchyChangeAuth, Return, End, IInv, TypeOK, CallKinds, Modes, Hierarchies,
    Errors, tpm, lockout, connection, args, call
<1>4. SealedToTheSRK' /\ SecureConnectionVerified' /\ RefreshableInv'
  BY DEF HierarchyChangeAuth, Return, End, IInv, TypeOK, CallInv, AfterSRK, SealedToTheSRK,
         SecureConnectionVerified,
    RefreshableInv, Objects, tpm, lockout, connection, args, call
<1>5. CallInv'
  BY DEF HierarchyChangeAuth, Return, End, IInv, TypeOK, CallInv, AfterSRK, SecureConnectionVerified,
         Objects, Modes,
    tpm, lockout, connection, args, call
<1> QED BY <1>1, <1>2, <1>3, <1>4, <1>5, Zenon DEF IInv, TypeOK, Flags, Kinds, CallKinds

LEMMA SealKeyStep ==
  ASSUME IInv, SealKey
  PROVE  IInv'
<1>1. Flags'
  BY Zenon DEF SealKey, Panics, Return, End, Disconnected, IInv, TypeOK, Flags, tpm, lockout,
         connection, args, call
<1>2. Kinds'
  <2>1. CASE session = "nil"
    BY <2>1, ZenonT(30) DEF SealKey, Panics, Return, End, Disconnected, IInv, TypeOK, Kinds, Objects, tpm
  <2>2. CASE session # "nil"
    <3>1. sealed' \subseteq Objects("srk")
      BY <2>2, ZenonT(30) DEF SealKey, IInv, TypeOK, Objects
    <3> QED BY <2>2, <3>1 DEF SealKey, Return, End, IInv, TypeOK, Kinds, Objects, tpm, connection
  <2> QED BY <2>1, <2>2
<1>3. CallKinds'
  BY DEF SealKey, Panics, Return, End, Disconnected, IInv, TypeOK, CallKinds, Modes, Hierarchies,
    Errors, tpm, lockout, connection, args, call
<1>4. SealedToTheSRK' /\ SecureConnectionVerified' /\ RefreshableInv'
  BY ZenonT(30) DEF SealKey, Panics, Return, End, Disconnected, IInv, TypeOK, CallInv, AfterSRK, SealedToTheSRK,
         SecureConnectionVerified,
    RefreshableInv, Objects, tpm, lockout, connection, args, call
<1>5. CallInv'
  BY DEF SealKey, Panics, Return, End, Disconnected, IInv, TypeOK, CallInv, AfterSRK,
         SecureConnectionVerified, Objects, Modes,
    tpm, lockout, connection, args, call
<1> QED BY <1>1, <1>2, <1>3, <1>4, <1>5, Zenon DEF IInv, TypeOK, Flags, Kinds, CallKinds

LEMMA UnsealStep ==
  ASSUME IInv, Unseal
  PROVE  IInv'
<1>1. Flags'
  BY Zenon DEF Unseal, UnsealResult, Panics, Goto, Return, End, Disconnected, IInv, TypeOK, Flags,
         tpm, lockout, connection, args, call
<1>2. Kinds'
  BY DEF Unseal, UnsealResult, Panics, Goto, Return, End, Disconnected, IInv, TypeOK, Kinds, CallInv,
         AfterSRK, Objects,
    tpm, lockout, connection, args, call
<1>3. CallKinds'
  BY ZenonT(40) DEF Unseal, UnsealResult, Panics, Goto, Return, End, Disconnected, IInv, TypeOK,
         CallKinds, Modes, Hierarchies,
    Errors, tpm, lockout, connection, args, call
<1>4. SealedToTheSRK' /\ SecureConnectionVerified' /\ RefreshableInv'
  BY DEF Unseal, UnsealResult, Panics, Goto, Return, End, Disconnected, IInv, TypeOK, CallInv,
         AfterSRK, SealedToTheSRK, SecureConnectionVerified,
    RefreshableInv, Objects, tpm, lockout, connection, args, call
<1>5. CallInv'
  BY DEF Unseal, UnsealResult, Panics, Goto, Return, End, Disconnected, IInv, TypeOK, CallInv,
         AfterSRK, SecureConnectionVerified, Objects, Modes,
    tpm, lockout, connection, args, call
<1> QED BY <1>1, <1>2, <1>3, <1>4, <1>5, Zenon DEF IInv, TypeOK, Flags, Kinds, CallKinds

LEMMA UnsealAgainStep ==
  ASSUME IInv, UnsealAgain
  PROVE  IInv'
<1>1. Flags'
  BY Zenon DEF UnsealAgain, UnsealResult, Return, End, IInv, TypeOK, Flags, tpm, lockout, connection,
         args, call
<1>2. Kinds'
  BY DEF UnsealAgain, UnsealResult, Return, End, IInv, TypeOK, Kinds, CallInv, AfterSRK, Objects,
    tpm, lockout, connection, args, call
<1>3. CallKinds'
  BY DEF UnsealAgain, UnsealResult, Return, End, IInv, TypeOK, CallKinds, Modes, Hierarchies,
    Errors, tpm, lockout, connection, args, call
<1>4. SealedToTheSRK' /\ SecureConnectionVerified' /\ RefreshableInv'
  BY DEF UnsealAgain, UnsealResult, Return, End, IInv, TypeOK, CallInv, AfterSRK, SealedToTheSRK,
         SecureConnectionVerified,
    RefreshableInv, Objects, tpm, lockout, connection, args, call
<1>5. CallInv'
  BY DEF UnsealAgain, UnsealResult, Return, End, IInv, TypeOK, CallInv, AfterSRK,
         SecureConnectionVerified, Objects, Modes,
    tpm, lockout, connection, args, call
<1> QED BY <1>1, <1>2, <1>3, <1>4, <1>5, Zenon DEF IInv, TypeOK, Flags, Kinds, CallKinds

LEMMA CommandFailsStep ==
  ASSUME IInv, CommandFails
  PROVE  IInv'
<1>1. Flags'
  BY Zenon DEF CommandFails, End, Error, Nested, IInv, TypeOK, Flags, tpm, lockout, connection, args, call
<1>2. Kinds'
  BY DEF CommandFails, End, Error, Nested, IInv, TypeOK, Kinds, CallInv, AfterSRK, Objects,
    tpm, lockout, connection, args, call
<1>3. CallKinds'
  BY DEF CommandFails, End, Error, Nested, IInv, TypeOK, CallKinds, Modes, Hierarchies,
    Errors, tpm, lockout, connection, args, call
<1>4. SealedToTheSRK' /\ SecureConnectionVerified' /\ RefreshableInv'
  BY DEF CommandFails, End, Error, Nested, IInv, TypeOK, CallInv, AfterSRK, SealedToTheSRK,
         SecureConnectionVerified,
    RefreshableInv, Objects, tpm, lockout, connection, args, call
<1>5. CallInv'
  BY DEF CommandFails, End, Error, Nested, IInv, TypeOK, CallInv, AfterSRK, SecureConnectionVerified,
         Objects, Modes,
    tpm, lockout, connection, args, call
<1> QED BY <1>1, <1>2, <1>3, <1>4, <1>5, Zenon DEF IInv, TypeOK, Flags, Kinds, CallKinds

LEMMA CrashStep ==
  ASSUME IInv, Crash
  PROVE  IInv'
<1>1. Flags'
  BY Zenon DEF Crash, End, Disconnected, IInv, TypeOK, Flags, tpm, lockout, connection, args, call
<1>2. Kinds'
  BY DEF Crash, End, Disconnected, IInv, TypeOK, Kinds, CallInv, AfterSRK, Objects,
    tpm, lockout, connection, args, call
<1>3. CallKinds'
  BY DEF Crash, End, Disconnected, IInv, TypeOK, CallKinds, Modes, Hierarchies,
    Errors, tpm, lockout, connection, args, call
<1>4. SealedToTheSRK' /\ SecureConnectionVerified' /\ RefreshableInv'
  BY DEF Crash, End, Disconnected, IInv, TypeOK, CallInv, AfterSRK, SealedToTheSRK, SecureConnectionVerified,
    RefreshableInv, Objects, tpm, lockout, connection, args, call
<1>5. CallInv'
  BY DEF Crash, End, Disconnected, IInv, TypeOK, CallInv, AfterSRK, SecureConnectionVerified, Objects, Modes,
    tpm, lockout, connection, args, call
<1> QED BY <1>1, <1>2, <1>3, <1>4, <1>5, Zenon DEF IInv, TypeOK, Flags, Kinds, CallKinds

LEMMA PlatformClearsStep ==
  ASSUME IInv, PlatformClears
  PROVE  IInv'
<1>1. Flags'
  BY Zenon DEF PlatformClears, Disconnected, Cleared, IInv, TypeOK, Flags, tpm, lockout, connection,
         args, call
<1>2. Kinds'
  BY DEF PlatformClears, Disconnected, Cleared, IInv, TypeOK, Kinds, CallInv, AfterSRK, Objects,
    tpm, lockout, connection, args, call
<1>3. CallKinds'
  BY DEF PlatformClears, Disconnected, Cleared, IInv, TypeOK, CallKinds, Modes, Hierarchies,
    Errors, tpm, lockout, connection, args, call
<1>4. SealedToTheSRK' /\ SecureConnectionVerified' /\ RefreshableInv'
  BY DEF PlatformClears, Disconnected, Cleared, IInv, TypeOK, CallInv, AfterSRK, SealedToTheSRK,
         SecureConnectionVerified,
    RefreshableInv, Objects, tpm, lockout, connection, args, call
<1>5. CallInv'
  BY DEF PlatformClears, Disconnected, Cleared, IInv, TypeOK, CallInv, AfterSRK,
         SecureConnectionVerified, Objects, Modes,
    tpm, lockout, connection, args, call
<1> QED BY <1>1, <1>2, <1>3, <1>4, <1>5, Zenon DEF IInv, TypeOK, Flags, Kinds, CallKinds

LEMMA OwnerChangesObjectsStep ==
  ASSUME IInv, OwnerChangesObjects
  PROVE  IInv'
<1>1. Flags'
  BY Zenon DEF OwnerChangesObjects, IInv, TypeOK, Flags, tpm, lockout, connection, args, call
<1>2. Kinds'
  BY DEF OwnerChangesObjects, IInv, TypeOK, Kinds, CallInv, AfterSRK, Objects,
    tpm, lockout, connection, args, call
<1>3. CallKinds'
  BY DEF OwnerChangesObjects, IInv, TypeOK, CallKinds, Modes, Hierarchies,
    Errors, tpm, lockout, connection, args, call
<1>4. SealedToTheSRK' /\ SecureConnectionVerified' /\ RefreshableInv'
  BY DEF OwnerChangesObjects, IInv, TypeOK, CallInv, AfterSRK, SealedToTheSRK, SecureConnectionVerified,
    RefreshableInv, Objects, tpm, lockout, connection, args, call
<1>5. CallInv'
  BY DEF OwnerChangesObjects, IInv, TypeOK, CallInv, AfterSRK, SecureConnectionVerified, Objects, Modes,
    tpm, lockout, connection, args, call
<1> QED BY <1>1, <1>2, <1>3, <1>4, <1>5, Zenon DEF IInv, TypeOK, Flags, Kinds, CallKinds

LEMMA LockoutChangesStep ==
  ASSUME IInv, LockoutChanges
  PROVE  IInv'
<1>1. Flags'
  BY Zenon DEF LockoutChanges, IInv, TypeOK, Flags, tpm, lockout, connection, args, call
<1>2. Kinds'
  BY DEF LockoutChanges, IInv, TypeOK, Kinds, CallInv, AfterSRK, Objects,
    tpm, lockout, connection, args, call
<1>3. CallKinds'
  BY DEF LockoutChanges, IInv, TypeOK, CallKinds, Modes, Hierarchies,
    Errors, tpm, lockout, connection, args, call
<1>4. SealedToTheSRK' /\ SecureConnectionVerified' /\ RefreshableInv'
  BY DEF LockoutChanges, IInv, TypeOK, CallInv, AfterSRK, SealedToTheSRK, SecureConnectionVerified,
    RefreshableInv, Objects, tpm, lockout, connection, args, call
<1>5. CallInv'
  BY DEF LockoutChanges, IInv, TypeOK, CallInv, AfterSRK, SecureConnectionVerified, Objects, Modes,
    tpm, lockout, connection, args, call
<1> QED BY <1>1, <1>2, <1>3, <1>4, <1>5, Zenon DEF IInv, TypeOK, Flags, Kinds, CallKinds

LEMMA InitEstablishes == Init => IInv
BY ZenonT(30) DEF Init, IInv, TypeOK, SealedToTheSRK, SecureConnectionVerified, RefreshableInv, CallInv,
  AfterSRK, Objects, Modes, Hierarchies, Errors

LEMMA NextPreserves == IInv /\ [Next]_vars => IInv'
<1> SUFFICES ASSUME IInv, [Next]_vars
             PROVE  IInv'
  OBVIOUS
<1>1. CASE UNCHANGED vars
  BY <1>1 DEF vars, tpm, lockout, connection, call, args, IInv, TypeOK, SealedToTheSRK,
    SecureConnectionVerified, RefreshableInv, CallInv
<1>2. CASE Next
  BY <1>2, ConnectToDefaultTPMStep, SecureConnectToDefaultTPMStep, CloseStep, EnsureProvisionedStep,
         SealKeyToTPMStep, UnsealKeyFromTPMStep, PropertiesStep, ClearStep, EvictEKStep,
         CreateEKStep, ReinitStep, EvictSRKStep, CreateSRKStep, CheckLockoutStep,
         DictionaryAttackParametersStep, ClearControlStep, HierarchyChangeAuthStep, SealKeyStep,
         UnsealStep, UnsealAgainStep, CommandFailsStep, CrashStep, PlatformClearsStep,
         OwnerChangesObjectsStep, LockoutChangesStep
     DEF Next
<1> QED BY <1>1, <1>2
-----------------------------------------------------------------------------
(***************************************************************************)
(* The results.                                                            *)
(***************************************************************************)

\* Type correctness.
THEOREM ProvisioningTypeCorrect == Spec => []TypeOK
<1>1. IInv => TypeOK
  BY DEF IInv
<1> QED BY <1>1, InitEstablishes, NextPreserves, PTL DEF Spec

\* Whatever fails and whoever changes the TPM between two calls, a key is only
\* ever sealed to the primary key of the SRK template: see SealedToTheSRK.
THEOREM KeysAreSealedToTheSRK == Spec => []SealedToTheSRK
<1>1. IInv => SealedToTheSRK
  BY DEF IInv
<1> QED BY <1>1, InitEstablishes, NextPreserves, PTL DEF Spec

\* The session of a secure connection belongs to the certified EK: see
\* SecureConnectionVerified.
THEOREM SecureConnectionsStayVerified == Spec => []SecureConnectionVerified
<1>1. IInv => SecureConnectionVerified
  BY DEF IInv
<1> QED BY <1>1, InitEstablishes, NextPreserves, PTL DEF Spec

\* EnsureProvisioned reports what it did: see EnsureProvisionedHolds.
THEOREM EnsureProvisionedIsTruthful == Spec => EnsureProvisionedHolds
<1> DEFINE Step ==
      op = "ensure" /\ pc # "idle" /\ pc' = "idle" /\ result' \in {"ok", "RequiresLockout"} =>
        /\ ek' = "ek" /\ srk' = "srk" /\ provisionedSrk' = "srk" /\ session' # "nil"
        /\ result' = "ok" => /\ disableClear' /\ daParams'
                             /\ lockoutAuthSet' = (mode = "ModeWithoutLockout" \/ newAuth = "value")
<1>1. IInv /\ [Next]_vars => [Step]_vars
  <2> SUFFICES ASSUME IInv, Next, op = "ensure", pc # "idle", pc' = "idle",
                      result' \in {"ok", "RequiresLockout"}
               PROVE  Step
    BY DEF vars
  <2>1. CASE CheckLockout
    BY <2>1 DEF CheckLockout, Provisioned, Return, End, IInv, CallInv, AfterSRK, TypeOK, tpm, lockout,
                connection
  <2>2. CASE HierarchyChangeAuth
    BY <2>2 DEF HierarchyChangeAuth, IInv, CallInv, AfterSRK, TypeOK, connection
  <2>3. CASE Reinit
    BY <2>3 DEF Reinit, InitConnection, InitUnverified, InitVerified, Inited, NotInited, Goto, End,
                Error, Nested, IInv, CallInv
  <2>4. CASE Clear \/ DictionaryAttackParameters
    BY <2>4 DEF Clear, DictionaryAttackParameters, LockoutRefused, Return, End, Goto
  <2>5. CASE Properties \/ EvictEK \/ CreateEK \/ EvictSRK \/ CreateSRK
    BY <2>5 DEF Properties, EvictEK, CreateEK, EvictSRK, CreateSRK, Panics, Return, End, Goto, Error
  <2>6. CASE CommandFails \/ Crash
    BY <2>6 DEF CommandFails, Crash, End, Error
  <2>7. CASE SealKey \/ Unseal \/ UnsealAgain
    BY <2>7 DEF SealKey, Unseal, UnsealAgain, IInv, CallInv
  <2> QED BY <2>1, <2>2, <2>3, <2>4, <2>5, <2>6, <2>7, ZenonT(30)
          DEF Next, ConnectToDefaultTPM, Close, SecureConnectToDefaultTPM, EnsureProvisioned,
              SealKeyToTPM, UnsealKeyFromTPM, Begin, ClearControl, Goto, PlatformClears,
              OwnerChangesObjects, LockoutChanges
<1> QED BY <1>1, InitEstablishes, NextPreserves, PTL DEF Spec, EnsureProvisionedHolds

\* A TPM that was fully provisioned is refreshed without the lockout hierarchy:
\* see RefreshNeedsNoLockout.
THEOREM RefreshesNeedNoLockout == Spec => RefreshNeedsNoLockout
<1> DEFINE Step ==
      op = "ensure" /\ mode = "ModeWithoutLockout" /\ refreshable => result' # "RequiresLockout"
<1>1. IInv /\ [Next]_vars => [Step]_vars
  <2> SUFFICES ASSUME IInv, Next, op = "ensure", mode = "ModeWithoutLockout", refreshable
               PROVE  result' # "RequiresLockout"
    BY DEF vars
  <2>1. CASE CheckLockout
    BY <2>1 DEF CheckLockout, Provisioned, Return, End, IInv, RefreshableInv
  <2>2. CASE Reinit
    <3>1. PICK i \in InitConnection(conn = "secure", "endorsement" \in knows) :
            IF i.err = "nil" THEN Goto("evictSRK") ELSE End(Error(i.err), i.err = "fault")
      BY <2>2 DEF Reinit
    <3>2. i.err # "RequiresLockout"
      BY <3>1 DEF InitConnection, InitUnverified, InitVerified, Inited, NotInited
    <3>3. pc # "idle" /\ result # "RequiresLockout"
      BY <2>2 DEF Reinit, IInv, CallInv
    <3> QED BY <3>1, <3>2, <3>3 DEF Goto, End, Error, Nested
  <2>3. CASE Properties \/ EvictEK \/ CreateEK \/ EvictSRK \/ CreateSRK
    BY <2>3, ZenonT(30) DEF Properties, EvictEK, CreateEK, EvictSRK, CreateSRK, Panics, Return, End, Goto, Error,
                IInv, CallInv
  <2>4. CASE CommandFails \/ Crash
    BY <2>4, ZenonT(30) DEF CommandFails, Crash, End, Error
  <2> QED BY <2>1, <2>2, <2>3, <2>4, ZenonT(30)
          DEF Next, IInv, CallInv, AfterSRK, ConnectToDefaultTPM, Close, SecureConnectToDefaultTPM,
              EnsureProvisioned, SealKeyToTPM, UnsealKeyFromTPM, Begin, Clear, ClearControl,
              DictionaryAttackParameters, HierarchyChangeAuth, SealKey, Unseal, UnsealAgain,
              PlatformClears, OwnerChangesObjects, LockoutChanges
<1> QED BY <1>1, InitEstablishes, NextPreserves, PTL DEF Spec, RefreshNeedsNoLockout

\* unsealKeyFromTPM recovers from the loss of the SRK: see LostSRKIsRestored.
THEOREM LostSRKsAreRestored == Spec => LostSRKIsRestored
<1> DEFINE Step ==
      op = "unseal" /\ pc # "idle" /\ pc' = "idle" /\ session # "nil" /\ ~ fault'
       /\ {"owner", "endorsement"} \subseteq knows =>
        result' = "ok" \/ (result' = "InvalidKeyFile" /\ srk' = "alike")
<1>1. IInv /\ [Next]_vars => [Step]_vars
  <2> SUFFICES ASSUME IInv, Next, op = "unseal", pc # "idle", pc' = "idle", session # "nil", ~ fault',
                      "owner" \in knows, "endorsement" \in knows
               PROVE  result' = "ok" \/ (result' = "InvalidKeyFile" /\ srk' = "alike")
    BY DEF vars
  <2>1. CASE Unseal
    BY <2>1 DEF Unseal, UnsealResult, Goto, Return, End, tpm
  <2>2. CASE UnsealAgain
    BY <2>2 DEF UnsealAgain, UnsealResult, Return, End, IInv, CallInv, AfterSRK
  <2>3. CASE Reinit
    <3>1. PICK i \in InitConnection(conn = "secure", "endorsement" \in knows) :
            IF i.err = "nil" THEN Goto("evictSRK") ELSE End(Error(i.err), i.err = "fault")
      BY <2>3 DEF Reinit
    <3>2. i.err \in {"nil", "fault"}
      BY <2>3, <3>1 DEF Reinit, InitConnection, InitUnverified, InitVerified, Inited, NotInited, IInv,
                        CallInv, SecureConnectionVerified
    <3> QED BY <3>1, <3>2, ZenonT(30) DEF Goto, End
  <2>4. CASE Properties \/ EvictEK \/ CreateEK \/ EvictSRK \/ CreateSRK
    BY <2>4 DEF Properties, EvictEK, CreateEK, EvictSRK, CreateSRK, Goto, IInv, CallInv
  <2>5. CASE CheckLockout
    BY <2>5 DEF CheckLockout, Provisioned, Goto
  <2>6. CASE CommandFails \/ Crash
    BY <2>6 DEF CommandFails, Crash, End
  <2> QED BY <2>1, <2>2, <2>3, <2>4, <2>5, <2>6, ZenonT(30)
          DEF Next, IInv, CallInv, ConnectToDefaultTPM, Close, SecureConnectToDefaultTPM,
              EnsureProvisioned, SealKeyToTPM, UnsealKeyFromTPM, Begin, Clear, ClearControl,
              DictionaryAttackParameters, HierarchyChangeAuth, SealKey,
              PlatformClears, OwnerChangesObjects, LockoutChanges
<1> QED BY <1>1, InitEstablishes, NextPreserves, PTL DEF Spec, LostSRKIsRestored
=============================================================================
