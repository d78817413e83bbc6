---------------------------- MODULE Provisioning ----------------------------
(***************************************************************************)
(* Connecting to the TPM (tpm.go), provisioning it (provisioning.go), and  *)
(* the two callers that depend on the storage root key it leaves behind:   *)
(* SealKeyToTPMMultiple, which seals to it (seal.go), and                  *)
(* unsealKeyFromTPM, which provisions again when it is gone (crypt.go).    *)
(*                                                                         *)
(* A call is a sequence of TPM commands.  Any command may fail, the        *)
(* machine may crash between two of them, and between two calls the        *)
(* platform or another owner of the TPM may change what they have set up.  *)
(*                                                                         *)
(* An object at a persistent handle is known by what it is: "none", the    *)
(* primary key that the template makes of the hierarchy's seed ("srk" or   *)
(* "ek"), an object with the same public area up to its unique field       *)
(* ("alike"), or an unrelated one ("other").                               *)
(***************************************************************************)

VARIABLES
  genuine,          \* whether the TPM is the one the EK certificate was issued for
  ek, srk,          \* the objects at the persistent handles
  disableClear,     \* owner clear is disabled
  lockoutAuthSet,   \* the lockout hierarchy has an authorization value
  daParams,         \* the dictionary attack parameters are as required
  lockedOut,        \* a wrong value was used for the lockout hierarchy
  conn,             \* the connection: "closed", "open" or "secure"
  session,          \* TPMConnection.hmacSession, by the key its salt is protected with
  connEk,           \* TPMConnection.ek
  provisionedSrk,   \* TPMConnection.provisionedSrk
  pc,               \* the next command of the running call
  op,               \* the running call, or the last one
  mode, newAuth,    \* the arguments of EnsureProvisioned
  knows,            \* the hierarchies whose authorization value was provided
  fault,            \* history: a command of the call failed
  result,           \* what the last call returned
  sealed,           \* the parents of the keys sealed since the TPM was cleared
  refreshable       \* history: fully provisioned, and left alone since

lockout == <<disableClear, lockoutAuthSet, daParams, lockedOut>>
tpm == <<genuine, ek, srk, lockout>>
connection == <<conn, session, connEk, provisionedSrk>>
args == <<op, mode, newAuth, knows>>
call == <<pc, args, fault, result>>
vars == <<tpm, connection, call, sealed, refreshable>>

Hierarchies == {"owner", "endorsement", "lockout"}
Modes == {"ModeWithoutLockout", "ModeFull", "ModeClear"}
Objects(key) == {"none", "other", "alike", key}
Errors == {"ClearRequiresPPI", "AuthFail", "TPMLockout", "RequiresLockout", "Verification",
           "TPMProvisioning", "InvalidKeyFile", "EKCertVerification", "fault", "panic"}

Init ==
  /\ genuine \in BOOLEAN /\ ek \in Objects("ek") /\ srk \in Objects("srk")
  /\ disableClear \in BOOLEAN /\ lockoutAuthSet \in BOOLEAN /\ daParams \in BOOLEAN
  /\ lockedOut = FALSE
  /\ conn = "closed" /\ session = "nil" /\ connEk = "nil" /\ provisionedSrk = "nil"
  /\ pc = "idle" /\ op = "none" /\ mode = "ModeFull" /\ newAuth = "none" /\ knows = {}
  /\ fault = FALSE /\ result = "none"
  /\ sealed = {} /\ refreshable = FALSE

Goto(where) == pc' = where /\ UNCHANGED <<args, fault, result>>

\* The call ends, perhaps because a command failed.
End(r, failed) ==
  /\ pc' = "idle" /\ result' = r /\ fault' = failed
  /\ op' = "none" /\ mode' = "ModeFull" /\ newAuth' = "none" /\ knows' = {}
Return(r) == End(r, FALSE)

\* An error of a call; unsealKeyFromTPM returns its own when it provisions in vain.
Nested == op = "unseal" /\ pc \notin {"unseal", "unsealAgain"}
Error(e) == IF Nested THEN "TPMProvisioning" ELSE e

Disconnected == conn' = "closed" /\ session' = "nil" /\ connEk' = "nil" /\ provisionedSrk' = "nil"
-----------------------------------------------------------------------------
(* tpm.go                                                                  *)

(***************************************************************************)
(* What TPMConnection.init leaves in the connection, by the EK it ends up  *)
(* with.  A transient EK salts the session but is not kept.                *)
(***************************************************************************)
Inited(salt, persistent) == [err |-> "nil", session |-> salt, ek |-> persistent]
NotInited(e) == [err |-> e, session |-> "nil", ek |-> "nil"]

\* Without a certificate, an EK that does not look like one is not used, and an
\* error reading it is ignored.
InitUnverified ==
  {Inited("unsalted", "nil"), NotInited("fault")}
    \cup {Inited(e, e) : e \in {ek} \cap {"ek", "alike"}}

\* Mutant: the persistent EK is only sanity checked.
MutInitVerified(auth) ==
  {NotInited("fault")}
    \cup (IF ek \in {"ek", "alike"} THEN {Inited(ek, ek)}
          ELSE IF auth THEN {Inited("ek", "nil")} ELSE {NotInited("Unavailable")})

(***************************************************************************)
(* With a verified certificate, the EK has to be the certificate's; if the *)
(* persistent one is not, a transient one is created, which takes the      *)
(* endorsement hierarchy's authorization.  When that fails, for whatever   *)
(* reason, the error is the one about the persistent EK.                   *)
(***************************************************************************)
InitVerified(auth) ==
  {NotInited("fault")} \cup
    (IF ek = "ek" /\ genuine THEN {Inited("ek", "ek")}
     ELSE {NotInited(IF ek = "none" THEN "Unavailable" ELSE "Verification")} \cup
            (IF ~ auth THEN {}
             ELSE {IF genuine THEN Inited("ek", "nil") ELSE NotInited("Verification")}))

InitConnection(secure, auth) == IF secure THEN InitVerified(auth) ELSE InitUnverified

\* ConnectToDefaultTPM: no error of init other than a failed command is possible.
ConnectToDefaultTPM ==
  /\ pc = "idle" /\ conn = "closed"
  /\ \E i \in InitConnection(FALSE, FALSE) :
       IF i.err = "nil"
       THEN /\ conn' = "open" /\ session' = i.session /\ connEk' = i.ek
            /\ provisionedSrk' = "nil" /\ result' = "ok"
       ELSE Disconnected /\ result' = "fault"
  /\ UNCHANGED <<tpm, pc, args, fault, sealed, refreshable>>

\* SecureConnectToDefaultTPM, with or without the endorsement authorization.
SecureConnectToDefaultTPM(auth) ==
  /\ pc = "idle" /\ conn = "closed"
  /\ \/ Disconnected /\ result' = "EKCertVerification"   \* verifyEkCertificate
     \/ \E i \in InitConnection(TRUE, auth) :
          IF i.err = "nil"
          THEN /\ conn' = "secure" /\ session' = i.session /\ connEk' = i.ek
               /\ provisionedSrk' = "nil" /\ result' = "ok"
          ELSE /\ Disconnected
               /\ result' = IF i.err = "Unavailable" THEN "TPMProvisioning" ELSE i.err
  /\ UNCHANGED <<tpm, pc, args, fault, sealed, refreshable>>

\* Mutant: the session outlives the connection.
MutClose ==
  /\ pc = "idle" /\ conn # "closed" /\ conn' = "closed"
  /\ UNCHANGED <<tpm, session, connEk, provisionedSrk, call, sealed, refreshable>>

Close ==
  /\ pc = "idle" /\ conn # "closed" /\ Disconnected
  /\ UNCHANGED <<tpm, call, sealed, refreshable>>
-----------------------------------------------------------------------------
(* EnsureProvisioned                                                       *)

(***************************************************************************)
(* The call.  The authorization values are those set on the connection's   *)
(* hierarchy contexts; HmacSession is nil when a previous init failed.     *)
(***************************************************************************)
Begin(o, m, auth, ks, first) ==
  /\ pc = "idle" /\ conn # "closed"
  /\ op' = o /\ mode' = m /\ newAuth' = auth /\ knows' = ks
  /\ pc' = first /\ fault' = FALSE /\ result' = "none"
  /\ UNCHANGED <<tpm, connection, sealed, refreshable>>

EnsureProvisioned(m, auth, ks) == Begin("ensure", m, auth, ks, "properties")

\* session.IncludeAttrs on a nil session.
Panics == Return("panic") /\ Disconnected

\* The permanent attributes are read, and decide if the TPM can be cleared.
Properties ==
  /\ pc = "properties"
  /\ \/ session = "nil" /\ Panics
     \/ /\ session # "nil"
        /\ IF mode # "ModeClear" THEN Goto("evictEK")
           ELSE IF disableClear THEN Return("ClearRequiresPPI")
           ELSE Goto("clear")
        /\ UNCHANGED connection
  /\ UNCHANGED <<tpm, sealed, refreshable>>

\* TPM2_Clear, by the lockout hierarchy or by the platform.
Cleared ==
  /\ ek' = "none" /\ srk' = "none"
  /\ lockoutAuthSet' = FALSE /\ daParams' = FALSE /\ lockedOut' = FALSE
  /\ sealed' = {} /\ refreshable' = FALSE

\* A command with lockout hierarchy authorization that was not given its value.
LockoutRefused ==
  /\ lockedOut \/ "lockout" \notin knows
  /\ Return(IF lockedOut THEN "TPMLockout" ELSE "AuthFail")
  /\ lockedOut' = TRUE
  /\ UNCHANGED <<genuine, ek, srk, disableClear, lockoutAuthSet, daParams, connection, sealed, refreshable>>

\* Clearing resets the authorization values in the TPM and in the contexts.
Clear ==
  /\ pc = "clear"
  /\ \/ LockoutRefused
     \/ /\ ~ lockedOut /\ "lockout" \in knows
        /\ Cleared
        /\ pc' = "evictEK" /\ knows' = Hierarchies
        /\ provisionedSrk' = IF provisionedSrk = "nil" THEN "nil" ELSE "old"
        /\ UNCHANGED <<genuine, disableClear, conn, session, connEk, op, mode, newAuth, fault, result>>

\* provisionPrimaryKey: an object at the handle is evicted, whatever it is ...
EvictEK ==
  /\ pc = "evictEK"
  /\ IF ek = "none" THEN UNCHANGED ek /\ Goto("createEK")
     ELSE IF "owner" \in knows THEN ek' = "none" /\ Goto("createEK")
     ELSE UNCHANGED ek /\ Return(Error("AuthFail"))
  /\ UNCHANGED <<genuine, srk, lockout, connection, sealed, refreshable>>

\* ... and the new key is created and made persistent.
CreateEK ==
  /\ pc = "createEK"
  /\ IF {"endorsement", "owner"} \subseteq knows
     THEN ek' = "ek" /\ Goto("init")
     ELSE UNCHANGED ek /\ Return(Error("AuthFail"))
  /\ UNCHANGED <<genuine, srk, lockout, connection, sealed, refreshable>>

\* The connection is initialized again, for a session salted with the new EK.
Reinit ==
  /\ pc = "init"
  /\ \E i \in InitConnection(conn = "secure", "endorsement" \in knows) :
       /\ session' = i.session /\ connEk' = i.ek /\ provisionedSrk' = "nil"
       /\ IF i.err = "nil" THEN Goto("evictSRK")
          ELSE End(Error(i.err), i.err = "fault")
  /\ UNCHANGED <<tpm, conn, sealed, refreshable>>

\* Mutant: an object that looks like an SRK is used to seal to.
MutEvictSRK ==
  /\ pc = "evictSRK"
  /\ IF op = "seal" /\ srk \in {"alike", "srk"} THEN UNCHANGED srk /\ Goto("sealKey")
     ELSE IF "owner" \in knows THEN srk' = "none" /\ Goto("createSRK")
     ELSE UNCHANGED srk /\ Return(Error("AuthFail"))
  /\ UNCHANGED <<genuine, ek, lockout, connection, sealed, refreshable>>

EvictSRK ==
  /\ pc = "evictSRK"
  /\ IF srk = "none" THEN UNCHANGED srk /\ Goto("createSRK")
     ELSE IF "owner" \in knows THEN srk' = "none" /\ Goto("createSRK")
     ELSE UNCHANGED srk /\ Return(Error("AuthFail"))
  /\ UNCHANGED <<genuine, ek, lockout, connection, sealed, refreshable>>

\* EnsureProvisioned caches the new SRK, SealKeyToTPMMultiple only uses it.
CreateSRK ==
  /\ pc = "createSRK"
  /\ IF "owner" \in knows
     THEN /\ srk' = "srk"
          /\ provisionedSrk' = IF op = "seal" THEN provisionedSrk ELSE "srk"
          /\ Goto(IF op = "seal" THEN "sealKey"
                  ELSE IF mode = "ModeWithoutLockout" THEN "check" ELSE "daParams")
     ELSE UNCHANGED <<srk, provisionedSrk>> /\ Return(Error("AuthFail"))
  /\ UNCHANGED <<genuine, ek, lockout, conn, session, connEk, sealed, refreshable>>

\* EnsureProvisioned returns to its caller, or to unsealKeyFromTPM.
Provisioned(r) == IF op = "unseal" THEN Goto("unsealAgain") ELSE Return(r)

\* Mutant: a lockout hierarchy that is locked out is not good enough.
MutCheckLockout ==
  /\ pc = "check"
  /\ Provisioned(IF lockoutAuthSet /\ disableClear /\ daParams /\ ~ lockedOut
                 THEN "ok" ELSE "RequiresLockout")
  /\ UNCHANGED <<tpm, connection, sealed, refreshable>>

\* ProvisionModeWithoutLockout: is there anything left that needs the lockout hierarchy?
CheckLockout ==
  /\ pc = "check"
  /\ Provisioned(IF lockoutAuthSet /\ disableClear /\ daParams THEN "ok" ELSE "RequiresLockout")
  /\ UNCHANGED <<tpm, connection, sealed, refreshable>>

DictionaryAttackParameters ==
  /\ pc = "daParams"
  /\ \/ LockoutRefused
     \/ /\ ~ lockedOut /\ "lockout" \in knows
        /\ daParams' = TRUE /\ Goto("clearControl")
        /\ UNCHANGED <<genuine, ek, srk, disableClear, lockoutAuthSet, lockedOut, connection, sealed, refreshable>>

ClearControl ==
  /\ pc = "clearControl"
  /\ disableClear' = TRUE /\ Goto("changeAuth")
  /\ UNCHANGED <<genuine, ek, srk, lockoutAuthSet, daParams, lockedOut, connection, sealed, refreshable>>

\* Mutant: an empty authorization value leaves the old one in place.
MutHierarchyChangeAuth ==
  /\ pc = "changeAuth"
  /\ lockoutAuthSet' = (lockoutAuthSet \/ newAuth = "value")
  /\ refreshable' = (newAuth = "value")
  /\ Return("ok")
  /\ UNCHANGED <<genuine, ek, srk, disableClear, daParams, lockedOut, connection, sealed>>

HierarchyChangeAuth ==
  /\ pc = "changeAuth"
  /\ lockoutAuthSet' = (newAuth = "value")
  /\ refreshable' = (newAuth = "value")
  /\ Return("ok")
  /\ UNCHANGED <<genuine, ek, srk, disableClear, daParams, lockedOut, connection, sealed>>
-----------------------------------------------------------------------------
(* The callers                                                             *)

\* SealKeyToTPMMultiple: the SRK this connection provisioned, or a new one.
SealKeyToTPM(ks) ==
  Begin("seal", "ModeFull", "none", ks, IF provisionedSrk # "nil" THEN "sealKey" ELSE "evictSRK")

\* TPM2_Create: the name in the context has to be that of the object at the handle.
SealKey ==
  /\ pc = "sealKey"
  /\ IF session = "nil" THEN Panics /\ UNCHANGED sealed
     ELSE /\ IF provisionedSrk \in {"nil", srk}
             THEN sealed' = sealed \cup {srk} /\ Return("ok")
             ELSE UNCHANGED sealed /\ Return("fault")
          /\ UNCHANGED connection
  /\ UNCHANGED <<tpm, refreshable>>

\* UnsealFromTPM as far as it depends on the SRK, for a key with parent k.
UnsealResult(k) ==
  IF srk = k THEN "ok" ELSE IF srk \in {"srk", "alike"} THEN "InvalidKeyFile" ELSE "TPMProvisioning"

\* unsealKeyFromTPM, for a key that was sealed to the present owner's SRK.
UnsealKeyFromTPM(ks) ==
  /\ "srk" \in sealed
  /\ Begin("unseal", "ModeWithoutLockout", "none", ks, "unseal")

Unseal ==
  /\ pc = "unseal"
  /\ IF srk = "srk" /\ session = "nil" THEN Panics
     ELSE /\ IF UnsealResult("srk") = "TPMProvisioning" THEN Goto("properties")
                                                      ELSE Return(UnsealResult("srk"))
          /\ UNCHANGED connection
  /\ UNCHANGED <<tpm, sealed, refreshable>>

\* Mutant: the error of the first attempt is returned.
MutUnsealAgain ==
  /\ pc = "unsealAgain"
  /\ Return("TPMProvisioning")
  /\ UNCHANGED <<tpm, connection, sealed, refreshable>>

UnsealAgain ==
  /\ pc = "unsealAgain"
  /\ Return(UnsealResult("srk"))
  /\ UNCHANGED <<tpm, connection, sealed, refreshable>>
-----------------------------------------------------------------------------
(* Failures, and what others do to the TPM                                 *)

\* A TPM command fails.
CommandFails ==
  /\ pc \notin {"idle", "init"}
  /\ End(Error("fault"), TRUE)
  /\ UNCHANGED <<tpm, connection, sealed, refreshable>>

\* The process or the machine stops.
Crash ==
  /\ pc # "idle"
  /\ Disconnected
  /\ End("fault", TRUE)
  /\ UNCHANGED <<tpm, sealed, refreshable>>

\* RequestTPMClearUsingPPI and a restart: the platform clears the TPM.
PlatformClears ==
  /\ pc = "idle"
  /\ Disconnected /\ Cleared
  /\ disableClear' = FALSE
  /\ UNCHANGED <<genuine, call>>

\* The owner evicts or replaces the persistent objects.
OwnerChangesObjects ==
  /\ pc = "idle"
  /\ ek' \in Objects("ek") /\ srk' \in Objects("srk")
  /\ UNCHANGED <<genuine, lockout, connection, call, sealed, refreshable>>

\* The lockout hierarchy is used, or its lockout ends.
LockoutChanges ==
  /\ pc = "idle"
  /\ disableClear' \in BOOLEAN /\ lockoutAuthSet' \in BOOLEAN /\ daParams' \in BOOLEAN
  /\ lockedOut' \in BOOLEAN
  /\ refreshable' = FALSE
  /\ UNCHANGED <<genuine, ek, srk, connection, call, sealed>>

Next ==
  \/ ConnectToDefaultTPM \/ Close
  \/ \E auth \in BOOLEAN : SecureConnectToDefaultTPM(auth)
  \/ \E ks \in SUBSET Hierarchies :
       \/ \E m \in Modes, auth \in {"none", "value"} : EnsureProvisioned(m, auth, ks)
       \/ SealKeyToTPM(ks) \/ UnsealKeyFromTPM(ks)
  \/ Properties \/ Clear \/ EvictEK \/ CreateEK \/ Reinit \/ EvictSRK \/ CreateSRK
  \/ CheckLockout \/ DictionaryAttackParameters \/ ClearControl \/ HierarchyChangeAuth
  \/ SealKey \/ Unseal \/ UnsealAgain
  \/ CommandFails \/ Crash \/ PlatformClears \/ OwnerChangesObjects \/ LockoutChanges

Spec == Init /\ [][Next]_vars
-----------------------------------------------------------------------------
(* Properties                                                              *)

\* The type invariant.
TypeOK ==
  /\ genuine \in BOOLEAN /\ ek \in Objects("ek") /\ srk \in Objects("srk")
  /\ disableClear \in BOOLEAN /\ lockoutAuthSet \in BOOLEAN /\ daParams \in BOOLEAN
  /\ lockedOut \in BOOLEAN
  /\ conn \in {"closed", "open", "secure"}
  /\ session \in {"nil", "unsalted", "alike", "ek"} /\ connEk \in {"nil", "alike", "ek"}
  /\ conn = "closed" => pc = "idle" /\ session = "nil" /\ connEk = "nil" /\ provisionedSrk = "nil"
  /\ provisionedSrk \in {"nil", "old", "srk"}
  /\ pc \in {"idle", "properties", "clear", "evictEK", "createEK", "init", "evictSRK", "createSRK",
             "check", "daParams", "clearControl", "changeAuth", "sealKey", "unseal", "unsealAgain"}
  /\ op \in {"none", "ensure", "seal", "unseal"}
  /\ mode \in Modes /\ newAuth \in {"none", "value"} /\ knows \subseteq Hierarchies
  /\ fault \in BOOLEAN /\ result \in Errors \cup {"none", "ok"}
  /\ sealed \subseteq Objects("srk") /\ refreshable \in BOOLEAN

(***************************************************************************)
(* EnsureProvisioned tells the truth.  If it succeeds, both primary keys   *)
(* are those of the templates, the connection refers to the SRK and has a  *)
(* session, owner clear is disabled, the dictionary attack parameters are  *)
(* set, and so is the lockout authorization it was given or, in            *)
(* ProvisionModeWithoutLockout, one set before.  With                      *)
(* ErrTPMProvisioningRequiresLockout it "will complete all operations that *)
(* can be completed without using the lockout hierarchy".                  *)
(***************************************************************************)
EnsureProvisionedHolds ==
  [][op = "ensure" /\ pc # "idle" /\ pc' = "idle" /\ result' \in {"ok", "RequiresLockout"} =>
       /\ ek' = "ek" /\ srk' = "srk" /\ provisionedSrk' = "srk" /\ session' # "nil"
       /\ result' = "ok" => /\ disableClear' /\ daParams'
                            /\ lockoutAuthSet' = (mode = "ModeWithoutLockout" \/ newAuth = "value")]_vars

(***************************************************************************)
(* No key is ever sealed to an object that EnsureProvisioned would not     *)
(* make again: "we know that the primary key we seal to is good and future *)
(* calls to ProvisionTPM won't provision an object that cannot unseal the  *)
(* key we protect" (SealKeyToTPMMultiple).                                 *)
(***************************************************************************)
SealedToTheSRK == sealed \subseteq {"srk"}

(***************************************************************************)
(* On a connection made with SecureConnectToDefaultTPM, the session and    *)
(* EndorsementKey belong to the key the verified certificate was issued    *)
(* for, also after EnsureProvisioned has initialized it again, whatever is *)
(* at the EK's handle.                                                     *)
(***************************************************************************)
SecureConnectionVerified ==
  conn = "secure" => genuine /\ session \in {"nil", "ek"} /\ connEk \in {"nil", "ek"}

(***************************************************************************)
(* Once EnsureProvisioned has fully provisioned the TPM with a lockout     *)
(* authorization, a refresh in ProvisionModeWithoutLockout never asks for  *)
(* the lockout hierarchy again, unless somebody else changed its settings. *)
(***************************************************************************)
RefreshNeedsNoLockout ==
  [][op = "ensure" /\ mode = "ModeWithoutLockout" /\ refreshable =>
       result' # "RequiresLockout"]_vars

(***************************************************************************)
(* unsealKeyFromTPM recovers from an SRK that was evicted or replaced: on  *)
(* a working connection, with the authorization values of the storage and  *)
(* endorsement hierarchies and no TPM failure, a key of the present owner  *)
(* is unsealed, except when the object at the SRK's handle is one that     *)
(* cannot be told from it.                                                 *)
(***************************************************************************)
LostSRKIsRestored ==
  [][op = "unseal" /\ pc # "idle" /\ pc' = "idle" /\ session # "nil" /\ ~ fault'
      /\ {"owner", "endorsement"} \subseteq knows =>
       result' = "ok" \/ (result' = "InvalidKeyFile" /\ srk' = "alike")]_vars
=============================================================================
