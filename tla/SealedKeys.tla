----------------------------- MODULE SealedKeys -----------------------------
(***************************************************************************)
(* The life of sealed key data files and of the NV counter that revokes    *)
(* their PCR policies: SealKeyToTPMMultiple and                            *)
(* UpdateKeyPCRProtectionPolicyMultiple (seal.go), the counter helpers     *)
(* (policy.go), the file writers and checks (keydata.go) and UnsealFromTPM *)
(* (unseal.go), for version 1 key files.                                   *)
(*                                                                         *)
(* One call runs at a time: the TPM character device opened by             *)
(* internal/tcti can be opened by one process only.  A call is a sequence  *)
(* of steps, any of which may fail, and the machine may crash between any  *)
(* two of them.                                                            *)
(***************************************************************************)
EXTENDS Naturals, FiniteSets

CONSTANTS
  Path,           \* paths of key data files
  Handle,         \* NV handles at which PCR policy counters can be created
  NullHandle,     \* tpm2.HandleNull: the key has no PCR policy counter
  AuthKey,        \* keys that sign PCR policies and authorize revocation
  Boot,           \* the PCR values a boot can produce
  Profile,        \* PCR protection profiles, each a set of permitted boots
  MaxCount,       \* bound on the highest count any NV counter reaches
  Absent,         \* there is no file at a path
  Torn,           \* a key data file that was created but not fully written
  Undefined,      \* there is no NV index at a handle
  NoPolicy        \* no call is working on a policy

(***************************************************************************)
(* A signed PCR policy: the key and counter that the static policy binds   *)
(* it to, the count up to which it is valid, the boots it permits.  A key  *)
(* data file holds exactly this, next to the sealed object.                *)
(***************************************************************************)
Policy == [ak : AuthKey, h : Handle \cup {NullHandle}, count : Nat, profile : Profile]

\* An NV index created by createPcrPolicyCounter for the update key ak.
Counter == [ak : AuthKey, written : BOOLEAN, value : Nat]

ASSUME ConstantsAssumption ==
  /\ NullHandle \notin Handle
  /\ Profile \subseteq SUBSET Boot /\ {} \notin Profile
  /\ MaxCount \in Nat
  /\ Absent # Torn /\ {Absent, Torn, NoPolicy} \cap Policy = {}
  /\ Undefined \notin Counter

VARIABLES
  files,      \* what is on disk at each path
  nv,         \* the NV index at each handle
  nvMax,      \* the highest count any NV counter of this TPM ever had
  pc,         \* where the running call is
  keys,       \* the paths the running call was given
  todo,       \* those it still has to process
  pol,        \* the policy it is installing
  last,       \* how the last call ended; "leak" is an error whose cleanup failed too
  issued,     \* history: every revocable policy that was ever signed
  confirmed,  \* history: those whose call ran to completion
  revoked,    \* history: those the counter has gone past
  dropped     \* history: paths whose file was left behind by a revocation

call == <<pc, keys, todo, pol, last>>
history == <<issued, confirmed, revoked, dropped>>
vars == <<files, nv, nvMax, call, history>>

Seals == {"define", "initCounter", "sealPolicy", "sealKeys", "sealIncrement"}
Cleanups == {"initFailed", "removeFiles", "undefine"}
Updates == {"updateKeys", "updateIncrement"}

IsKeyData(p) == files[p] \notin {Absent, Torn}

(***************************************************************************)
(* Two key data files are related when their objects have the same         *)
(* authorization policy, which names the auth key and the counter.         *)
(***************************************************************************)
Related(d, e) == d.ak = e.ak /\ d.h = e.h

(***************************************************************************)
(* The counter that the static policy of d names is present: an initialised*)
(* index at d's handle whose own policy names d's auth key.                *)
(***************************************************************************)
HasCounter(d) ==
  /\ d.h \in Handle
  /\ nv[d.h] # Undefined
  /\ nv[d.h].written
  /\ nv[d.h].ak = d.ak

(***************************************************************************)
(* keyData.validate: the static policy data agrees with the sealed object  *)
(* and with the TPM's persistent resources.                                *)
(***************************************************************************)
Validates(p) == IsKeyData(p) /\ (files[p].h = NullHandle \/ HasCounter(files[p]))

(***************************************************************************)
(* UnsealFromTPM for the key data d when the PCRs hold what boot b         *)
(* measures: the assertions of executePolicySession in their order.        *)
(***************************************************************************)
UnsealFromTPM(d, b) ==
  IF d = Torn THEN "unreadable key file"
  ELSE IF b \notin d.profile THEN "PCR policy not satisfied"
  ELSE IF d.h = NullHandle THEN "ok"
  ELSE IF nv[d.h] = Undefined THEN "no PCR policy counter found"
  ELSE IF ~ nv[d.h].written THEN "NV index is not initialised"
  ELSE IF nv[d.h].value > d.count THEN "the PCR policy has been revoked"
  ELSE IF nv[d.h].ak # d.ak THEN "cannot verify PCR policy signature"
  ELSE "ok"

\* Some boot that its profile permits can unseal the key under policy q.
Usable(q) == \A b \in q.profile : UnsealFromTPM(q, b) = "ok"
-----------------------------------------------------------------------------
Init ==
  /\ files = [p \in Path |-> Absent]
  /\ nv = [h \in Handle |-> Undefined]
  /\ nvMax = 0
  /\ pc = "idle" /\ keys = {} /\ todo = {} /\ pol = NoPolicy /\ last = "none"
  /\ issued = {} /\ confirmed = {} /\ revoked = {} /\ dropped = {}

Return(result) ==
  /\ pc' = "idle" /\ keys' = {} /\ todo' = {} /\ pol' = NoPolicy
  /\ last' = result

Goto(where) == pc' = where /\ UNCHANGED <<keys, todo, pol, last>>

-----------------------------------------------------------------------------
(* SealKeyToTPMMultiple                                                    *)

\* Mutant: a counter is created at tpm2.HandleNull too.
MutSealKeyToTPMMultiple(ks, ak, h, profile) ==
  /\ pc = "idle" /\ ks # {} /\ pc' = "define" /\ keys' = ks /\ todo' = ks
  /\ pol' = [ak |-> ak, h |-> h, count |-> 0, profile |-> profile]
  /\ last' = "none" /\ UNCHANGED <<files, nv, nvMax, history>>

(***************************************************************************)
(* The call, up to the creation of the counter.  The auth key is the       *)
(* caller's or a new one.                                                  *)
(***************************************************************************)
SealKeyToTPMMultiple(ks, ak, h, profile) ==
  /\ pc = "idle" /\ ks # {}
  /\ pc' = IF h = NullHandle THEN "sealPolicy" ELSE "define"
  /\ keys' = ks /\ todo' = ks
  /\ pol' = [ak |-> ak, h |-> h, count |-> 0, profile |-> profile]
  /\ last' = "none"
  /\ UNCHANGED <<files, nv, nvMax, history>>

\* createPcrPolicyCounter: NVDefineSpace, which fails if the handle is in use.
DefineCounter ==
  /\ pc = "define"
  /\ \/ /\ nv[pol.h] = Undefined
        /\ nv' = [nv EXCEPT ![pol.h] = [ak |-> pol.ak, written |-> FALSE, value |-> 0]]
        /\ Goto("initCounter")
     \/ UNCHANGED nv /\ Return("error")
  /\ UNCHANGED <<files, nvMax, history>>

\* Mutant: a counter always starts at 1.
MutInitCounter ==
  /\ pc = "initCounter" /\ nvMax < MaxCount
  /\ nv' = [nv EXCEPT ![pol.h] = [ak |-> pol.ak, written |-> TRUE, value |-> 1]]
  /\ nvMax' = IF nvMax = 0 THEN 1 ELSE nvMax
  /\ Goto("sealPolicy")
  /\ UNCHANGED <<files, history>>

(***************************************************************************)
(* createPcrPolicyCounter: the first increment.  The TPM starts a counter  *)
(* above every count that any of its counters ever had.                    *)
(***************************************************************************)
InitCounter ==
  /\ pc = "initCounter"
  /\ \/ /\ nvMax < MaxCount
        /\ nv' = [nv EXCEPT ![pol.h] = [ak |-> pol.ak, written |-> TRUE, value |-> nvMax + 1]]
        /\ nvMax' = nvMax + 1
        /\ revoked' = revoked \cup {q \in issued : Related(q, pol) /\ q.count < nvMax + 1}
        /\ Goto("sealPolicy")
     \/ UNCHANGED <<nv, nvMax, revoked>> /\ Goto("initFailed")
  /\ UNCHANGED <<files, issued, confirmed, dropped>>

\* Mutant: a new policy outlives the increment that should revoke it.
MutNextCount(h) == IF h = NullHandle THEN 0 ELSE nv[h].value + 2

\* computeSealedKeyDynamicAuthPolicy: the count of a new policy.
NextCount(h) == IF h = NullHandle THEN 0 ELSE nv[h].value + 1

\* The history records the policies that can be revoked.
Revocable(q) == IF q.h = NullHandle THEN {} ELSE {q}

SealPolicy ==
  /\ pc = "sealPolicy"
  /\ \/ /\ pc' = "sealKeys"
        /\ pol' = [pol EXCEPT !.count = NextCount(pol.h)]
        /\ issued' = issued \cup Revocable(pol')
        /\ UNCHANGED <<keys, todo, last>>
     \/ /\ IF pol.h = NullHandle THEN Return("error") ELSE Goto("undefine")
        /\ UNCHANGED issued
  /\ UNCHANGED <<files, nv, nvMax, confirmed, revoked, dropped>>

(***************************************************************************)
(* One iteration of the sealing loop: create the file exclusively, create  *)
(* the sealed object, write.  An existing file or an error ends the loop   *)
(* and starts the deferred cleanup, which goes over all the paths.         *)
(***************************************************************************)
SealKey(p) ==
  /\ pc = "sealKeys" /\ p \in todo
  /\ \/ /\ files[p] = Absent
        /\ files' = [files EXCEPT ![p] = pol]
        /\ dropped' = dropped \ {p}
        /\ todo' = todo \ {p}
        /\ pc' = IF todo' # {} THEN "sealKeys" ELSE "sealIncrement"
        /\ UNCHANGED <<keys, pol, last>>
     \/ /\ files' = IF files[p] = Absent THEN [files EXCEPT ![p] = Torn] ELSE files
        /\ pc' = "removeFiles" /\ todo' = keys
        /\ UNCHANGED <<dropped, keys, pol, last>>
  /\ UNCHANGED <<nv, nvMax, issued, confirmed, revoked>>

\* incrementPcrPolicyCounter for the counter that pol names.
IncrementPcrPolicyCounter ==
  /\ nvMax < MaxCount
  /\ nv' = [nv EXCEPT ![pol.h].value = @ + 1]
  /\ nvMax' = IF nvMax < nv[pol.h].value + 1 THEN nv[pol.h].value + 1 ELSE nvMax
  /\ revoked' = revoked \cup {q \in issued : Related(q, pol) /\ q.count < nv[pol.h].value + 1}

\* Mutant: an increment that fails undefines the counter but keeps the files.
MutSealIncrement ==
  /\ pc = "sealIncrement" /\ pol.h # NullHandle
  /\ Goto("undefine")
  /\ UNCHANGED <<files, nv, nvMax, history>>

\* The end of the call: the counter's increment, if there is one.
SealIncrement ==
  /\ pc = "sealIncrement"
  /\ \/ /\ IF pol.h = NullHandle THEN UNCHANGED <<nv, nvMax, revoked>>
                                 ELSE IncrementPcrPolicyCounter
        /\ confirmed' = confirmed \cup Revocable(pol)
        /\ Return("ok")
     \/ /\ pol.h # NullHandle
        /\ pc' = "removeFiles" /\ todo' = keys
        /\ UNCHANGED <<nv, nvMax, revoked, confirmed, keys, pol, last>>
  /\ UNCHANGED <<files, issued, dropped>>

\* The rest of a call, or its result, once a step of the cleanup has failed.
Leaks(ok, otherwise) == IF ok /\ last # "leak" THEN otherwise ELSE "leak"

(***************************************************************************)
(* The deferred functions of a failed call, last registered first: remove  *)
(* every file, then undefine the counter.  Their errors are ignored.       *)
(***************************************************************************)
RemoveFiles(p) ==
  /\ pc = "removeFiles" /\ p \in todo
  /\ \E ok \in BOOLEAN :
       /\ IF ok THEN files' = [files EXCEPT ![p] = Absent] /\ dropped' = dropped \ {p}
          ELSE UNCHANGED <<files, dropped>>
       /\ IF pol.h = NullHandle /\ todo = {p}
          THEN Return(Leaks(ok, "error"))
          ELSE /\ todo' = todo \ {p} /\ last' = Leaks(ok, last)
               /\ pc' = IF todo' # {} THEN pc ELSE "undefine"
               /\ UNCHANGED <<keys, pol>>
  /\ UNCHANGED <<nv, nvMax, issued, confirmed, revoked>>

\* NVUndefineSpace leaves the files that depend on the index behind.
NVUndefineSpace(h) ==
  /\ nv' = [nv EXCEPT ![h] = Undefined]
  /\ dropped' = dropped \cup {p \in Path : IsKeyData(p) /\ files[p].h = h}

UndefineCounter ==
  /\ pc \in {"undefine", "initFailed"}
  /\ \/ NVUndefineSpace(pol.h) /\ Return(Leaks(TRUE, "error"))
     \/ UNCHANGED <<nv, dropped>> /\ Return("leak")
  /\ UNCHANGED <<files, nvMax, issued, confirmed, revoked>>
-----------------------------------------------------------------------------
(* updateKeyPCRProtectionPolicyCommon                                      *)

\* Mutant: the count of the new policy is not based on the counter.
MutUpdateKeyPCRProtectionPolicy(ks, ak, profile) ==
  /\ pc = "idle" /\ ks # {}
  /\ \A p \in ks : Validates(p) /\ files[p].ak = ak
  /\ \A p, q \in ks : Related(files[p], files[q])
  /\ \E p \in ks : pol' = [files[p] EXCEPT !.count = 1, !.profile = profile]
  /\ issued' = issued \cup Revocable(pol')
  /\ pc' = "updateKeys" /\ keys' = ks /\ todo' = ks /\ last' = "none"
  /\ UNCHANGED <<files, nv, nvMax, confirmed, revoked, dropped>>

(***************************************************************************)
(* The files are read and validated, they have to be related, and the      *)
(* caller's key has to be theirs; otherwise the call returns and nothing   *)
(* changes.  The new policy is valid for the next count.                   *)
(***************************************************************************)
UpdateKeyPCRProtectionPolicy(ks, ak, profile) ==
  /\ pc = "idle" /\ ks # {}
  /\ \A p \in ks : Validates(p)
  /\ \A p, q \in ks : Related(files[p], files[q])
  /\ \A p \in ks : files[p].ak = ak
  /\ \E p \in ks :
       pol' = [files[p] EXCEPT !.count = NextCount(files[p].h), !.profile = profile]
  /\ issued' = issued \cup Revocable(pol')
  /\ pc' = "updateKeys" /\ keys' = ks /\ todo' = ks /\ last' = "none"
  /\ UNCHANGED <<files, nv, nvMax, confirmed, revoked, dropped>>

\* Mutant: old policies are revoked after the first file.
MutUpdateKey(p) ==
  /\ pc = "updateKeys" /\ p \in todo
  /\ files' = [files EXCEPT ![p] = pol]
  /\ dropped' = dropped \ {p}
  /\ todo' = todo \ {p}
  /\ pc' = "updateIncrement"
  /\ UNCHANGED <<keys, pol, last, nv, nvMax, issued, confirmed, revoked>>

\* writeToFileAtomic replaces the file or leaves it alone; an error ends the call.
UpdateKey(p) ==
  /\ pc = "updateKeys" /\ p \in todo
  /\ \/ /\ files' = [files EXCEPT ![p] = pol]
        /\ dropped' = dropped \ {p}
        /\ todo' = todo \ {p}
        /\ pc' = IF todo' # {} THEN "updateKeys" ELSE "updateIncrement"
        /\ UNCHANGED <<keys, pol, last>>
     \/ UNCHANGED <<files, dropped>> /\ Return("error")
  /\ UNCHANGED <<nv, nvMax, issued, confirmed, revoked>>

\* Old policies are revoked once every file has the new one.
UpdateIncrement ==
  /\ pc = "updateIncrement"
  /\ \/ /\ \/ pol.h = NullHandle /\ UNCHANGED <<nv, nvMax, revoked, dropped>>
           \/ /\ pol.h # NullHandle
              /\ IncrementPcrPolicyCounter
              /\ dropped' = dropped \cup {p \in Path \ keys : IsKeyData(p) /\ Related(files[p], pol)}
        /\ confirmed' = confirmed \cup Revocable(pol)
        /\ Return("ok")
     \/ /\ pol.h # NullHandle
        /\ UNCHANGED <<nv, nvMax, revoked, dropped, confirmed>>
        /\ Return("error")
  /\ UNCHANGED <<files, issued>>
-----------------------------------------------------------------------------
(* The environment                                                         *)

(***************************************************************************)
(* The process or the machine stops: no deferred function runs.  A file    *)
(* that SealKey was writing is torn.                                       *)
(***************************************************************************)
Crash ==
  /\ pc # "idle"
  /\ \/ UNCHANGED files
     \/ /\ pc = "sealKeys"
        /\ \E p \in todo : files[p] = Absent /\ files' = [files EXCEPT ![p] = Torn]
  /\ Return("crash")
  /\ UNCHANGED <<nv, nvMax, history>>

\* The caller deletes a key data file.
DeleteFile(p) ==
  /\ pc = "idle" /\ files[p] # Absent
  /\ files' = [files EXCEPT ![p] = Absent]
  /\ dropped' = dropped \ {p}
  /\ UNCHANGED <<nv, nvMax, call, issued, confirmed, revoked>>

\* The caller undefines a counter, in order to use the handle again.
CallerUndefinesCounter(h) ==
  /\ pc = "idle" /\ nv[h] # Undefined
  /\ NVUndefineSpace(h)
  /\ UNCHANGED <<files, nvMax, call, issued, confirmed, revoked>>

Next ==
  \/ \E ks \in SUBSET Path, ak \in AuthKey, profile \in Profile :
       \/ \E h \in Handle \cup {NullHandle} : SealKeyToTPMMultiple(ks, ak, h, profile)
       \/ UpdateKeyPCRProtectionPolicy(ks, ak, profile)
  \/ DefineCounter
  \/ InitCounter
  \/ SealPolicy
  \/ SealIncrement
  \/ UndefineCounter
  \/ UpdateIncrement
  \/ Crash
  \/ \E p \in Path : SealKey(p) \/ RemoveFiles(p) \/ UpdateKey(p) \/ DeleteFile(p)
  \/ \E h \in Handle : CallerUndefinesCounter(h)

Spec == Init /\ [][Next]_vars
-----------------------------------------------------------------------------
(* Properties                                                              *)

\* The type invariant; only a call that was given a handle works on a counter.
TypeOK ==
  /\ files \in [Path -> Policy \cup {Absent, Torn}]
  /\ nv \in [Handle -> Counter \cup {Undefined}]
  /\ nvMax \in Nat
  /\ pc \in {"idle"} \cup Seals \cup Cleanups \cup Updates
  /\ keys \subseteq Path /\ todo \subseteq keys
  /\ pol \in Policy \cup {NoPolicy}
  /\ pc # "idle" => pol \in Policy
  /\ pc \in {"define", "initCounter", "initFailed", "undefine"} => pol.h \in Handle
  /\ last \in {"none", "ok", "error", "leak", "crash"}
  /\ issued \subseteq Policy /\ confirmed \subseteq issued /\ revoked \subseteq issued
  /\ dropped \subseteq Path

(***************************************************************************)
(* A key is never locked out by an update of its own: at every step of     *)
(* every call, after every failure and every crash, each complete key file *)
(* can be unsealed in a boot its profile permits, unless it was left out   *)
(* of the files that a completed update was given or its counter was       *)
(* undefined (the order of the writes and of the increment in              *)
(* updateKeyPCRProtectionPolicyCommon and SealKeyToTPMMultiple).           *)
(***************************************************************************)
NeverLockedOut == \A p \in Path \ dropped : IsKeyData(p) => Usable(files[p])

(***************************************************************************)
(* Of the policies whose seal or update call completed, at most one per    *)
(* auth key and counter can unseal anything: completing a call revokes its *)
(* predecessors, also when the counter was undefined and created again at  *)
(* the same handle with the same key.                                      *)
(***************************************************************************)
OneConfirmedPolicy ==
  \A q, r \in confirmed :
    Related(q, r) /\ Usable(q) /\ Usable(r) => q = r

(***************************************************************************)
(* A policy that the counter has gone past never unseals anything again,   *)
(* whatever happens to the counter (createPcrPolicyCounter relies on the   *)
(* TPM for the value of a counter that is created again).                  *)
(***************************************************************************)
RevokedForever == \A q \in revoked : ~ Usable(q)

(***************************************************************************)
(* A seal call that returns an error after it began to create files leaves *)
(* none of its files and not its counter: "If any part of this function    *)
(* fails, no sealed keys will be created" (SealKeyToTPMMultiple's defers), *)
(* unless a command of the cleanup fails as well, which is ignored.        *)
(***************************************************************************)
FailedSealLeavesNothing ==
  [][pc' # pc /\ pc \in Cleanups /\ last' \notin {"crash", "leak"} =>
      (/\ pc = "removeFiles" => \A p \in keys : files'[p] = Absent
       /\ pc' = "idle" /\ pol.h # NullHandle => nv'[pol.h] = Undefined
       /\ \A p \in keys : files'[p] # pol)]_vars

(***************************************************************************)
(* The calls implement Revocation: with all their steps, failures and      *)
(* crashes, and counters that are undefined and created again, signing a   *)
(* policy never brings back a revoked one or one as old as the policy in   *)
(* force, and the increment at the end of a call revokes everything older. *)
(***************************************************************************)
Rev ==
  INSTANCE Revocation WITH
    Policy <- [ak : AuthKey, h : Handle, count : 0 .. MaxCount + 1, profile : Profile],
    live <- issued \ revoked, dead <- revoked, current <- confirmed \ revoked
ImplementsRevocation == Rev!Spec
=============================================================================
