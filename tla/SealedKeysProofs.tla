-------------------------- MODULE SealedKeysProofs --------------------------
(***************************************************************************)
(* Proofs about SealedKeys, for any number of paths, handles, auth keys    *)
(* and profiles and for any bound on the counter.                          *)
(***************************************************************************)
EXTENDS SealedKeys, TLAPS

(***************************************************************************)
(* The inductive invariant.  It relates the count in every file and in     *)
(* every signed policy to the counter, and says where the running call     *)
(* stands between writing the files and incrementing the counter.          *)
(***************************************************************************)

\* No counter is ahead of the highest count, which is bounded.
CounterBound == nvMax <= MaxCount /\ \A h \in Handle : nv[h] # Undefined => nv[h].value <= nvMax

\* A file that was not left behind has its counter, which has not passed it.
FilesLive ==
  \A p \in Path \ dropped :
    IsKeyData(p) /\ files[p].h \in Handle =>
      HasCounter(files[p]) /\ nv[files[p].h].value <= files[p].count

\* A count of 0 is never written to a file with a counter.
FilesCounted ==
  \A p \in Path : IsKeyData(p) /\ files[p].h \in Handle => files[p].count > 0

\* The history holds policies that name a counter.
IssuedNameCounter == \A q \in issued : q.h \in Handle

\* The counter has passed the revoked policies and will start beyond them.
RevokedBehind ==
  \A q \in revoked :
    q.count <= nvMax /\ (HasCounter(q) => q.count < nv[q.h].value)

\* The counter has reached the confirmed policies, each with its own count.
ConfirmedReached ==
  /\ \A q \in confirmed :
       q.count <= nvMax /\ (HasCounter(q) => q.count <= nv[q.h].value)
  /\ \A q, r \in confirmed : Related(q, r) /\ q.count = r.count => q = r

\* Where the running call stands.
CallInv ==
  /\ pc \in {"define", "initCounter", "initFailed", "sealPolicy"} => pol.count = 0
  /\ pc \in {"initCounter", "initFailed"} =>
       nv[pol.h] # Undefined /\ nv[pol.h].ak = pol.ak /\ ~ nv[pol.h].written
  /\ pc \in {"sealPolicy", "sealKeys", "sealIncrement", "removeFiles"} \cup Updates =>
       (pol.h \in Handle => HasCounter(pol))
  /\ pc \in {"sealKeys", "sealIncrement"} \cup Updates =>
       (pol.h \in Handle => pol.count = nv[pol.h].value + 1 /\ pol \in issued)
  /\ pc \in {"sealPolicy", "sealKeys", "sealIncrement"} =>
       \A p \in Path \ dropped :
         IsKeyData(p) /\ pol.h \in Handle /\ files[p].h = pol.h =>
           pc # "sealPolicy" /\ files[p] = pol
  /\ pc \in Updates =>
       /\ \A p \in keys : IsKeyData(p) /\ Related(files[p], pol)
       /\ \A p \in keys \ todo : files[p] = pol
  /\ pc = "updateIncrement" => todo = {}

\* What the deferred cleanup has removed, if all of it has succeeded.
CleanupInv ==
  last # "leak" =>
    /\ pc = "removeFiles" => \A p \in keys \ todo : files[p] = Absent
    /\ pc = "undefine" => pol.count = 0 \/ \A p \in keys : files[p] = Absent

IInv ==
  /\ TypeOK /\ CounterBound /\ FilesLive /\ FilesCounted /\ IssuedNameCounter
  /\ RevokedBehind /\ ConfirmedReached /\ CallInv /\ CleanupInv
-----------------------------------------------------------------------------
(***************************************************************************)
(* What UnsealFromTPM comes down to for a policy that names a counter.     *)
(***************************************************************************)
LEMMA UsableIff ==
  ASSUME TypeOK, NEW q \in Policy, q.h \in Handle
  PROVE  Usable(q) <=> HasCounter(q) /\ nv[q.h].value <= q.count
<1>1. q # Torn /\ q.h # NullHandle /\ q.profile # {} /\ q.count \in Nat
  BY ConstantsAssumption, ZenonT(30) DEF Policy
<1>2. nv[q.h] # Undefined => nv[q.h].value \in Nat /\ nv[q.h].written \in BOOLEAN
  BY DEF TypeOK, Counter
<1>3. (HasCounter(q) /\ nv[q.h].value <= q.count)
        <=> \A b \in q.profile : UnsealFromTPM(q, b) = "ok"
  BY <1>1, <1>2 DEF HasCounter, UnsealFromTPM
<1> QED BY <1>3 DEF Usable

LEMMA UsableWithoutCounter ==
  ASSUME NEW q \in Policy, q.h = NullHandle
  PROVE  Usable(q)
BY ConstantsAssumption DEF Usable, UnsealFromTPM, Policy

(***************************************************************************)
(* The invariant implies the properties.                                   *)
(***************************************************************************)
LEMMA IInvImplies ==
  ASSUME IInv
  PROVE  NeverLockedOut /\ OneConfirmedPolicy /\ RevokedForever
<1>1. NeverLockedOut
  <2> SUFFICES ASSUME NEW p \in Path \ dropped, IsKeyData(p)
               PROVE  Usable(files[p])
    BY DEF NeverLockedOut
  <2>1. files[p] \in Policy
    BY DEF IInv, TypeOK, IsKeyData
  <2>2. CASE files[p].h = NullHandle
    BY <2>1, <2>2, UsableWithoutCounter
  <2>3. CASE files[p].h # NullHandle
    <3>1. files[p].h \in Handle
      BY <2>1, <2>3 DEF Policy
    <3> QED BY <2>1, <3>1, UsableIff DEF IInv, FilesLive
  <2> QED BY <2>2, <2>3
<1>2. OneConfirmedPolicy
  <2> SUFFICES ASSUME NEW q \in confirmed, NEW r \in confirmed,
                      Related(q, r), Usable(q), Usable(r)
               PROVE  q = r
    BY DEF OneConfirmedPolicy
  <2>1. q \in Policy /\ r \in Policy /\ q.h \in Handle /\ r.h \in Handle
    BY DEF IInv, TypeOK, IssuedNameCounter
  <2>2. /\ HasCounter(q) /\ nv[q.h].value <= q.count
        /\ HasCounter(r) /\ nv[r.h].value <= r.count
    BY <2>1, UsableIff DEF IInv
  <2>3. q.count <= nv[q.h].value /\ r.count <= nv[r.h].value
    BY <2>2 DEF IInv, ConfirmedReached
  <2>4. q.count \in Nat /\ r.count \in Nat /\ nv[q.h].value \in Nat
    BY <2>1, <2>2 DEF IInv, TypeOK, Policy, Counter, HasCounter
  <2>5. q.count = r.count
    BY <2>2, <2>3, <2>4 DEF Related
  <2> QED BY <2>5 DEF IInv, ConfirmedReached
<1>3. RevokedForever
  <2> SUFFICES ASSUME NEW q \in revoked
               PROVE  ~ Usable(q)
    BY DEF RevokedForever
  <2>1. q \in Policy /\ q.h \in Handle
    BY DEF IInv, TypeOK, IssuedNameCounter
  <2>2. HasCounter(q) => q.count < nv[q.h].value /\ nv[q.h].value \in Nat
    BY <2>1 DEF IInv, RevokedBehind, TypeOK, Counter, HasCounter
  <2> QED BY <2>1, <2>2, UsableIff DEF IInv, Policy
<1> QED BY <1>1, <1>2, <1>3

(***************************************************************************)
(* Every step keeps the invariant: one lemma per action.                   *)
(***************************************************************************)
LEMMA SealKeyToTPMMultipleStep ==
  ASSUME IInv,
         NEW ks \in SUBSET Path, NEW ak \in AuthKey,
         NEW h \in Handle \cup {NullHandle}, NEW profile \in Profile,
         SealKeyToTPMMultiple(ks, ak, h, profile)
  PROVE  IInv'
<1>1. TypeOK'
  BY DEF SealKeyToTPMMultiple, IInv, TypeOK, Policy, Seals, history
<1>2. CounterBound' /\ IssuedNameCounter'
  BY DEF SealKeyToTPMMultiple, IInv, CounterBound, IssuedNameCounter,
    history
<1>3. RevokedBehind' /\ ConfirmedReached'
  BY DEF SealKeyToTPMMultiple, IInv, RevokedBehind, ConfirmedReached,
    HasCounter, history
<1>4. FilesLive' /\ FilesCounted'
  BY DEF SealKeyToTPMMultiple, IInv, FilesLive, FilesCounted, IsKeyData,
    HasCounter, history
<1>5. CallInv' /\ CleanupInv'
  BY ConstantsAssumption DEF SealKeyToTPMMultiple, CallInv, CleanupInv,
    Updates
<1> QED BY <1>1, <1>2, <1>3, <1>4, <1>5 DEF IInv

LEMMA DefineCounterStep ==
  ASSUME IInv, DefineCounter
  PROVE  IInv'
<1> USE DEF IInv
<1>1. pol \in Policy /\ pol.h \in Handle /\ pol.ak \in AuthKey
  BY SMTT(30) DEF DefineCounter, TypeOK, CallInv, Policy
<1>2. CASE UNCHANGED nv /\ Return("error")
  BY <1>2 DEF DefineCounter, Return, TypeOK, CounterBound,
    IssuedNameCounter, RevokedBehind, ConfirmedReached, FilesLive,
    FilesCounted, CallInv, CleanupInv, IsKeyData, HasCounter, Updates,
    history
<1>3. CASE /\ nv[pol.h] = Undefined
           /\ nv' = [nv EXCEPT ![pol.h] = [ak |-> pol.ak, written |-> FALSE, value |-> 0]]
           /\ Goto("initCounter")
  <2>1. /\ nv' \in [Handle -> Counter \cup {Undefined}]
        /\ nv'[pol.h] = [ak |-> pol.ak, written |-> FALSE, value |-> 0]
        /\ nv'[pol.h] # Undefined
        /\ \A h \in Handle \ {pol.h} : nv'[h] = nv[h]
    <3>1. [ak |-> pol.ak, written |-> FALSE, value |-> 0] \in Counter
      BY <1>1 DEF Counter
    <3>2. [ak |-> pol.ak, written |-> FALSE, value |-> 0] # Undefined
      BY <3>1, ConstantsAssumption, ZenonT(30)
    <3> QED BY <1>1, <1>3, <3>1, <3>2 DEF TypeOK
  <2>2. TypeOK'
    BY <1>3, <2>1, SMTT(30) DEF DefineCounter, Goto, TypeOK, Seals, history
  <2>3. CounterBound' /\ IssuedNameCounter'
    BY DEF DefineCounter, TypeOK, CounterBound, IssuedNameCounter, history
  <2>4. \A q \in Policy : HasCounter(q)' <=> HasCounter(q)
    BY <1>3 DEF HasCounter
  <2>5. RevokedBehind' /\ ConfirmedReached'
    BY <2>1, SMTT(30) DEF DefineCounter, RevokedBehind, ConfirmedReached,
      HasCounter, history
  <2>6. FilesLive' /\ FilesCounted'
    BY <2>1, SMTT(30) DEF DefineCounter, FilesLive, FilesCounted, IsKeyData,
      HasCounter, history
  <2>7. CallInv' /\ CleanupInv'
    BY <1>3, <2>1, SMTT(30) DEF DefineCounter, Goto, CallInv, CleanupInv, Updates
  <2> QED BY <2>2, <2>3, <2>5, <2>6, <2>7
<1> QED BY <1>2, <1>3 DEF DefineCounter

LEMMA InitCounterStep ==
  ASSUME IInv, InitCounter
  PROVE  IInv'
<1> USE DEF IInv
<1>1. /\ pol \in Policy /\ pol.h \in Handle /\ nv[pol.h] \in Counter
      /\ nv[pol.h].ak = pol.ak /\ ~ nv[pol.h].written /\ pol.count = 0
  BY SMTT(30) DEF InitCounter, TypeOK, CallInv
<1>2. CASE UNCHANGED <<nv, nvMax, revoked>> /\ Goto("initFailed")
  BY <1>2 DEF InitCounter, Goto, TypeOK, CounterBound, IssuedNameCounter,
    RevokedBehind, ConfirmedReached, FilesLive, FilesCounted, CallInv,
    CleanupInv, IsKeyData, HasCounter, Updates, Cleanups
<1>3. CASE /\ nvMax < MaxCount
           /\ nv' = [nv EXCEPT ![pol.h] = [ak |-> pol.ak, written |-> TRUE, value |-> nvMax + 1]]
           /\ nvMax' = nvMax + 1
           /\ revoked' = revoked \cup {q \in issued : Related(q, pol) /\ q.count < nvMax + 1}
           /\ Goto("sealPolicy")
  <2>1. /\ nv' \in [Handle -> Counter \cup {Undefined}]
        /\ nv'[pol.h] = [ak |-> pol.ak, written |-> TRUE, value |-> nvMax + 1]
        /\ nv'[pol.h] # Undefined
        /\ \A h \in Handle \ {pol.h} : nv'[h] = nv[h]
        /\ nvMax \in Nat
    <3>1. [ak |-> pol.ak, written |-> TRUE, value |-> nvMax + 1] \in Counter
      BY <1>1 DEF TypeOK, Counter
    <3>2. [ak |-> pol.ak, written |-> TRUE, value |-> nvMax + 1] # Undefined
      BY <3>1, ConstantsAssumption, ZenonT(30)
    <3> QED BY <1>1, <1>3, <3>1, <3>2 DEF TypeOK
  <2>2. TypeOK'
    BY <1>3, <2>1, SMTT(30) DEF InitCounter, Goto, TypeOK, Seals
  <2>3. CounterBound' /\ IssuedNameCounter'
    BY <1>3, <2>1, ConstantsAssumption DEF InitCounter, Counter, CounterBound, IssuedNameCounter
  <2>4. \A q \in Policy : q.h # pol.h => (HasCounter(q)' <=> HasCounter(q))
    BY <2>1 DEF HasCounter
  <2>5. \A q \in issued : q.h = pol.h /\ HasCounter(q)' => Related(q, pol)
    BY <2>1 DEF HasCounter, Related
  <2>6. \A q \in revoked \cup confirmed : q \in Policy /\ q \in issued /\ q.count \in Nat
    BY DEF TypeOK, Policy
  <2>7. RevokedBehind'
    BY <1>3, <2>1, <2>4 DEF TypeOK, Policy, RevokedBehind, Related
  <2>8. ConfirmedReached'
    BY <1>3, <2>1, <2>4, <2>6 DEF InitCounter, ConfirmedReached
  <2>9. \A p \in Path \ dropped : IsKeyData(p) => files[p].h # pol.h
    BY <1>1, SMTT(30) DEF FilesLive, HasCounter
  <2>10. FilesLive' /\ FilesCounted'
    BY <2>1, <2>9, SMTT(30) DEF InitCounter, FilesLive, FilesCounted, IsKeyData,
      HasCounter
  <2>11. CallInv' /\ CleanupInv'
    BY <2>1, <2>9 DEF InitCounter, Goto, CallInv, CleanupInv, Updates,
      HasCounter, IsKeyData
  <2> QED BY <2>2, <2>3, <2>7, <2>8, <2>10, <2>11
<1> QED BY <1>2, <1>3 DEF InitCounter

LEMMA UpdateKeyPCRProtectionPolicyStep ==
  ASSUME IInv,
         NEW ks \in SUBSET Path, NEW ak \in AuthKey, NEW profile \in Profile,
         UpdateKeyPCRProtectionPolicy(ks, ak, profile)
  PROVE  IInv'
<1> USE DEF IInv
<1>1. PICK p \in ks :
        pol' = [files[p] EXCEPT !.count = NextCount(files[p].h), !.profile = profile]
  BY Zenon DEF UpdateKeyPCRProtectionPolicy
<1>2. /\ \A q \in ks : files[q] \in Policy /\ IsKeyData(q) /\ Related(files[q], files[p])
      /\ files[p].h \in Handle => HasCounter(files[p])
  BY ConstantsAssumption DEF UpdateKeyPCRProtectionPolicy, Validates,
    IsKeyData, TypeOK
<1>3. NextCount(files[p].h) \in Nat
  BY <1>2 DEF NextCount, HasCounter, TypeOK, Policy, Counter
<1>4. /\ pol' \in Policy /\ pol'.ak = files[p].ak /\ pol'.h = files[p].h
      /\ pol'.count = NextCount(files[p].h)
  BY <1>1, <1>2, <1>3, ZenonT(30) DEF Policy
<1>5. UNCHANGED <<files, nv, nvMax, confirmed, revoked, dropped>>
      /\ last' = "none" /\ pc' = "updateKeys" /\ keys' = ks /\ todo' = ks
  BY DEF UpdateKeyPCRProtectionPolicy
<1>6. issued' = issued \cup Revocable(pol')
  BY DEF UpdateKeyPCRProtectionPolicy
<1>7. TypeOK'
  BY <1>4, <1>5, <1>6 DEF TypeOK, Updates, Revocable
<1>8. IssuedNameCounter'
  BY <1>4, <1>6, SMTT(30) DEF IssuedNameCounter, Revocable, Policy
<1>9. CounterBound' /\ RevokedBehind' /\ ConfirmedReached' /\ FilesLive' /\ FilesCounted'
  BY <1>5, SMTT(30) DEF CounterBound, RevokedBehind, ConfirmedReached, FilesLive,
    FilesCounted, HasCounter, IsKeyData
<1>10. CallInv'
  <2>1. (pol.h \in Handle => HasCounter(pol) /\ pol.count = nv[pol.h].value + 1 /\ pol \in issued)'
    BY <1>2, <1>4, <1>5, <1>6, ConstantsAssumption DEF HasCounter,
      NextCount, Revocable
  <2> QED BY <1>2, <1>4, <1>5, <2>1, SMTT(30) DEF CallInv, Updates, Related, IsKeyData
<1>11. CleanupInv'
  BY <1>5 DEF CleanupInv
<1> QED BY <1>7, <1>8, <1>9, <1>10, <1>11

LEMMA SealPolicyStep ==
  ASSUME IInv, SealPolicy
  PROVE  IInv'
<1>1. TypeOK'
  BY DEF SealPolicy, Goto, Return, NextCount, Revocable, IInv, TypeOK,
    CallInv, HasCounter, Policy, Counter, Seals, Cleanups
<1>2. CounterBound' /\ IssuedNameCounter'
  BY DEF SealPolicy, Revocable, IInv, CounterBound, IssuedNameCounter,
    TypeOK, Policy
<1>3. RevokedBehind' /\ ConfirmedReached'
  BY DEF SealPolicy, IInv, RevokedBehind, ConfirmedReached, HasCounter
<1>4. FilesLive' /\ FilesCounted'
  BY DEF SealPolicy, IInv, FilesLive, FilesCounted, IsKeyData, HasCounter
<1>5. CallInv' /\ CleanupInv'
  BY ConstantsAssumption DEF SealPolicy, Goto, Return, NextCount, Revocable,
    IInv, CallInv, CleanupInv, IsKeyData, HasCounter, TypeOK, Updates,
    Policy
<1> QED BY <1>1, <1>2, <1>3, <1>4, <1>5 DEF IInv

LEMMA SealKeyStep ==
  ASSUME IInv, NEW p \in Path, SealKey(p)
  PROVE  IInv'
<1>1. TypeOK'
  BY DEF SealKey, IInv, TypeOK, Seals, Cleanups
<1>2. CounterBound' /\ IssuedNameCounter'
  BY DEF SealKey, IInv, CounterBound, IssuedNameCounter
<1>3. RevokedBehind' /\ ConfirmedReached'
  BY SMTT(30) DEF SealKey, IInv, RevokedBehind, ConfirmedReached, HasCounter
<1>4. FilesLive' /\ FilesCounted'
  BY SMTT(30) DEF SealKey, IInv, FilesLive, FilesCounted, IsKeyData, HasCounter,
    TypeOK, CallInv, Counter
<1>5. CallInv' /\ CleanupInv'
  BY DEF SealKey, IInv, CallInv, CleanupInv, IsKeyData, HasCounter, TypeOK,
    Updates
<1> QED BY <1>1, <1>2, <1>3, <1>4, <1>5 DEF IInv

LEMMA SealIncrementStep ==
  ASSUME IInv, SealIncrement
  PROVE  IInv'
<1>1. TypeOK'
  BY DEF SealIncrement, Return, Revocable, IncrementPcrPolicyCounter, IInv,
    TypeOK, CallInv, HasCounter, Policy, Counter, Cleanups
<1>2. CounterBound' /\ IssuedNameCounter'
  BY ConstantsAssumption DEF SealIncrement, IncrementPcrPolicyCounter, IInv, CounterBound,
    IssuedNameCounter, TypeOK, CallInv, HasCounter, Policy, Counter
<1>3. RevokedBehind' /\ ConfirmedReached'
  BY DEF SealIncrement, Revocable, IncrementPcrPolicyCounter, IInv,
    RevokedBehind, ConfirmedReached, TypeOK, CallInv, HasCounter, Related,
    Policy, Counter
<1>4. FilesLive' /\ FilesCounted'
  BY ConstantsAssumption, SMTT(30) DEF SealIncrement, IncrementPcrPolicyCounter, IInv,
    FilesLive, FilesCounted, IsKeyData, HasCounter, TypeOK, CallInv, Counter
<1>5. CallInv' /\ CleanupInv'
  BY DEF SealIncrement, Return, IInv, CallInv, CleanupInv, HasCounter,
    Updates
<1> QED BY <1>1, <1>2, <1>3, <1>4, <1>5 DEF IInv

LEMMA RemoveFilesStep ==
  ASSUME IInv, NEW p \in Path, RemoveFiles(p)
  PROVE  IInv'
<1>1. TypeOK'
  BY DEF RemoveFiles, Leaks, Return, IInv, TypeOK, Cleanups, Policy
<1>2. CounterBound' /\ IssuedNameCounter'
  BY DEF RemoveFiles, Leaks, Return, IInv, CounterBound, IssuedNameCounter
<1>3. RevokedBehind' /\ ConfirmedReached'
  BY DEF RemoveFiles, Leaks, Return, IInv, RevokedBehind, ConfirmedReached, HasCounter
<1>4. FilesLive' /\ FilesCounted'
  BY SMTT(30) DEF RemoveFiles, Leaks, Return, IInv, FilesLive, FilesCounted, IsKeyData, HasCounter,
    TypeOK
<1>5. CallInv'
  BY DEF RemoveFiles, Leaks, Return, IInv, CallInv, HasCounter, TypeOK, Updates, Policy
<1>6. CleanupInv'
  BY DEF RemoveFiles, Leaks, Return, IInv, CleanupInv, TypeOK
<1> QED BY <1>1, <1>2, <1>3, <1>4, <1>5, <1>6 DEF IInv

LEMMA UndefineCounterStep ==
  ASSUME IInv, UndefineCounter
  PROVE  IInv'
<1>1. TypeOK'
  BY DEF UndefineCounter, Leaks, Return, NVUndefineSpace, IInv, TypeOK
<1>2. CounterBound' /\ IssuedNameCounter'
  BY ZenonT(30) DEF UndefineCounter, NVUndefineSpace, IInv, CounterBound,
    IssuedNameCounter, TypeOK
<1>3. RevokedBehind' /\ ConfirmedReached'
  BY ZenonT(30) DEF UndefineCounter, NVUndefineSpace, IInv, RevokedBehind,
    ConfirmedReached, TypeOK, HasCounter
<1>4. FilesLive' /\ FilesCounted'
  BY ZenonT(40) DEF UndefineCounter, NVUndefineSpace, IInv, FilesLive, FilesCounted,
    IsKeyData, HasCounter, TypeOK
<1>5. CallInv' /\ CleanupInv'
  BY DEF UndefineCounter, Leaks, Return, CallInv, CleanupInv, Updates
<1> QED BY <1>1, <1>2, <1>3, <1>4, <1>5 DEF IInv

LEMMA UpdateKeyStep ==
  ASSUME IInv, NEW p \in Path, UpdateKey(p)
  PROVE  IInv'
<1>1. TypeOK'
  BY SMTT(30) DEF UpdateKey, Return, IInv, TypeOK, Updates
<1>2. CounterBound' /\ IssuedNameCounter'
  BY DEF UpdateKey, IInv, CounterBound, IssuedNameCounter
<1>3. RevokedBehind' /\ ConfirmedReached'
  BY SMTT(30) DEF UpdateKey, IInv, RevokedBehind, ConfirmedReached, HasCounter
<1>4. FilesLive' /\ FilesCounted'
  BY SMTT(30) DEF UpdateKey, IInv, FilesLive, FilesCounted, IsKeyData, HasCounter,
    TypeOK, CallInv, Updates, Counter
<1>5. CallInv' /\ CleanupInv'
  BY ConstantsAssumption DEF UpdateKey, Return, IInv, CallInv, CleanupInv,
    IsKeyData, HasCounter, Related, TypeOK, Updates
<1> QED BY <1>1, <1>2, <1>3, <1>4, <1>5 DEF IInv

LEMMA UpdateIncrementStep ==
  ASSUME IInv, UpdateIncrement
  PROVE  IInv'
<1>1. TypeOK'
  BY DEF UpdateIncrement, Return, Revocable, IncrementPcrPolicyCounter,
    IInv, TypeOK, CallInv, HasCounter, Policy, Counter, Updates
<1>2. CounterBound' /\ IssuedNameCounter'
  BY ConstantsAssumption DEF UpdateIncrement, IncrementPcrPolicyCounter, IInv, CounterBound,
    IssuedNameCounter, TypeOK, CallInv, HasCounter, Updates, Policy, Counter
<1>3. RevokedBehind' /\ ConfirmedReached'
  BY DEF UpdateIncrement, Revocable, IncrementPcrPolicyCounter, IInv,
    RevokedBehind, ConfirmedReached, TypeOK, CallInv, HasCounter, Related,
    Updates, Policy, Counter
<1>4. FilesLive' /\ FilesCounted'
  BY ConstantsAssumption, SMTT(30) DEF UpdateIncrement, IncrementPcrPolicyCounter,
    IInv, FilesLive, FilesCounted, IsKeyData, HasCounter, Related, TypeOK,
    CallInv, Updates, Counter
<1>5. CallInv' /\ CleanupInv'
  BY DEF UpdateIncrement, Return, CallInv, CleanupInv, Updates
<1> QED BY <1>1, <1>2, <1>3, <1>4, <1>5 DEF IInv

LEMMA CrashStep ==
  ASSUME IInv, Crash
  PROVE  IInv'
<1>1. TypeOK'
  BY DEF Crash, Return, IInv, TypeOK, history
<1>2. CounterBound' /\ IssuedNameCounter'
  BY DEF Crash, IInv, CounterBound, IssuedNameCounter, history
<1>3. RevokedBehind' /\ ConfirmedReached'
  BY DEF Crash, IInv, RevokedBehind, ConfirmedReached, HasCounter, history
<1>4. FilesLive' /\ FilesCounted'
  BY DEF Crash, IInv, FilesLive, FilesCounted, IsKeyData, HasCounter,
    TypeOK, history
<1>5. CallInv' /\ CleanupInv'
  BY DEF Crash, Return, CallInv, CleanupInv, Updates
<1> QED BY <1>1, <1>2, <1>3, <1>4, <1>5 DEF IInv

LEMMA DeleteFileStep ==
  ASSUME IInv, NEW p \in Path, DeleteFile(p)
  PROVE  IInv'
<1>1. TypeOK'
  BY DEF DeleteFile, IInv, TypeOK, call
<1>2. CounterBound' /\ IssuedNameCounter'
  BY DEF DeleteFile, IInv, CounterBound, IssuedNameCounter
<1>3. RevokedBehind' /\ ConfirmedReached'
  BY SMTT(30) DEF DeleteFile, IInv, RevokedBehind, ConfirmedReached, HasCounter
<1>4. FilesLive' /\ FilesCounted'
  BY SMTT(30) DEF DeleteFile, IInv, FilesLive, FilesCounted, IsKeyData, HasCounter,
    TypeOK
<1>5. CallInv' /\ CleanupInv'
  BY DEF DeleteFile, CallInv, CleanupInv, Updates, call
<1> QED BY <1>1, <1>2, <1>3, <1>4, <1>5 DEF IInv

LEMMA CallerUndefinesCounterStep ==
  ASSUME IInv, NEW h \in Handle, CallerUndefinesCounter(h)
  PROVE  IInv'
<1>1. TypeOK'
  BY SMTT(30) DEF CallerUndefinesCounter, NVUndefineSpace, IInv, TypeOK, call
<1>2. CounterBound' /\ IssuedNameCounter'
  BY DEF CallerUndefinesCounter, NVUndefineSpace, IInv, CounterBound,
    IssuedNameCounter
<1>3. RevokedBehind' /\ ConfirmedReached'
  BY DEF CallerUndefinesCounter, NVUndefineSpace, IInv, RevokedBehind,
    ConfirmedReached, HasCounter
<1>4. FilesLive' /\ FilesCounted'
  BY DEF CallerUndefinesCounter, NVUndefineSpace, IInv, FilesLive,
    FilesCounted, IsKeyData, HasCounter
<1>5. CallInv' /\ CleanupInv'
  BY SMTT(30) DEF CallerUndefinesCounter, CallInv, CleanupInv, Updates, call
<1> QED BY <1>1, <1>2, <1>3, <1>4, <1>5 DEF IInv

LEMMA InitEstablishes == Init => IInv
BY ConstantsAssumption DEF Init, IInv, TypeOK, CounterBound, IssuedNameCounter, RevokedBehind,
  ConfirmedReached, FilesLive, FilesCounted, CallInv, CleanupInv, IsKeyData,
  Updates

LEMMA NextPreserves == IInv /\ [Next]_vars => IInv'
<1> SUFFICES ASSUME IInv, [Next]_vars
             PROVE  IInv'
  OBVIOUS
<1>1. CASE UNCHANGED vars
  <2> USE <1>1 DEF vars, call, history, IInv
  <2>1. TypeOK' /\ CounterBound' /\ IssuedNameCounter'
    BY DEF TypeOK, CounterBound, IssuedNameCounter
  <2>2. RevokedBehind' /\ ConfirmedReached'
    BY DEF RevokedBehind, ConfirmedReached, HasCounter, Related
  <2>3. FilesLive' /\ FilesCounted'
    BY SMTT(30) DEF FilesLive, FilesCounted, IsKeyData, HasCounter
  <2>4. CallInv'
    BY DEF CallInv, IsKeyData, HasCounter, Related
  <2>5. CleanupInv'
    BY DEF CleanupInv
  <2> QED BY <2>1, <2>2, <2>3, <2>4, <2>5
<1>2. CASE Next
  BY <1>2, SealKeyToTPMMultipleStep, UpdateKeyPCRProtectionPolicyStep,
     DefineCounterStep, InitCounterStep, SealPolicyStep, SealKeyStep,
     SealIncrementStep, RemoveFilesStep, UndefineCounterStep, UpdateKeyStep,
     UpdateIncrementStep, CrashStep, DeleteFileStep, CallerUndefinesCounterStep
     DEF Next
<1> QED BY <1>1, <1>2

(***************************************************************************)
(* Type correctness.                                                       *)
(***************************************************************************)
THEOREM TypeCorrect == Spec => []TypeOK
<1>1. IInv => TypeOK
  BY DEF IInv
<1> QED BY <1>1, InitEstablishes, NextPreserves, PTL DEF Spec

(***************************************************************************)
(* No key file is locked out by the calls it takes part in: see            *)
(* NeverLockedOut.                                                         *)
(***************************************************************************)
THEOREM UpdatesNeverLockOut == Spec => []NeverLockedOut
BY InitEstablishes, NextPreserves, IInvImplies, PTL DEF Spec

(***************************************************************************)
(* A completed seal or update revokes the policies of the completed calls  *)
(* before it: see OneConfirmedPolicy.                                      *)
(***************************************************************************)
THEOREM CompletedCallsRevoke == Spec => []OneConfirmedPolicy
BY InitEstablishes, NextPreserves, IInvImplies, PTL DEF Spec

(***************************************************************************)
(* Revocation is final, also across the life of the counter: see           *)
(* RevokedForever.                                                         *)
(***************************************************************************)
THEOREM RevocationIsFinal == Spec => []RevokedForever
BY InitEstablishes, NextPreserves, IInvImplies, PTL DEF Spec

(***************************************************************************)
(* A failed seal call whose cleanup commands succeed leaves neither files  *)
(* nor a counter: see FailedSealLeavesNothing.                             *)
(***************************************************************************)
THEOREM FailedSealCleansUp == Spec => FailedSealLeavesNothing
<1> DEFINE Step == pc' # pc /\ pc \in Cleanups /\ last' \notin {"crash", "leak"} =>
                     (/\ pc = "removeFiles" => \A p \in keys : files'[p] = Absent
                      /\ pc' = "idle" /\ pol.h # NullHandle => nv'[pol.h] = Undefined
                      /\ \A p \in keys : files'[p] # pol)
<1>1. IInv /\ [Next]_vars => [Step]_vars
  <2> SUFFICES ASSUME IInv, Next, pc' # pc, pc \in Cleanups, last' \notin {"crash", "leak"}
               PROVE  Step
    BY DEF vars
  <2>0. pol \in Policy /\ Absent # pol /\ Torn # pol
    BY ConstantsAssumption DEF IInv, TypeOK, Cleanups
  <2>1. ASSUME NEW p \in Path, RemoveFiles(p)
        PROVE  Step
    BY <2>0, <2>1 DEF RemoveFiles, Leaks, Return, IInv, CleanupInv, TypeOK, Cleanups
  <2>2. CASE UndefineCounter
    <3>1. last # "leak" /\ pc \in {"undefine", "initFailed"}
      BY <2>2, SMTT(30) DEF UndefineCounter, Leaks, Return
    <3>2. pol.h \in Handle /\ (pc = "initFailed" => pol.count = 0)
      BY <3>1 DEF IInv, CallInv, TypeOK
    <3>3. ASSUME NEW p \in keys, files[p] = pol
          PROVE  FALSE
      <4>1. p \in Path /\ IsKeyData(p)
        BY <2>0, <3>3 DEF IInv, TypeOK, IsKeyData
      <4>2. pol.count > 0
        BY <3>2, <3>3, <4>1 DEF IInv, FilesCounted
      <4>3. pol.count # 0
        BY <4>2
      <4>4. pc = "undefine"
        BY <3>1, <3>2, <4>3
      <4> QED BY <2>0, <3>1, <3>3, <4>3, <4>4 DEF IInv, CleanupInv
    <3>4. files' = files /\ nv'[pol.h] = Undefined
      BY <2>2, <3>2, ZenonT(30) DEF UndefineCounter, NVUndefineSpace, Return, IInv, TypeOK
    <3> QED BY <3>1, <3>3, <3>4
  <2>3. CASE Crash
    BY <2>3 DEF Crash, Return
  <2> QED BY <2>1, <2>2, <2>3, ZenonT(30)
          DEF Next, Cleanups, SealKeyToTPMMultiple, UpdateKeyPCRProtectionPolicy,
              DefineCounter, InitCounter, SealPolicy, SealIncrement, UpdateIncrement,
              SealKey, UpdateKey, DeleteFile, CallerUndefinesCounter
<1> QED BY <1>1, InitEstablishes, NextPreserves, PTL DEF Spec, FailedSealLeavesNothing
-----------------------------------------------------------------------------
(***************************************************************************)
(* SealedKeys implements Revocation.  Three kinds of steps matter to it:   *)
(* one that signs a policy, the first increment of a counter, and the      *)
(* increment at the end of a call.                                         *)
(***************************************************************************)
live == issued \ revoked
current == confirmed \ revoked
Signable == [ak : AuthKey, h : Handle, count : 0 .. MaxCount + 1, profile : Profile]

\* A policy that is valid for the next count of its counter can be signed.
LEMMA SignStep ==
  ASSUME IInv, NEW q \in Policy, q.h \in Handle, HasCounter(q), q.count = nv[q.h].value + 1,
         issued' = issued \cup {q}, UNCHANGED <<confirmed, revoked>>
  PROVE  Rev!Next
<1>1. nv[q.h].value \in Nat /\ nv[q.h].value <= MaxCount /\ q.count \in Nat
  BY ConstantsAssumption DEF IInv, TypeOK, Counter, CounterBound, HasCounter
<1>2. q \in Signable
  <2>1. q.count \in 0 .. MaxCount + 1
    <3>1. MaxCount \in Nat
      BY ConstantsAssumption
    <3> QED BY <1>1, <3>1
  <2> QED BY <2>1 DEF Signable, Policy
<1>3. q \notin revoked
  BY <1>1 DEF IInv, RevokedBehind
<1>4. \A r \in current : q.ak = r.ak /\ q.h = r.h => r.count < q.count
  <2> SUFFICES ASSUME NEW r \in confirmed, q.ak = r.ak, q.h = r.h
               PROVE  r.count < q.count
    BY DEF current
  <2>1. HasCounter(r) /\ r.count \in Nat
    BY DEF HasCounter, IInv, TypeOK, Policy
  <2> QED BY <1>1, <2>1 DEF IInv, ConfirmedReached
<1>5. Rev!Sign(q)
  BY <1>3, <1>4 DEF Rev!Sign, Rev!SameKeys, current
<1> QED BY <1>2, <1>5 DEF Rev!Next, Signable

\* The increment at the end of a call puts its policy in force.
LEMMA ConfirmStep ==
  ASSUME IInv, pc \in {"sealIncrement", "updateIncrement"}, pol.h \in Handle,
         IncrementPcrPolicyCounter, confirmed' = confirmed \cup {pol}, UNCHANGED issued
  PROVE  Rev!Next
<1>1. /\ pol \in Policy /\ pol \in issued /\ HasCounter(pol)
      /\ pol.count = nv[pol.h].value + 1
  BY DEF IInv, TypeOK, CallInv, Updates
<1>2. nv[pol.h].value \in Nat /\ nv[pol.h].value <= MaxCount /\ pol.count \in Nat
  BY <1>1, ConstantsAssumption, SMTT(30) DEF IInv, TypeOK, Counter, CounterBound, HasCounter
<1>3. pol \in Signable
  BY <1>1, <1>2, ConstantsAssumption, SMTT(30) DEF Signable, Policy
<1>4. pol \in live
  BY <1>1, <1>2 DEF live, IInv, RevokedBehind
<1> DEFINE Older == {q \in live : q.ak = pol.ak /\ q.h = pol.h /\ q.count < pol.count}
<1>5. revoked' = revoked \cup Older /\ pol \notin revoked'
  BY <1>1, <1>2, <1>4 DEF IncrementPcrPolicyCounter, Related, live, IInv, TypeOK, Policy
<1>6. live' = live \ Older
  BY <1>5 DEF live
<1>7. \A q \in current : q.ak = pol.ak /\ q.h = pol.h <=> q \in Older
  <2> SUFFICES ASSUME NEW q \in current, q.ak = pol.ak, q.h = pol.h
               PROVE  q.count < pol.count
    BY DEF current, live, IInv, TypeOK
  <2>1. q \in confirmed /\ HasCounter(q) /\ q.count \in Nat
    BY <1>1 DEF current, HasCounter, IInv, TypeOK, Policy
  <2> QED BY <1>1, <1>2, <2>1 DEF IInv, ConfirmedReached
<1>8. current' = {q \in current : ~ (q.ak = pol.ak /\ q.h = pol.h)} \cup {pol}
  BY <1>5, <1>7 DEF current
<1>9. Rev!Confirm(pol)
  BY <1>4, <1>5, <1>6, <1>8 DEF Rev!Confirm, Rev!Older, Rev!SameKeys, live, current
<1> QED BY <1>3, <1>9, SMTT(30) DEF Rev!Next, Signable

\* The first increment of a counter revokes what was signed for its predecessors.
LEMMA RevokeStep ==
  ASSUME IInv, InitCounter, nvMax < MaxCount,
         revoked' = revoked \cup {q \in issued : Related(q, pol) /\ q.count < nvMax + 1}
  PROVE  Rev!Next
<1> DEFINE r == [pol EXCEPT !.count = nvMax + 1]
<1>1. r \in Signable /\ r.ak = pol.ak /\ r.h = pol.h /\ r.count = nvMax + 1
  BY ConstantsAssumption DEF InitCounter, IInv, TypeOK, CallInv, Policy, Signable
<1> HIDE DEF r
<1> DEFINE Older == {q \in live : q.ak = r.ak /\ q.h = r.h /\ q.count < r.count}
<1>2. revoked' = revoked \cup Older /\ UNCHANGED <<issued, confirmed>>
  BY <1>1, SMTT(30) DEF InitCounter, Related, live
<1>3. live' = live \ Older /\ current' = current \ Older
  BY <1>2, SMTT(30) DEF live, current, IInv, TypeOK
<1>4. Rev!Revoke(r)
  BY <1>2, <1>3, ZenonT(30) DEF Rev!Revoke, Rev!Older, Rev!SameKeys, live, current
<1> QED BY <1>1, <1>4 DEF Rev!Next, Signable

\* Steps that leave the history of policies alone are no steps of Revocation.
LEMMA OtherStep ==
  ASSUME UNCHANGED <<issued, confirmed, revoked>>
  PROVE  UNCHANGED Rev!vars
BY SMTT(30) DEF Rev!vars

LEMMA StepImplements == IInv /\ [Next]_vars => [Rev!Next]_(Rev!vars)
<1> SUFFICES ASSUME IInv, [Next]_vars
             PROVE  Rev!Next \/ UNCHANGED Rev!vars
  OBVIOUS
<1>1. ASSUME NEW ks \in SUBSET Path, NEW ak \in AuthKey, NEW profile \in Profile,
             UpdateKeyPCRProtectionPolicy(ks, ak, profile)
      PROVE  Rev!Next \/ UNCHANGED Rev!vars
  <2>1. IInv' /\ pc' = "updateKeys" /\ UNCHANGED <<nv, confirmed, revoked>>
    BY <1>1, UpdateKeyPCRProtectionPolicyStep, ZenonT(40) DEF UpdateKeyPCRProtectionPolicy
  <2>2. pol' \in Policy /\ (pol'.h \in Handle => HasCounter(pol)' /\ pol'.count = nv[pol'.h].value + 1)
    BY <2>1, ZenonT(30) DEF IInv, TypeOK, CallInv, Updates
  <2>3. issued' = issued \cup Revocable(pol')
    BY <1>1 DEF UpdateKeyPCRProtectionPolicy
  <2>4. CASE pol'.h = NullHandle
    BY <2>1, <2>3, <2>4, OtherStep, SMTT(30) DEF Revocable
  <2>5. CASE pol'.h # NullHandle
    <3>1. pol'.h \in Handle /\ issued' = issued \cup {pol'}
      BY <2>2, <2>3, <2>5 DEF Policy, Revocable
    <3>2. HasCounter(pol')
      BY <2>1, <2>2, <3>1 DEF HasCounter
    <3> QED BY <2>1, <2>2, <3>1, <3>2, SignStep, ZenonT(30)
  <2> QED BY <2>4, <2>5
<1>2. CASE SealPolicy
  <2>1. IInv' /\ UNCHANGED <<nv, confirmed, revoked>>
    BY <1>2, SealPolicyStep DEF SealPolicy
  <2>2. CASE UNCHANGED issued
    BY <2>1, <2>2, OtherStep
  <2>3. CASE pc' = "sealKeys" /\ issued' = issued \cup Revocable(pol')
    <3>1. pol' \in Policy /\ (pol'.h \in Handle => HasCounter(pol)' /\ pol'.count = nv[pol'.h].value + 1)
      BY <2>1, <2>3, ZenonT(30) DEF IInv, TypeOK, CallInv
    <3>2. CASE pol'.h = NullHandle
      BY <2>1, <2>3, <3>2, OtherStep DEF Revocable
    <3>3. CASE pol'.h # NullHandle
      <4>1. pol'.h \in Handle /\ issued' = issued \cup {pol'}
        BY <3>1, <2>3, <3>3, SMTT(30) DEF Policy, Revocable
      <4>2. HasCounter(pol')
        BY <2>1, <3>1, <4>1 DEF HasCounter
      <4> QED BY <2>1, <3>1, <4>1, <4>2, SignStep
    <3> QED BY <3>2, <3>3, SMTT(30)
  <2> QED BY <1>2, <2>2, <2>3 DEF SealPolicy
<1>3. CASE InitCounter
  <2>1. CASE UNCHANGED <<nv, nvMax, revoked>>
    BY <1>3, <2>1, OtherStep DEF InitCounter
  <2>2. CASE /\ nvMax < MaxCount
             /\ revoked' = revoked \cup {q \in issued : Related(q, pol) /\ q.count < nvMax + 1}
    BY <1>3, <2>2, RevokeStep
  <2> QED BY <1>3, <2>1, <2>2 DEF InitCounter
<1>4. CASE SealIncrement
  <2>1. pol \in Policy
    BY <1>4 DEF SealIncrement, IInv, TypeOK
  <2>2. CASE pol.h = NullHandle
    BY <1>4, <2>2, OtherStep DEF SealIncrement, Revocable
  <2>3. CASE pol.h # NullHandle
    <3>1. pol.h \in Handle
      BY <2>1, <2>3 DEF Policy
    <3>2. CASE IncrementPcrPolicyCounter /\ confirmed' = confirmed \cup Revocable(pol)
      BY <1>4, <2>3, <3>1, <3>2, ConfirmStep DEF SealIncrement, Revocable
    <3> QED BY <1>4, <2>3, <3>2, OtherStep DEF SealIncrement
  <2> QED BY <2>2, <2>3
<1>5. CASE UpdateIncrement
  <2>1. pol \in Policy
    BY <1>5 DEF UpdateIncrement, IInv, TypeOK
  <2>2. CASE pol.h = NullHandle
    BY <1>5, <2>2, OtherStep DEF UpdateIncrement, Revocable
  <2>3. CASE pol.h # NullHandle
    <3>1. pol.h \in Handle
      BY <2>1, <2>3 DEF Policy
    <3>2. CASE IncrementPcrPolicyCounter /\ confirmed' = confirmed \cup Revocable(pol)
      BY <1>5, <2>3, <3>1, <3>2, ConfirmStep DEF UpdateIncrement, Revocable
    <3> QED BY <1>5, <2>3, <3>2, OtherStep DEF UpdateIncrement
  <2> QED BY <2>2, <2>3
<1>6. CASE UNCHANGED <<issued, confirmed, revoked>>
  BY <1>6, OtherStep
<1> QED BY <1>1, <1>2, <1>3, <1>4, <1>5, <1>6, ZenonT(30)
        DEF Next, vars, history, SealKeyToTPMMultiple, DefineCounter, UndefineCounter,
            SealKey, RemoveFiles, UpdateKey, Crash, DeleteFile, CallerUndefinesCounter

(***************************************************************************)
(* The calls, with their failures and crashes, implement Revocation: see   *)
(* ImplementsRevocation.                                                   *)
(***************************************************************************)
THEOREM SealedKeysImplementRevocation == Spec => ImplementsRevocation
<1>1. Init => Rev!Init
  BY DEF Init, Rev!Init
<1> QED BY <1>1, InitEstablishes, NextPreserves, StepImplements, PTL
        DEF Spec, ImplementsRevocation, Rev!Spec
=============================================================================
