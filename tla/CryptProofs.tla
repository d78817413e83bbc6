----------------------------- MODULE CryptProofs -----------------------------
(***************************************************************************)
(* crypt.go: the properties of Luks2 for any number of keyslots and any    *)
(* keys, and the safety of the handshake with the child process (KeyPipe)  *)
(* for any number of lines of output and with children that exit before    *)
(* they open the FIFO.                                                     *)
(***************************************************************************)
EXTENDS Luks2, KeyPipe, TLAPS
-----------------------------------------------------------------------------
(* The keyslots                                                            *)

(***************************************************************************)
(* Keyslots other than 0 never hold a sealed key.  Keyslot 0 holds the     *)
(* main key, and is empty only before the first initialization, or in a    *)
(* gap, when it holds at most the exposed recovery key; the last step of a *)
(* function finds its key in place.                                        *)
(***************************************************************************)
ZeroInv ==
  /\ gap => slots[0] = exposed
  /\ ~ gap => /\ exposed = NoKey /\ slots[0] \in Key \cup {NoKey}
              /\ slots[0] = NoKey => \A s \in Slot : slots[s] = NoKey
OthersInv == \A s \in Slot \ {0} : slots[s] \notin Key
RecoveryInv == \A r \in recovery : Unlocks(r, Slot \ {0})
StepInv ==
  /\ pc = "luksAddKey" => gap /\ exposed = NoKey
  /\ pc = "setPreferred" => ~ gap /\ slots[0] = arg
  /\ main # NoKey => pc = "idle" /\ slots[0] = main /\ 0 \in preferred

IInv == TypeOK /\ ZeroInv /\ OthersInv /\ RecoveryInv /\ StepInv

\* There is a keyslot 0.
LEMMA ZeroSlot == 0 \in Slot
  BY Luks2Assumption DEF Slot

\* The properties follow from the invariant.
LEMMA IInvImplies == IInv => TypeOK /\ RecoveryKeysStay /\ MainKeyReplaced
<1> SUFFICES ASSUME IInv PROVE TypeOK /\ RecoveryKeysStay /\ MainKeyReplaced
  OBVIOUS
<1>1. RecoveryKeysStay
  BY ZeroSlot DEF IInv, ZeroInv, RecoveryInv, RecoveryKeysStay, Unlocks, TypeOK
<1>2. MainKeyReplaced
  BY ZeroSlot DEF IInv, OthersInv, StepInv, MainKeyReplaced, Unlocks, TypeOK
<1> QED BY <1>1, <1>2 DEF IInv

\* Before the container is initialized nothing is claimed.
LEMMA InitEstablishes == Init => IInv
<1> SUFFICES ASSUME Init PROVE IInv
  OBVIOUS
<1>1. TypeOK
  BY Luks2Assumption, ZenonT(30) DEF Init, TypeOK
<1>2. ~ gap
  BY Zenon DEF Init
<1> QED
  BY <1>1, <1>2, ZeroSlot, Luks2Assumption
  DEF Init, IInv, ZeroInv, OthersInv, RecoveryInv, StepInv, Unlocks

(***************************************************************************)
(* A step that leaves the keyslots and the history of additions alone, and *)
(* does not complete an initialization or a change.                        *)
(***************************************************************************)
LEMMA KeyslotsUnchanged ==
  ASSUME IInv, UNCHANGED <<slots, added>>, TypeOK', StepInv'
  PROVE  IInv'
  BY DEF IInv, ZeroInv, OthersInv, RecoveryInv, Unlocks, added

\* The calls change no keyslot.
LEMMA InitializeStep ==
  ASSUME IInv, NEW k \in Key, InitializeLUKS2Container(k)
  PROVE  IInv'
<1>1. UNCHANGED <<slots, added>> /\ main' = NoKey /\ pc' \in {"luksFormat", "luksKillSlot"}
  BY DEF InitializeLUKS2Container, Call
<1>2. TypeOK'
  BY ZenonT(30) DEF IInv, TypeOK, InitializeLUKS2Container, Call, added
<1>3. StepInv'
  BY <1>1 DEF StepInv
<1> QED BY <1>1, <1>2, <1>3, KeyslotsUnchanged

\* See InitializeStep.
LEMMA ChangeStep ==
  ASSUME IInv, NEW k \in Key, NEW r \in RecoveryKey, ChangeLUKS2KeyUsingRecoveryKey(r, k)
  PROVE  IInv'
<1>1. UNCHANGED <<slots, added>> /\ main' = NoKey /\ pc' \in {"luksFormat", "luksKillSlot"}
  BY DEF ChangeLUKS2KeyUsingRecoveryKey, Call
<1>2. TypeOK'
  BY ZenonT(30) DEF IInv, TypeOK, ChangeLUKS2KeyUsingRecoveryKey, Call, added
<1>3. StepInv'
  BY <1>1 DEF StepInv
<1> QED BY <1>1, <1>2, <1>3, KeyslotsUnchanged

\* luksFormat forgets all recovery keys, and ends a gap.
LEMMA LuksFormatStep == ASSUME IInv, LuksFormat PROVE IInv'
<1>1. TypeOK'
  BY Luks2Assumption, ZenonT(30) DEF IInv, TypeOK, LuksFormat, Continue
<1>2. ~ gap' /\ exposed' = NoKey
  BY Zenon DEF LuksFormat
<1>3. slots'[0] = arg /\ arg \in Key /\ \A s \in Slot \ {0} : slots'[s] = NoKey
  BY ZeroSlot DEF LuksFormat, IInv, TypeOK
<1>4. ZeroInv' /\ OthersInv' /\ RecoveryInv'
  BY <1>2, <1>3, Luks2Assumption DEF ZeroInv, OthersInv, RecoveryInv, LuksFormat
<1>5. StepInv'
  BY <1>2, <1>3 DEF IInv, StepInv, LuksFormat, Continue
<1> QED BY <1>1, <1>4, <1>5 DEF IInv

\* The key is in keyslot 0 when its priority is set.
LEMMA SetPreferredStep == ASSUME IInv, SetLUKS2KeyslotPreferred PROVE IInv'
<1>1. TypeOK' /\ StepInv'
  BY DEF IInv, TypeOK, StepInv, SetLUKS2KeyslotPreferred, PreferredSlot, Return, added
<1> QED BY <1>1, KeyslotsUnchanged DEF SetLUKS2KeyslotPreferred

(***************************************************************************)
(* When a key unlocks the container, keyslot 0 is free in a gap only, and  *)
(* then only if no recovery key was added in it.  So the first free        *)
(* keyslot is 0 exactly if the new key is recorded as exposed.             *)
(***************************************************************************)
LEMMA FirstFreeIsZero ==
  ASSUME IInv, NEW k \in Key \cup RecoveryKey, Unlocks(k, Slot), NEW s \in Slot, FirstFree(s)
  PROVE  s = 0 <=> gap /\ exposed = NoKey
<1>1. s = 0 <=> slots[0] = NoKey
  BY ZeroSlot, Luks2Assumption DEF FirstFree, Slot
<1>2. slots[0] = NoKey => gap /\ exposed = NoKey
  BY Luks2Assumption DEF IInv, ZeroInv, Unlocks
<1>3. gap /\ exposed = NoKey => slots[0] = NoKey
  BY DEF IInv, ZeroInv
<1> QED BY <1>1, <1>2, <1>3

LEMMA AddRecoveryKeyStep ==
  ASSUME IInv, NEW k \in Key \cup RecoveryKey, NEW r \in RecoveryKey,
         AddRecoveryKeyToLUKS2Container(k, r)
  PROVE  IInv'
<1>1. ASSUME Unlocks(k, Slot), Return("ok"),
             NEW s \in Slot, FirstFree(s), slots' = [slots EXCEPT ![s] = r],
             IF gap /\ exposed = NoKey
             THEN exposed' = r /\ UNCHANGED recovery
             ELSE recovery' = recovery \cup {r} /\ UNCHANGED exposed
      PROVE  IInv'
  <2>1. s = 0 <=> gap /\ exposed = NoKey
    BY <1>1, FirstFreeIsZero
  <2>2. /\ slots'[s] = r /\ slots[s] = NoKey /\ r \notin Key /\ r # NoKey
        /\ \A t \in Slot \ {s} : slots'[t] = slots[t]
    BY <1>1, Luks2Assumption DEF IInv, TypeOK, FirstFree
  <2>3. UNCHANGED <<preferred, main, gap>> /\ pc' = "idle" /\ pc = "idle"
    BY <1>1, ZenonT(30) DEF AddRecoveryKeyToLUKS2Container, Return
  <2>4. TypeOK'
    <3>1. slots' \in [Slot -> Key \cup RecoveryKey \cup {NoKey}]
      BY <1>1 DEF IInv, TypeOK
    <3>2. recovery' \subseteq RecoveryKey /\ exposed' \in RecoveryKey \cup {NoKey}
      BY <1>1 DEF IInv, TypeOK
    <3>3. faulted' \in BOOLEAN /\ gap' \in BOOLEAN
      BY <2>3, Zenon DEF AddRecoveryKeyToLUKS2Container, IInv, TypeOK
    <3> QED
      BY <1>1, <2>3, <3>1, <3>2, <3>3 DEF IInv, TypeOK, Return
  <2>5. OthersInv'
    BY <2>2 DEF IInv, OthersInv
  <2>6. RecoveryInv'
    <3>1. ASSUME NEW q \in recovery PROVE \E t \in Slot \ {0} : slots'[t] = q
      BY <2>2, Luks2Assumption DEF IInv, TypeOK, RecoveryInv, Unlocks
    <3>2. r \in recovery' /\ r \notin recovery => s # 0
      BY <1>1, <2>1
    <3> QED
      BY <1>1, <2>2, <3>1, <3>2 DEF RecoveryInv, Unlocks
  <2>7. ZeroInv'
    <3>1. CASE s = 0
      BY <1>1, <2>1, <2>2, <2>3, <3>1 DEF ZeroInv
    <3>2. CASE s # 0
      <4>1. slots'[0] = slots[0] /\ slots[0] # NoKey
        BY <1>1, <2>2, <3>2, ZeroSlot, Luks2Assumption DEF FirstFree, Slot
      <4> QED
        BY <1>1, <2>1, <2>3, <3>2, <4>1 DEF IInv, ZeroInv
    <3> QED BY <3>1, <3>2
  <2>8. StepInv'
    <3>1. main # NoKey => s # 0
      BY <2>2 DEF IInv, StepInv
    <3> QED BY <2>2, <2>3, <3>1, ZeroSlot DEF IInv, StepInv
  <2> QED BY <2>4, <2>5, <2>6, <2>7, <2>8 DEF IInv
<1>2. CASE Return("failed") /\ UNCHANGED <<slots, recovery, exposed>>
  <2>1. UNCHANGED <<slots, added, preferred, main>> /\ pc' = "idle"
    BY <1>2 DEF AddRecoveryKeyToLUKS2Container, Return, added
  <2>2. TypeOK'
    BY <1>2, ZenonT(30) DEF IInv, TypeOK, AddRecoveryKeyToLUKS2Container, Return
  <2>3. StepInv'
    BY <2>1 DEF IInv, StepInv
  <2> QED BY <2>1, <2>2, <2>3, KeyslotsUnchanged
<1> QED
  BY <1>1, <1>2 DEF AddRecoveryKeyToLUKS2Container

\* Only keyslot 0 is removed, and with it an exposed key.
LEMMA LuksKillSlotStep == ASSUME IInv, LuksKillSlot PROVE IInv'
<1>1. CASE /\ CanKill /\ Continue("luksAddKey") /\ gap' = TRUE /\ exposed' = NoKey
           /\ slots' = [slots EXCEPT ![KilledSlot] = NoKey]
           /\ preferred' = preferred \ {KilledSlot}
  <2>1. slots'[0] = NoKey /\ \A s \in Slot \ {0} : slots'[s] = slots[s]
    BY <1>1, ZeroSlot DEF KilledSlot, IInv, TypeOK
  <2>2. gap' /\ gap' \in BOOLEAN
    BY <1>1, Zenon
  <2>3. TypeOK'
    BY <1>1, <2>2 DEF IInv, TypeOK, LuksKillSlot, KilledSlot, Continue
  <2>4. ZeroInv' /\ OthersInv' /\ RecoveryInv'
    BY <1>1, <2>1, <2>2 DEF IInv, ZeroInv, OthersInv, RecoveryInv, Unlocks, LuksKillSlot
  <2>5. StepInv'
    BY <1>1, <2>2 DEF IInv, StepInv, LuksKillSlot, Continue
  <2> QED BY <2>3, <2>4, <2>5 DEF IInv
<1>2. CASE Return("failed") /\ UNCHANGED <<slots, preferred, gap, exposed>>
  <2>1. TypeOK' /\ StepInv'
    BY <1>2 DEF IInv, TypeOK, StepInv, LuksKillSlot, Return
  <2> QED BY <1>2, <2>1, KeyslotsUnchanged DEF LuksKillSlot, added
<1> QED BY <1>1, <1>2 DEF LuksKillSlot

\* The new key goes to keyslot 0, which ends the gap.
LEMMA LuksAddKeyStep == ASSUME IInv, LuksAddKey PROVE IInv'
<1>1. CASE /\ Continue("setPreferred") /\ gap' = FALSE
           /\ slots' = [slots EXCEPT ![MainSlot] = arg]
  <2>1. slots'[0] = arg /\ arg \in Key /\ \A s \in Slot \ {0} : slots'[s] = slots[s]
    BY <1>1, ZeroSlot DEF MainSlot, LuksAddKey, IInv, TypeOK
  <2>2. ~ gap' /\ gap' \in BOOLEAN
    BY <1>1, Zenon
  <2>3. TypeOK'
    BY <1>1, <2>2 DEF IInv, TypeOK, LuksAddKey, MainSlot, Continue
  <2>4. ZeroInv' /\ OthersInv' /\ RecoveryInv'
    BY <2>1, <2>2, Luks2Assumption
    DEF IInv, ZeroInv, OthersInv, RecoveryInv, StepInv, Unlocks, LuksAddKey
  <2>5. StepInv'
    BY <1>1, <2>1, <2>2 DEF IInv, StepInv, LuksAddKey, Continue
  <2> QED BY <2>3, <2>4, <2>5 DEF IInv
<1>2. CASE Return("failed") /\ UNCHANGED <<slots, gap>>
  <2>1. TypeOK' /\ StepInv'
    BY <1>2 DEF IInv, TypeOK, StepInv, LuksAddKey, Return
  <2> QED BY <1>2, <2>1, KeyslotsUnchanged DEF LuksAddKey, added
<1> QED BY <1>1, <1>2 DEF LuksAddKey

\* Failures and crashes change no keyslot.
LEMMA StopStep == ASSUME IInv, CryptsetupFails \/ Crash PROVE IInv'
<1>1. UNCHANGED <<slots, added, preferred, main>> /\ pc' = "idle"
  BY DEF CryptsetupFails, Crash, Return
<1>2. TypeOK'
  BY ZenonT(30) DEF IInv, TypeOK, CryptsetupFails, Crash, Return, added
<1>3. StepInv'
  BY <1>1 DEF IInv, StepInv
<1> QED BY <1>1, <1>2, <1>3, KeyslotsUnchanged

\* The invariant is inductive.
LEMMA NextPreserves == IInv /\ [Next]_vars => IInv'
<1> SUFFICES ASSUME IInv, [Next]_vars PROVE IInv'
  OBVIOUS
<1>1. CASE UNCHANGED vars
  <2>1. TypeOK' /\ StepInv'
    BY <1>1 DEF vars, IInv, TypeOK, StepInv, added
  <2> QED BY <1>1, <2>1, KeyslotsUnchanged DEF vars
<1>2. ASSUME NEW k \in Key, InitializeLUKS2Container(k) PROVE IInv'
  BY <1>2, InitializeStep
<1>3. ASSUME NEW k \in Key, NEW r \in RecoveryKey, ChangeLUKS2KeyUsingRecoveryKey(r, k)
      PROVE  IInv'
  BY <1>3, ChangeStep
<1>4. ASSUME NEW k \in Key \cup RecoveryKey, NEW r \in RecoveryKey,
             AddRecoveryKeyToLUKS2Container(k, r)
      PROVE  IInv'
  BY <1>4, AddRecoveryKeyStep
<1>5. CASE LuksFormat \/ SetLUKS2KeyslotPreferred \/ LuksKillSlot \/ LuksAddKey
  BY <1>5, LuksFormatStep, SetPreferredStep, LuksKillSlotStep, LuksAddKeyStep
<1>6. CASE CryptsetupFails \/ Crash
  BY <1>6, StopStep
<1> QED
  BY <1>1, <1>2, <1>3, <1>4, <1>5, <1>6 DEF Next

\* The invariant holds in every state.
LEMMA Invariance == Spec => []IInv
  BY InitEstablishes, NextPreserves, PTL DEF Spec

(***************************************************************************)
(* A recovery key that was added unlocks the container until it is         *)
(* initialized again, through a keyslot that no change removes, for any    *)
(* number of keyslots, any existing key given and any failures; the one    *)
(* added first after a change that stopped past luksKillSlot unlocks it    *)
(* until the next change.                                                  *)
(***************************************************************************)
THEOREM RecoveryKeysAreSafe == Spec => []RecoveryKeysStay
  BY Invariance, IInvImplies, PTL

(***************************************************************************)
(* An initialization or change that succeeded left exactly its key in the  *)
(* preferred keyslot 0.                                                    *)
(***************************************************************************)
THEOREM ChangesReplaceTheKey == Spec => []MainKeyReplaced
  BY Invariance, IInvImplies, PTL

(***************************************************************************)
(* The type invariant of Luks2, for any number of keyslots and any keys.   *)
(***************************************************************************)
THEOREM Luks2TypeCorrect == Spec => []TypeOK
  BY Invariance, IInvImplies, PTL
-----------------------------------------------------------------------------
(* The handshake                                                           *)

(***************************************************************************)
(* What activate and addKeyToLUKS2Container rely on: a forwarding          *)
(* goroutine that is done has read everything, of a child that can write   *)
(* no more; and output can only be thrown away by cmd.Wait, the last thing *)
(* before the function returns.                                            *)
(***************************************************************************)
PipeInv ==
  /\ PipeTypeOK
  /\ pending + lines <= MaxLines
  /\ caller \in {"mkFifo", "start"} => child = "none"
  /\ done => pending = 0 /\ child \in Exited
  /\ caller # "returned" => ~ lost /\ outcome = "none"
  /\ OutputForwarded

LEMMA PipeInitEstablishes == PipeInit => PipeInv
<1> SUFFICES ASSUME PipeInit PROVE PipeInv
  OBVIOUS
<1>1. pending + lines <= MaxLines /\ lines \in 0 .. MaxLines /\ pending \in 0 .. MaxLines
  BY KeyPipeAssumption DEF PipeInit
<1>2. ~ done /\ ~ lost /\ dir \in BOOLEAN /\ done \in BOOLEAN /\ lost \in BOOLEAN
  BY Zenon DEF PipeInit
<1> QED BY <1>1, <1>2 DEF PipeInit, PipeInv, PipeTypeOK, OutputForwarded, Exited

\* The steps of the caller before it waits.
LEMMA CallerStep ==
  ASSUME PipeInv, MkFifo \/ Start \/ OpenFile \/ OpenFileFails \/ Write \/ Close
  PROVE  PipeInv'
<1>1. CASE MkFifo
  BY <1>1, KeyPipeAssumption, ZenonT(30) DEF PipeInv, PipeTypeOK, OutputForwarded, Exited, MkFifo, PipeReturn
<1>2. CASE Start
  BY <1>2, KeyPipeAssumption, ZenonT(30) DEF PipeInv, PipeTypeOK, OutputForwarded, Exited, Start, PipeReturn
<1>3. CASE OpenFile
  BY <1>3, KeyPipeAssumption DEF PipeInv, PipeTypeOK, OutputForwarded, Exited, OpenFile
<1>4. CASE OpenFileFails
  BY <1>4, KeyPipeAssumption, ZenonT(30)
  DEF PipeInv, PipeTypeOK, OutputForwarded, Exited, OpenFileFails, Kill, PipeReturn
<1>5. CASE Write
  BY <1>5, KeyPipeAssumption DEF PipeInv, PipeTypeOK, OutputForwarded, Exited, Write
<1>6. CASE Close
  BY <1>6, KeyPipeAssumption DEF PipeInv, PipeTypeOK, OutputForwarded, Exited, Close
<1> QED BY <1>1, <1>2, <1>3, <1>4, <1>5, <1>6

\* cmd.Wait after a failed write may throw output away, and the function fails.
LEMMA WaitAfterFailedWriteStep == ASSUME PipeInv, WaitAfterFailedWrite PROVE PipeInv'
<1>1. lost' \in BOOLEAN /\ dir' \in BOOLEAN /\ done' = done
  BY Zenon DEF WaitAfterFailedWrite, Wait, PipeReturn
<1> QED
  BY <1>1, KeyPipeAssumption
  DEF PipeInv, PipeTypeOK, OutputForwarded, Exited, WaitAfterFailedWrite, Wait, PipeReturn

\* cmd.Wait after the receives from done finds the pipes empty.
LEMMA WaitForChildStep == ASSUME PipeInv, WaitForChild PROVE PipeInv'
<1>1. done
  BY DEF PipeInv, PipeTypeOK, WaitForChild, Wait, Drained
<1>2. pending = 0 /\ ~ lost /\ lost' = FALSE
  BY <1>1 DEF PipeInv, PipeTypeOK, WaitForChild, Wait
<1> QED
  BY <1>1, <1>2, KeyPipeAssumption, ZenonT(30)
  DEF PipeInv, PipeTypeOK, OutputForwarded, Exited, WaitForChild, Wait, PipeReturn

LEMMA ForwardStep == ASSUME PipeInv, Forward PROVE PipeInv'
<1>1. CASE pending > 0 /\ pending' = pending - 1 /\ UNCHANGED done
  BY <1>1, KeyPipeAssumption DEF PipeInv, PipeTypeOK, OutputForwarded, Exited, Forward
<1>2. CASE pending = 0 /\ child \in Exited /\ done' = TRUE /\ UNCHANGED pending
  <2>1. done' /\ done' \in BOOLEAN
    BY <1>2, Zenon
  <2> QED BY <1>2, <2>1, KeyPipeAssumption DEF PipeInv, PipeTypeOK, OutputForwarded, Exited, Forward
<1> QED BY <1>1, <1>2, ZenonT(30) DEF Forward

LEMMA ChildStep == ASSUME PipeInv, Child \/ ChildDies PROVE PipeInv'
<1>1. CASE ChildOpens
  BY <1>1, KeyPipeAssumption DEF PipeInv, PipeTypeOK, OutputForwarded, Exited, ChildOpens
<1>2. CASE ChildReads
  BY <1>2, KeyPipeAssumption DEF PipeInv, PipeTypeOK, OutputForwarded, Exited, ChildReads
<1>3. CASE ChildWrites
  BY <1>3, KeyPipeAssumption DEF PipeInv, PipeTypeOK, OutputForwarded, Exited, ChildWrites
<1>4. CASE ChildExits
  BY <1>4, KeyPipeAssumption DEF PipeInv, PipeTypeOK, OutputForwarded, Exited, ChildExits
<1>5. CASE ChildDies
  BY <1>5, KeyPipeAssumption DEF PipeInv, PipeTypeOK, OutputForwarded, Exited, ChildDies
<1> QED BY <1>1, <1>2, <1>3, <1>4, <1>5 DEF Child

LEMMA PipeNextPreserves == PipeInv /\ [PipeNext]_pipeVars => PipeInv'
<1> SUFFICES ASSUME PipeInv, [PipeNext]_pipeVars PROVE PipeInv'
  OBVIOUS
<1>1. CASE UNCHANGED pipeVars
  BY <1>1 DEF pipeVars, PipeInv, PipeTypeOK, OutputForwarded
<1> QED
  BY <1>1, CallerStep, WaitAfterFailedWriteStep, WaitForChildStep, ForwardStep, ChildStep
  DEF PipeNext, Caller

(***************************************************************************)
(* Unless writing the key failed, all output of the child is forwarded:    *)
(* activate receives from done before cmd.Wait closes the pipes.  This     *)
(* takes no fairness, and holds for children that exit early.              *)
(***************************************************************************)
THEOREM OutputIsForwarded == PipeSpec => []OutputForwarded
<1>1. PipeInv => OutputForwarded
  BY DEF PipeInv
<1> QED BY <1>1, PipeInitEstablishes, PipeNextPreserves, PTL DEF PipeSpec

(***************************************************************************)
(* The type invariant of KeyPipe, for any number of lines of output.       *)
(***************************************************************************)
THEOREM KeyPipeTypeCorrect == PipeSpec => []PipeTypeOK
<1>1. PipeInv => PipeTypeOK
  BY DEF PipeInv
<1> QED BY <1>1, PipeInitEstablishes, PipeNextPreserves, PTL DEF PipeSpec
=============================================================================
