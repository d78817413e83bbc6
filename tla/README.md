# A TLA+ model of secboot

secboot seals disk encryption keys to a TPM, protects them with PCR policies that can be
replaced and revoked, and activates LUKS2 volumes with the unsealed key or with a recovery key.
This directory holds TLA+ modules for its parts, TLC configurations that check them on small
instances, and TLAPS proofs. `PROJECT.json` maps every definition to the lines of code it stands
for and lists the hazards, the runs, the mutants and the theorems.

## Parts and modules

| Part | Source | State | Operations | Model |
|---|---|---|---|---|
| Sealing and policy updates | `seal.go` | key files, counter | `SealKeyToTPMMultiple`, `UpdateKeyPCRProtectionPolicy*` | `SealedKeys`, `Revocation` |
| PCR policy counter | `policy.go` | NV counter | create, read, increment, undefine | `SealedKeys` |
| PolicyOR trees | `policy.go` | tree as a slice | `computePolicyORData`, `executePolicyORAssertions` | `PolicyOr` |
| Policies and sessions | `policy.go` | session digest, PCRs | `compute*Policy`, `executePolicySession`, `BlockPCRProtectionPolicies` | `PolicySession` |
| Key data files | `keydata.go` | file | validate, create, replace atomically | `PolicySession`, `SealedKeys` |
| Unsealing | `unseal.go` | lockout, SRK | `UnsealFromTPM` | `PolicySession`, `Provisioning`, `Activation` |
| PIN changes | `pin.go` | auth value, hint | `ChangePIN` | `PolicySession` |
| Provisioning, connections | `provisioning.go`, `tpm.go` | EK, SRK, hierarchies, session | `EnsureProvisioned`, `ConnectToDefaultTPM`, `SecureConnectToDefaultTPM`, `init` | `Provisioning` |
| Activation | `crypt.go` | volume, user keyring | `ActivateVolumeWith*`, `GetActivationDataFromKernel` | `Activation` |
| Keys to child processes | `crypt.go` | FIFO, pipes, child | `mkFifo`, `activate`, `addKeyToLUKS2Container` | `KeyPipe` |
| LUKS2 containers | `crypt.go` | keyslots | initialize, add recovery key, change key | `Luks2` |
| PCR profiles | `pcr_profile.go` | instruction tree | `computePCRValues`, `computePCRDigests` | `PCRProfile` |
| Secure boot profile | `secureboot_policy.go` | branches of a profile | `AddEFISecureBootPolicyProfile` | `SecureBootPolicy` |
| Boot manager profile | `efibootmanager_policy.go` | branches of a profile | `AddEFIBootManagerProfile` | `BootManagerPolicy` |
| Snap model, systemd stub | `snapmodel_policy.go`, `sdefistub_policy.go` | – | `Add*Profile` | `BootPolicy` |

How they interact: the profile functions add to one PCR profile, whose values and digests become
the conditions of a policy. Sealing creates a counter (once per seal) and key files that name it;
an update signs a policy for the next count, rewrites the files and increments the counter, which
revokes the older policies. Activation reads a file, unseals it, hands the key to
systemd-cryptsetup through a FIFO, and falls back to the recovery key. Provisioning supplies the
storage root key (SRK) under which everything is sealed.

What is hard here is not concurrency of calls (the TPM device can be opened by one process) but
failures and crashes between the steps of a call, retries after them, indices and keys that are
replaced between calls, the handshake with child processes, and the bookkeeping of branches when
profiles are generated.

**`SealedKeys`**. `files` is the disk, `nv` and `nvMax` the TPM's counters; `pc`, `keys`, `todo`
and `pol` are the running call. Each TPM command or file operation that changes something is a
step: `DefineCounter`, `InitCounter` (`createPcrPolicyCounter`), `SealPolicy`, `SealKey`,
`SealIncrement` (the loop and the end of `SealKeyToTPMMultiple`), `RemoveFiles` and
`UndefineCounter` (its deferred functions, in their order), `UpdateKey` and `UpdateIncrement`
(`updateKeyPCRProtectionPolicyCommon`). Every step can fail as the code can, and `Crash` may come
between any two. A cleanup command that fails is remembered as a leak, so that a failed seal can
be held to "leaves nothing" whenever its cleanup worked. A key file is the policy it holds: auth
key, counter handle, count and permitted boots. `issued`, `confirmed`, `revoked` and `dropped` are
history variables that the properties speak about. Only version 1 files are modelled. The loop
over keys is taken in any order. The TPM starts a new counter above every count it ever gave out;
this is the TPM's behaviour, not the code's.

**`Revocation`** is the abstract specification of the same part: policies are signed, come into
force and are revoked, without files, counters, calls or failures. The refinement mapping in
`SealedKeys` takes the live policies to be those issued and not revoked, the dead ones to be the
revoked ones, and the current ones to be those of completed calls that are not revoked.

**`PolicySession`** models one key data file of version 0 or 1, with and without a counter. A
policy digest is the sequence of assertions it was made of, so that computing a policy
(`DynamicPolicy`, `StaticPolicy`) and executing it (`ExecutePolicySession`, `SessionDigest`) are
separate definitions that have to agree. `Validates` is `keyData.validate`. `ChangePIN` and
`WriteKeyData` are the two halves of `ChangePIN` between which it may stop;
`BlockPCRProtectionPolicies`, `Fence` and `BlockReturns` extend the fence PCR by PCR.
A `SealedKeyObject` that was read earlier keeps being used after updates and PIN changes. A policy
update is one step here, its own steps are in `SealedKeys`. The environment restarts the machine,
ends a lockout and undefines NV indices. `values`, `pins` and `barred` are history variables.

**`Provisioning`** has one step per TPM command of `EnsureProvisioned`, with its nested
initialization of the connection, and composes it with its users: `SealKeyToTPMMultiple`, which
seals to the cached or to a new SRK, and `unsealKeyFromTPM`, which provisions when the SRK is gone
and tries again. Objects at persistent handles are known by what they are. `InitUnverified` and
`InitVerified` give the possible outcomes of `init`; the TPM may not be the one of the
certificate (`genuine`). Every command may fail, the process may stop, and between calls the
platform may clear the TPM and the owner may replace objects and settings.

**`PolicyOr`** has one step per loop iteration of building and executing a tree. A digest is
symbolic: `POr` is an injective operator given by the instance.

**`PCRProfile`** has one step per instruction that the iterator returns, one for the loop of
`computePCRDigests` that computes the digests, and one per turn of the loop that takes repetitions
out. The compute contexts are a stack whose positions replace the code's parent pointers. A digest
computed from PCR values is represented by the values. The reference for `DigestsExact` follows one
way through the profile at a time: a walker has instructions before it and the values it has
computed, and takes any one profile at an "or" (`Onward`, `After`); `Longest` bounds the length of
the ways. A second reference, `Meaning`, recursive over the profile, is in `MCPCRProfile` with
`ValuesAreTheMeaning`, which is also about the order of the combinations.

**`SecureBootPolicy`** follows `AddEFISecureBootPolicyProfile`: the checks of the event log, the
list of pending signature database updates, one root branch per database level, the queue of load
events with the branches they apply to, the verification of an image by firmware and shim, and the
joining of branches from the last to the first. It runs twice, for both ways in which firmware
compares signatures. Every round of a loop of `run` is a step: an event of the log for a root
(`ProcessPreOSEvent`), a new branch (`MakeBranch`, with `fork` as the state of the loops over the
next events and their branches), a load event for its branches (`ProcessOSLoadEvent`), a sub-branch
that is looked at and a branch that is joined (`JoinSubBranch`, `Join`). The code clears the profile
of a branch that cannot boot; here it has a flag. Branches are numbered in the order of
`allBranches`. What would panic in the code ends in the phase "panic". Images are known by their
signers, their vendor certificate and the layout of their file; a certificate either verifies a
signer or does not. `LoadEvents` is the set of load events that the sequences are made of
(`LoadEventsAssumption`, `RequestsAssumption`).
**`BootManagerPolicy`** does the same for PCR 4, with the byte ranges that the Authenticode digest
covers. `SequenceOps` has the one operator on sequences that both need. **`BootPolicy`** composes
both with the stub and model profiles and with `PCRProfile`, as a caller that seals a key does. On
an error of a profile function the caller gives up (result "refused"); what was already added to
its profile is not looked at again.
`MCBootPolicy` has the reference: a machine that boots along one path and measures as it goes.
It takes the PCR 7 separator to be measured before the authorities, and drivers to have one
signature; it shares `ComputeDbUpdate` with the model.

**`Activation`** has one step per attempt of the two loops. The answers of the user, TPM errors and
exits of systemd-cryptsetup are arbitrary. `UnsealResult` is the order of checks of
`UnsealFromTPM`. Without an SRK `unsealKeyFromTPM` calls `EnsureProvisioned`, which cannot succeed
without null authorization values and may fail with them, before or after it has made the SRK;
only when it succeeds does unsealing again decide the error. Calls follow each other, so the keyring and the lockout
counter accumulate. Calls that are refused because of negative tries or a `tries=` option change
nothing and are left out. Lockout does not expire within the model.

**`KeyPipe`** interleaves the caller, the child and the goroutine that forwards its output (the two
of the code behave alike and are one here). Opening the two ends of the FIFO is a rendezvous. Lines
longer than a scanner's buffer, which would stop the forwarding, are not modelled.

**`Luks2`** has one step per run of cryptsetup; what `cryptsetup` accepts is modelled from its use
here and marked external. A recovery key can be added with any key of the container. The history
variables `gap`, `recovery` and `exposed` tell the recovery keys that went to a keyslot of their own
from one that took keyslot 0 while it was empty.

The `MC*` modules give the constants their values for TLC; the `.cfg` files name the run's
properties.

## Runs

| Run | Shows |
|---|---|
| `sealed_keys` | `NeverLockedOut`, `OneConfirmedPolicy`, `RevokedForever`, `FailedSealLeavesNothing`, and that `SealedKeys` implements `Revocation` |
| `sealed_keys_previous` | *violation*: `PreviousPolicyRevoked` |
| `policy_session` | a key is unsealed exactly for its PCR values, count and PIN; validation is sound; the hint is right; fenced policies stay barred |
| `policy_or` | the tree executes exactly from its input, all nodes are linked |
| `boot_policy` | branches are not extended after they were branched and are joined bottom up (`NeverPanics`, `JoinedExactly`); computing values and digests of profiles is right; generated profiles permit every boot they should, nothing else, and are refused exactly when they should be |
| `provisioning` | keys are sealed to the SRK; secure connections stay verified; `EnsureProvisioned` tells the truth; refreshing needs no lockout hierarchy; a lost SRK is restored |
| `activation` | truthful results and recovery reasons, all tries used, calls return |
| `activation_pin` | *violation*: `CorrectPINSuffices` |
| `key_pipe` | output forwarded, no child left blocked, calls return, if the child opens the FIFO |
| `key_pipe_early_exit` | *violation*: `CallReturns` |
| `luks2` | recovery keys stay (but for one in keyslot 0, see below), the main key is replaced |
| `luks2_repeat` | *violation*: `ChangeCanBeRepeated` |

Bounds. The mutants show that each property is sensitive at them.

- `SealedKeys`: two files are enough for a call to stop between them; one handle with two auth keys
  makes a counter be created again under the same and under another name; four increments allow a
  seal, an interrupted update, a repeated one and a new counter. Paths, keys and boots are
  symmetric.
- `PolicySession`: two boots, so that a policy can permit one and not the other; the empty PIN and
  two more, so that a PIN can be set, changed and removed; one wrong PIN until lockout; one update
  after sealing; one fence per PCR, and two PCRs, of which a policy selects one or both. Boots and
  the two PINs are symmetric.
- `PolicyOr`: the code's arity 8, with lists around 8, 16, 64, 72, 128 and 512 conditions.
- `BootPolicy`: some 3,400 given profiles, and event logs with and without drivers and system
  preparation applications, two databases, four lists of pending updates (one redundant, one from a
  second keystore), and ten sets of load sequences with up to three levels, second shims and images
  that only an update authorizes; then logs, images and arguments that are refused. No way through
  a profile has more than 40 steps (`Longest`); TLC evaluates the assumption that this is enough.
- `Provisioning`: finite without bounds.
- `Activation`: three PINs with a lockout after two failures make a call reach the lockout itself.
- `Luks2`, `KeyPipe`: a few keyslots and keys; up to three lines of output.

Fairness. `Activation` assumes that a running call goes on (prompts are answered, children exit).
`KeyPipe` assumes that caller, goroutine and child each run when they can; neither a failure to
open nor a dying child is assumed to happen. The other modules have safety properties only: their
calls are straight sequences of commands or loops over finite lists. `KeyPipe` may stop when its one
call is over, so deadlock is not checked there.

## What the violations show

1. An update that stops after writing the files and before the increment leaves a policy that the
   next successful update replaces but does not revoke, as both are signed for the same count
   (`seal.go:459`, against the comment at 494-496). `MCPreviousPolicy` adds a history variable for
   the policies an update has replaced, and asks only about keys of which a seal or an update was
   completed; a seal that stops before its increment (`seal.go:336`) has the same effect.
   `OneConfirmedPolicy` is what does hold.
2. The PIN loop does not end at success (`crypt.go:370`, against 462-463).
3. A child that exits before it opens the FIFO blocks the caller for ever (`crypt.go:197`, against
   467-468).
4. A key change that stopped after `luksKillSlot` cannot be repeated (`crypt.go:801`, against
   793-795). The same gap is why `RecoveryKeysStay` has an exception: a recovery key added while
   keyslot 0 is empty, with another recovery key as the existing one, goes to keyslot 0, and the
   next change, which then succeeds, removes it.

## Proofs

Each proof module has one lemma per action (or group of small ones), one more combines them,
and the theorems follow with the temporal logic of the last step.

`SealedKeysProofs` proves, for every value of the constants that satisfies `ConstantsAssumption`,
all the properties of `SealedKeys` that hold: `TypeCorrect`, `UpdatesNeverLockOut`,
`CompletedCallsRevoke`, `RevocationIsFinal`, `FailedSealCleansUp`. None of them is inductive. The
invariant `IInv` adds what the code relies on silently: no counter is above `nvMax`; files that were
not left behind have their counter and a count at least its value; every issued policy's count is
at most one above its counter and at most one above `nvMax`; revoked policies are behind their
counter, or behind `nvMax` when it does not exist; completed policies were reached by their
counter; and, per program counter, what the running call knows of its policy and files (`CallInv`,
`CleanupInv`). TLC checked `IInv` first.

`SealedKeysImplementRevocation` proves the refinement from the same invariant: signing a policy is
`Sign`, the increment at the end of a call is `Confirm`, the first increment of a new counter is
`Revoke`, and the rest are stuttering steps of `Revocation`.

`ProvisioningProofs` proves all six properties of `Provisioning`: `ProvisioningTypeCorrect`,
`KeysAreSealedToTheSRK`, `SecureConnectionsStayVerified`, `EnsureProvisionedIsTruthful`,
`RefreshesNeedNoLockout` and `LostSRKsAreRestored`. The invariant adds, per program
counter, which objects and settings the running call has already put in place (`CallInv`), and that
what a full provisioning has set is still set as long as nobody else changes it.

`PolicySessionProofs` proves all four properties of `PolicySession` for any boots, PINs and bounds,
from `PolicySessionAssumption` (the empty PIN is one of the PINs, the tries until lockout are a
number). `HintIsTruthful` needs only that the data about to be written carries the hint of the PIN
that goes with it. `UnsealsExactly`, `ValidatedKeyDataIsSound` and `FencesLastUntilReset` share a
second invariant, `IInv`:

- `DataOK(d, vs)` says of the file, of a `SealedKeyObject` and of data about to be written that
  they hold the policies computed for the PCR values `vs` and for the NV indices as they were first
  defined. From it `SessionOutcome` and `UnsealOutcome` work out which check of
  `executePolicySession` and `UnsealFromTPM` decides, so that the properties follow without going
  back to the digests.
- The counter of the file has the file's count; an object was revoked exactly if its count is
  behind it (`FileInv`, `ObjectInv`).
- The PIN that opens key data is one of the history's, also between the two halves of `ChangePIN`
  (`PinOK`, `WriteInv`).
- Every condition of a barred policy names a PCR that has more fences now than it had in the
  condition, and while the fences are being extended, a PCR that has, or one still to be extended
  with no fewer (`FenceInv`). Fences only grow until a restart, which empties `barred`.

TLC checked this invariant on the instance of `policy_session` first.

`PolicyOrProofs` proves `ExecutionIsExact`, `TreesAreLinked` and `PolicyOrTypeCorrect` for every
arity from two on and every set of lists that satisfies `InputsAssumption` (the lists are not empty
and do not contain `Foreign`); nothing is assumed of `POr`, so that two different lists may have the
same digest. While the tree is built, the nodes before `curNode` are linked to their parents or
to the places that these are going to have, which follow from the positions of their digests in the
queue by a division by the arity (`LevelsInv`, `HasParent`; `ParentNumber` is the arithmetic);
the nodes from `curNode` on have their digests in `nextDigests`. `LeavesInv` says that the first
level has the digests of the input and no others, and where it ends. `ExecuteInv` says that the
climb is at a node that has the session digest as a condition.

`ActivationProofs` proves `ResultsAreTruthful`, `AllPINTriesAreUsed` and `ReasonsAreTruthful` for
any numbers of tries. The invariant counts: in the PIN loop, wrong PINs and attempts left add up to the
attempts allowed as long as no PIN was right, because any other error ends the loop. `ErrInv` says that
the last error of the loop is true of the TPM and of the key file. The type invariant, `ActivationTypeCorrect`, follows from the same one.

`PCRProfileProofs` proves `StacksStayAligned` and `DigestsAreExact` for profiles of any size and
depth, with and without a TPM, from `ProfilesAssumption` (profiles are sequences of instructions,
and branches hold profiles) and `LongestAssumption` (every way through a profile ends after
`Longest` steps, as it does in any finite tree). Nothing is assumed of `Extended` and `TPMValue`, so
that different ways may compute the same values.

- For the stacks, the invariant `IInv` adds that a context whose values went to its branches still
  has a branch to get values back from.
- For the digests, what is left to do in a context is the rest of its own branch followed by what is
  left in its parent (`Left`). The invariant `EInv` says that the ends of the ways through the
  profile are, at every step of the walk, the ends of the walkers that stand in some context with
  one of its values and with what is left there (`Walking`). There is a lemma per action: an
  instruction moves the walkers of the top together, an "or" sends them into its profiles, and the
  end of a branch joins them with those of the parent, which has the same left to do. At the end of
  the root nothing is left (`Computed`), and the second loop keeps the set of digests
  (`Uniquing`). That the first context has a value, so that `values[0]` exists, comes from `IInv`.
- `After` is a recursive function: `AfterEquation` proves its equation, from the existence and
  uniqueness of its initial parts, and `LeadsToTheEnd` that where walkers end does not depend on
  `Longest`. Both are inductions over numbers, which `NatInductive` states for a set.

`BootPolicyProofs` proves `RunNeverPanics` and `JoinIsExact` for load sequences of any breadth and
depth, any event log, databases and updates, and any constants `Sigs`, `VendorCert`, `IsShim` and
`Trusts`; it assumes that what follows a load event is a sequence of load events, and so is what the
caller asks for. Neither property is inductive. That a branch is not extended after it was branched
depends on who holds it: `SBInv` says that branches come before their sub-branches (`IsTree`); that
no branch in the queue has sub-branches, and none is handed to two load events (`Queued`); and that
while branches are being branched, neither they nor the new ones are in the queue (`Forked`). That
no profiles are added to a branch without a profile needs that only branches that could boot have
been branched (`BranchedBoot`), and that joining changes a branch only after all those that come
later. For the join, `subProfiles` has the profiles of the sub-branches seen so far that can boot
(`LiveProfiles`), and a branch that was joined does not change when earlier ones are (`JoinedKept`).
Measurements of every kind are one case, `Measures`: they never add sub-branches. TLC checked
`SBInv` on the instance of `boot_policy` first.

`CryptProofs` is about two modules for `crypt.go`, which do not share state:

- For `Luks2` it proves `RecoveryKeysAreSafe` and `ChangesReplaceTheKey` for any number of keyslots.
  The invariant adds that no other keyslot than 0 ever holds a sealed key, that keyslot 0 is free
  only before the first initialization or in a gap, and that in a gap it holds the exposed recovery
  key or nothing; so the first free keyslot is 0 exactly when the new key is recorded as exposed
  (`FirstFreeIsZero`), and removing keyslot 0 hits no other recovery key. `Luks2TypeCorrect` is the
  type invariant.
- For `KeyPipe` it proves `OutputIsForwarded` for any amount of output, also for children that exit
  early. The invariant adds that a goroutine that is done has left nothing in the pipe and that its
  child has exited. `KeyPipeTypeCorrect` is the type invariant.

In `PolicyOrProofs` and `PolicySessionProofs`, `USE Zenon` makes Zenon the prover of the leaves
after it; leaves with arithmetic cite SMT.

Only model-checked, with TLC:

- liveness, which the provers do not handle: `CallsReturn`, `NoChildLeftBlocked`, `CallReturns`;
- `ValuesAreTheMeaning`, which compares with the recursive `Meaning`: its proof would be an
  induction over profiles, and its module has RECURSIVE operators. What it adds to `DigestsExact` is
  the order of the combinations;
- `EveryBootPermitted`, `NothingElsePermitted` and `RefusedExactly`, which compare with the
  recursive reference for boots. `JoinIsExact` is the part of them that is about the branches of
  PCR 7 alone.

Every other property of a passing run is proved, `StacksAligned` and `DigestsExact` for
`PCRProfile` on its own.

## Not modelled

- Serialization of key data, the anti-forensic splitter, recovery key formatting: conversions
  without state.
- Decoding of PE files, PKCS7 signatures, certificates, EFI variables and event logs, beyond which
  bytes are hashed and which signer is trusted; `sbkeysync` itself.
- Parsing, fetching and verifying EK certificates: they succeed or fail in `Provisioning`.
- `MeasureSnapSystemEpochToTPM` and `MeasureSnapModelToTPM`: one TPM command per PCR bank.
- `internal/`, `tools/`, test helpers and file wrappers.
- That `GetActivationDataFromKernel` may find data of an earlier activation of the device: the
  keyring of `Activation` keeps it, no property is about it.
- Two details of a seal: the deferred removal also hits a file that was at a path before the call,
  and a crash leaves the counter defined, so that the same call fails until it is removed.
