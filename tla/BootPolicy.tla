----------------------------- MODULE BootPolicy -----------------------------
(***************************************************************************)
(* The profile that a key is sealed with, from its parts to its digests:   *)
(* the secure boot policy (SecureBootPolicy), the boot manager's code      *)
(* (BootManagerPolicy), the kernel command lines (sdefistub_policy.go) and *)
(* the snap models (snapmodel_policy.go) are added to one profile, and its *)
(* PCR values are computed (PCRProfile).                                   *)
(*                                                                         *)
(* Values are computed for profiles that are given as well, with stage     *)
(* "given".                                                                *)
(***************************************************************************)
EXTENDS PCRProfile, SecureBootPolicy, BootManagerPolicy

CONSTANTS
  Requests  \* the arguments of the functions that add to the profile

ASSUME RequestsAssumption == \A r \in Requests : r.loadSequences \in Seq(LoadEvents)

VARIABLES
  stage  \* "given", "secureBoot", "bootManager", "stub", "model" or "done"

bpVars == <<stage, vars, sbVars, bmVars>>

kernelPCR == 12
epoch == <<"epoch", 0>>
NoRequest == [log |-> <<>>, loadSequences |-> <<>>, keystores |-> <<>>, newKeys |-> <<>>]

BPInit ==
  /\ SBInit /\ BMInit
  /\ \/ Init /\ stage = "given" /\ params = NoRequest
     \/ /\ stage = "secureBoot" /\ params \in Requests
        /\ profile = <<>> /\ tpm = FALSE /\ iter = <<>> /\ contexts = <<>>
        /\ phase = "generate" /\ pcrDigests = <<>> /\ digests = <<>> /\ result = "none"
  /\ bmParams = [log |-> params.log, loadSequences |-> params.loadSequences]

AddsSecureBoot == stage = "secureBoot" /\ SBNext /\ UNCHANGED <<stage, vars, bmVars>>

AddedSecureBoot ==
  /\ stage = "secureBoot" /\ sbPhase = "done" /\ stage' = "bootManager"
  /\ profile' = SecureBootProfile(Zero)
  /\ UNCHANGED <<tpm, iter, contexts, phase, pcrDigests, digests, result, sbVars, bmVars>>

AddsBootManager == stage = "bootManager" /\ BMNext(Zero) /\ UNCHANGED <<stage, vars, sbVars>>

AddedBootManager ==
  /\ stage = "bootManager" /\ bmPhase = "done" /\ stage' = "stub"
  /\ profile' = profile \o BootManagerProfile
  /\ UNCHANGED <<tpm, iter, contexts, phase, pcrDigests, digests, result, sbVars, bmVars>>

\* A function returned an error, and the caller gives up.
Fails ==
  /\ \/ stage = "secureBoot" /\ sbPhase = "error"
     \/ stage = "bootManager" /\ bmPhase = "error"
     \/ stage = "stub" /\ params.cmdlines = <<>>
     \/ stage = "model" /\ (params.models = <<>> \/ "nil" \in Range(params.models))
  /\ stage' = "done" /\ phase' = "done" /\ result' = "refused"
  /\ UNCHANGED <<profile, tpm, iter, contexts, pcrDigests, digests, sbVars, bmVars>>

\* A branch with one measurement for every digest.
OneOf(pcr, ds) == [d \in DOMAIN ds |-> << Extend(pcr, ds[d]) >>]

AddSystemdEFIStubProfile ==
  /\ stage = "stub" /\ params.cmdlines # <<>> /\ stage' = "model"
  /\ profile' = AddProfileOR(profile,
       OneOf(kernelPCR, [c \in DOMAIN params.cmdlines |-> <<"cmdline", params.cmdlines[c]>>]))
  /\ UNCHANGED <<tpm, iter, contexts, phase, pcrDigests, digests, result, sbVars, bmVars>>

\* computeSnapModelDigest
SnapModelDigest(model) == <<"model", model>>

\* AddSnapModelProfile, and then the values are computed.
AddSnapModelProfile ==
  /\ stage = "model" /\ params.models # <<>> /\ "nil" \notin Range(params.models)
  /\ stage' = "done" /\ phase' = "walk"
  /\ profile' = AddProfileOR(Append(profile, Extend(kernelPCR, epoch)),
       OneOf(kernelPCR, [m \in DOMAIN params.models |-> SnapModelDigest(params.models[m])]))
  /\ iter' = << profile' >> /\ contexts' = << [parent |-> 0, values |-> << << >> >>] >>
  /\ UNCHANGED <<tpm, pcrDigests, digests, result, sbVars, bmVars>>

ComputesValues == stage \in {"given", "done"} /\ Next /\ UNCHANGED <<stage, sbVars, bmVars>>

BPNext ==
  \/ AddsSecureBoot \/ AddedSecureBoot \/ AddsBootManager \/ AddedBootManager \/ Fails
  \/ AddSystemdEFIStubProfile \/ AddSnapModelProfile \/ ComputesValues

BPSpec == BPInit /\ [][BPNext]_bpVars
=============================================================================
