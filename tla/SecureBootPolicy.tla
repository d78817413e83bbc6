-------------------------- MODULE SecureBootPolicy --------------------------
(***************************************************************************)
(* AddEFISecureBootPolicyProfile (secureboot_policy.go): the PCR 7 values  *)
(* of the boots that a set of image load sequences and of pending          *)
(* signature database updates permit.                                      *)
(*                                                                         *)
(* run keeps a branch of the profile for every database level and every    *)
(* choice of the next image, applies the load events breadth first, and    *)
(* joins the branches afterwards, from the last to the first, leaving out  *)
(* those that cannot boot.  It runs twice, for firmware that does and does *)
(* not compare the owners of signatures.                                   *)
(*                                                                         *)
(* Every round of a loop of run is a step: an event of the log for a root, *)
(* a branch for an event, a sub-branch that is joined.                     *)
(*                                                                         *)
(* Digests are known by what was measured.  A load event is a record of    *)
(* its source, image and the sequence of load events that may follow; a    *)
(* database is a sequence of signature lists.                              *)
(***************************************************************************)
EXTENDS Naturals, Sequences, Functions, SequenceOps

CONSTANTS
  LoadEvents,     \* the load events of the load sequences
  Sigs(_),        \* the signers of an image, in the order of its signatures
  VendorCert(_),  \* the certificates in .vendor_cert: none or one
  IsShim(_),      \* whether an image has that section
  Trusts(_, _)    \* whether a CA certificate directly verifies a signer

ASSUME LoadEventsAssumption == \A e \in LoadEvents : e.next \in Seq(LoadEvents)

VARIABLES
  params,          \* the event log, load sequences, EFI variables and keystores
  sbPhase,         \* "start", "preOS", "loads", "join", "done", "error" or "panic"
  quirk,           \* the run: whether owners are ignored
  branches,        \* allBranches, in the order in which they are created
  preOSEvents,     \* the events of the log that are left for the last root
  loadEvents,      \* the load events that are left, each with its branches
  fork,            \* the load events that get new branches, see Follow
  join,            \* the number of branches that are still to be joined
  sub,             \* the number of sub-branches of the next one that were looked at
  subProfiles,     \* the profiles of those that can boot
  runs             \* the profiles of the runs

sbVars == <<params, sbPhase, quirk, branches, preOSEvents, loadEvents, fork, join, sub, subProfiles, runs>>

secureBootPCR == 7
bootManagerCodePCR == 4

Extend(pcr, d) == [op |-> "extend", pcr |-> pcr, digest |-> d]
AddProfileOR(p, ps) == Append(p, [op |-> "or", profiles |-> ps])
-----------------------------------------------------------------------------
(* The signature databases and their updates                               *)

\* The signatures of a database, with the type of their list (decodeSecureBootDb).
DecodeSecureBootDb(db) ==
  Concatenation([l \in DOMAIN db |->
    [s \in DOMAIN db[l].sigs |->
      [type |-> db[l].type, owner |-> db[l].sigs[s].owner, data |-> db[l].sigs[s].data]]])

\* computeDbUpdate: the update's signatures that are not in the database yet are
\* appended, in the lists they came in.
ComputeDbUpdate(orig, update, ignoreOwner) ==
  LET isNewSig(type, sig) ==
        \A s \in Range(DecodeSecureBootDb(orig)) :
          s.type = type /\ s.data = sig.data => ~ ignoreOwner /\ s.owner # sig.owner
      filtered == [l \in DOMAIN update |->
        [update[l] EXCEPT !.sigs = SelectSeq(@, LAMBDA sig : isNewSig(update[l].type, sig))]]
  IN orig \o SelectSeq(filtered, LAMBDA l : l.sigs # <<>>)

\* buildSignatureDbUpdateList: sbkeysync lists the files with new keys, and each is
\* taken once for every keystore.  Relative to a keystore that does not hold it,
\* its directory is the name of no database.
BuildSignatureDbUpdateList(keystores, newKeys) ==
  Concatenation([n \in DOMAIN newKeys |->
    [k \in DOMAIN keystores |->
      [db |-> IF newKeys[n].keystore = keystores[k] THEN newKeys[n].db ELSE "..",
       lists |-> newKeys[n].lists]]])

SigDbUpdates == BuildSignatureDbUpdateList(params.keystores, params.newKeys)

\* processSignatureDbMeasurementEvent: the variable with its updates applied in turn.
UpdatedDb(name, updates) ==
  LET db[n \in 0 .. Len(updates)] ==
        IF n = 0 THEN params.efivars[name]
        ELSE IF updates[n].db = name THEN ComputeDbUpdate(db[n - 1], updates[n].lists, quirk)
        ELSE db[n - 1]
  IN db[Len(updates)]
-----------------------------------------------------------------------------
(* The event log                                                           *)

Insane(e) ==
  \/ e.pcr = bootManagerCodePCR /\ e.type = "returned"
  \/ e.pcr = secureBootPCR /\ e.type = "config" /\ e.name = "SecureBoot" /\ (e.index > 0 \/ e.off)
  \/ e.pcr = secureBootPCR /\ e.type = "authority" /\ e.name = "MokSBState"

Separators == {n \in DOMAIN params.log :
                 params.log[n].type = "separator" /\ params.log[n].pcr # secureBootPCR}
PreOS(n) == \A s \in Separators : n < s

\* identifyInitialOSLaunchVerificationEvent: the last verification event before the
\* first application that is started after the transition to OS-present.
OSApplications == {n \in DOMAIN params.log :
                     /\ params.log[n].pcr = bootManagerCodePCR /\ params.log[n].type = "app"
                     /\ ~ PreOS(n)}
Verifications == {n \in DOMAIN params.log :
                    /\ params.log[n].pcr = secureBootPCR /\ params.log[n].type = "authority"
                    /\ \A a \in OSApplications : n < a}
InitialOSVerificationEvents ==
  {n \in Verifications : OSApplications # {} /\ \A m \in Verifications : m <= n}
-----------------------------------------------------------------------------
(* A branch                                                                *)

NewBranch(level) ==
  [profile |-> <<>>, bootable |-> TRUE, subBranches |-> <<>>, dbUpdateLevel |-> level,
   uefiDb |-> <<>>, shim |-> FALSE, shimDb |-> <<>>,
   firmwareVerificationEvents |-> {}, shimVerificationEvents |-> {}]

\* Mutant: the events that shim has measured are forgotten.
MutSubBranch(b) ==
  [b EXCEPT !.profile = <<>>, !.bootable = TRUE, !.subBranches = <<>>, !.shimVerificationEvents = {}]

\* branch: a new profile with a copy of the context.
SubBranch(b) == [b EXCEPT !.profile = <<>>, !.bootable = TRUE, !.subBranches = <<>>]

ExtendMeasurement(b, d) == [b EXCEPT !.profile = Append(@, Extend(secureBootPCR, d))]

ExtendVerificationMeasurement(b, d, source) ==
  IF source = "Firmware"
  THEN [ExtendMeasurement(b, d) EXCEPT !.firmwareVerificationEvents = @ \cup {d}]
  ELSE [ExtendMeasurement(b, d) EXCEPT !.shimVerificationEvents = @ \cup {d}]

HasVerificationEventBeenMeasuredBy(b, d, source) ==
  d \in IF source = "Firmware" THEN b.firmwareVerificationEvents ELSE b.shimVerificationEvents

IsSignatureDbMeasurementEvent(e) ==
  e.pcr = secureBootPCR /\ e.type = "config" /\ e.name \in DOMAIN params.efivars
IsVerificationEvent(e) == e.pcr = secureBootPCR /\ e.type = "authority"

\* computeAndExtendVariableMeasurement
ExtendVariableMeasurement(b, name, db) == ExtendMeasurement(b, <<"config", name, db>>)

\* processPreOSEvents, for one event: KEK, db and dbx are measured with the updates.
PreOSEvent(b, e, updates) ==
  CASE IsSignatureDbMeasurementEvent(e) ->
         LET db == UpdatedDb(e.name, updates)
             measured == ExtendVariableMeasurement(b, e.name, db)
         IN IF e.name = "db" THEN [measured EXCEPT !.uefiDb = DecodeSecureBootDb(db)] ELSE measured
    [] IsVerificationEvent(e) -> ExtendVerificationMeasurement(b, e.digest, "Firmware")
    [] e.pcr = secureBootPCR /\ ~ IsSignatureDbMeasurementEvent(e) /\ ~ IsVerificationEvent(e) ->
         ExtendMeasurement(b, e.digest)
    [] OTHER -> b

\* The events before the initial OS verification event, and that event too if it
\* was first recorded for a driver or a system preparation application.
PreOSEvents(initial) == SubSeq(params.log, 1, IF PreOS(initial) THEN initial ELSE initial - 1)

\* The certificates an image is verified with: shim's own come after the firmware's.
From(name, sigs) == [s \in DOMAIN sigs |-> [source |-> name, sig |-> sigs[s]]]
CAs(b, source) ==
  From("db", b.uefiDb) \o (IF source = "Shim" THEN From("Shim", b.shimDb) ELSE <<>>)

\* The signatures in an outer loop, the certificates in an inner one.
Authorities(sigs, cas) ==
  {p \in (DOMAIN sigs) \X (DOMAIN cas) :
     cas[p[2]].sig.type = "x509" /\ Trusts(cas[p[2]].sig.data, sigs[p[1]])}
FirstAuthority(sigs, cas) ==
  cas[(CHOOSE p \in Authorities(sigs, cas) :
         \A q \in Authorities(sigs, cas) : p[1] < q[1] \/ (p[1] = q[1] /\ p[2] <= q[2]))[2]]

\* Firmware measures the owner of the signature, shim does not.
AuthorityDigest(a, source) ==
  IF source = "Firmware" THEN <<"authority", a.source, a.sig.owner, a.sig.data>>
                         ELSE <<"authority", a.source, a.sig.data>>

\* Mutant: an image that no certificate verifies is not measured.
MutUnbootable(b) == b

\* The profile of the branch is cleared.
Unbootable(b) == [b EXCEPT !.bootable = FALSE]

\* computeAndExtendVerificationMeasurement
Verify(b, sigs, source) ==
  IF ~ b.bootable THEN b
  ELSE IF Authorities(sigs, CAs(b, source)) = {} THEN Unbootable(b)
  ELSE LET d == AuthorityDigest(FirstAuthority(sigs, CAs(b, source)), source)
       IN IF HasVerificationEventBeenMeasuredBy(b, d, source) THEN b
          ELSE ExtendVerificationMeasurement(b, d, source)

\* processShimExecutableLaunch
LaunchShim(b, certs) ==
  [b EXCEPT !.shim = TRUE, !.shimVerificationEvents = {},
            !.shimDb = [c \in DOMAIN certs |-> [type |-> "x509", owner |-> "none", data |-> certs[c]]]]

\* processOSLoadEvent, for one branch
Load(b, event) ==
  LET verified == Verify(b, Sigs(event.image), event.source)
  IN IF IsShim(event.image) THEN LaunchShim(verified, VendorCert(event.image)) ELSE verified
-----------------------------------------------------------------------------
(* run                                                                     *)

Fail ==
  /\ sbPhase' = "error"
  /\ UNCHANGED <<params, quirk, branches, preOSEvents, loadEvents, fork, join, sub, subProfiles, runs>>

\* AddEFISecureBootPolicyProfile checks the log first.
Start ==
  /\ sbPhase = "start"
  /\ IF (\E n \in DOMAIN params.log : Insane(params.log[n])) \/ InitialOSVerificationEvents = {}
     THEN Fail
     ELSE /\ sbPhase' = "preOS"
          /\ UNCHANGED <<params, quirk, branches, preOSEvents, loadEvents, fork, join, sub, subProfiles, runs>>

Roots == 1 .. Len(SigDbUpdates) + 1

\* The root of the next database level.
AddRoot ==
  /\ sbPhase = "preOS" /\ preOSEvents = <<>> /\ Len(branches) <= Len(SigDbUpdates)
  /\ branches' = Append(branches, NewBranch(Len(branches)))
  /\ preOSEvents' = PreOSEvents(CHOOSE n \in InitialOSVerificationEvents : TRUE)
  /\ UNCHANGED <<params, sbPhase, quirk, loadEvents, fork, join, sub, subProfiles, runs>>

\* processPreOSEvents, for the root that was added last.
ProcessPreOSEvent ==
  /\ sbPhase = "preOS" /\ preOSEvents # <<>>
  /\ branches' = [branches EXCEPT ![Len(branches)] =
       PreOSEvent(@, Head(preOSEvents), SubSeq(SigDbUpdates, 1, @.dbUpdateLevel))]
  /\ preOSEvents' = Tail(preOSEvents)
  /\ UNCHANGED <<params, sbPhase, quirk, loadEvents, fork, join, sub, subProfiles, runs>>

\* No load events wait for new branches.
NoFork == [events |-> <<>>, of |-> <<>>, left |-> <<>>, branches |-> <<>>]

(***************************************************************************)
(* What follows in the branches ids: a single load event goes on in them,  *)
(* after those of queue.  For every other number each event gets           *)
(* sub-branches of its own, one at a time: the events without, the         *)
(* branches, those left for the first of the events, and its sub-branches. *)
(***************************************************************************)
Follow(queue, ids, next) ==
  IF Len(next) = 1
  THEN loadEvents' = Append(queue, [event |-> next[1], branches |-> ids]) /\ fork' = NoFork
  ELSE loadEvents' = queue /\ fork' = [events |-> next, of |-> ids, left |-> ids, branches |-> <<>>]

\* allBranches are the roots so far.
StartLoads ==
  /\ sbPhase = "preOS" /\ preOSEvents = <<>> /\ Len(branches) > Len(SigDbUpdates)
  /\ sbPhase' = "loads"
  /\ Follow(<<>>, [r \in 1 .. Len(branches) |-> r], params.loadSequences)
  /\ UNCHANGED <<params, quirk, branches, preOSEvents, join, sub, subProfiles, runs>>

\* Mutant: branches that cannot boot are branched too.
MutBranches(b) == TRUE

\* sbLoadEventAndBranches.branch leaves out the branches that cannot boot; roots can.
Branches(b) == branches[b].bootable

MakeBranch ==
  /\ sbPhase = "loads" /\ fork.events # <<>> /\ fork.left # <<>>
  /\ LET b == Head(fork.left)
         c == Len(branches) + 1
     IN IF Branches(b)
        THEN /\ branches' = Append([branches EXCEPT ![b].subBranches = Append(@, c)], SubBranch(branches[b]))
             /\ fork' = [fork EXCEPT !.left = Tail(@), !.branches = Append(@, c)]
        ELSE fork' = [fork EXCEPT !.left = Tail(@)] /\ UNCHANGED branches
  /\ UNCHANGED <<params, sbPhase, quirk, preOSEvents, loadEvents, join, sub, subProfiles, runs>>

\* The load event with all of its new branches.  The queue of one depth is used up
\* before that of the next: one queue will do.
QueueLoadEvent ==
  /\ sbPhase = "loads" /\ fork.events # <<>> /\ fork.left = <<>>
  /\ loadEvents' = Append(loadEvents, [event |-> Head(fork.events), branches |-> fork.branches])
  /\ fork' = [fork EXCEPT !.events = Tail(@), !.left = fork.of, !.branches = <<>>]
  /\ UNCHANGED <<params, sbPhase, quirk, branches, preOSEvents, join, sub, subProfiles, runs>>

\* processOSLoadEvent: the branches after a load event.
Loaded(e) ==
  [b \in DOMAIN branches |-> IF b \in Range(e.branches) THEN Load(branches[b], e.event) ELSE branches[b]]

\* An image without signatures, or shim as the source before there was a shim.
CannotLoad(e) ==
  \/ Sigs(e.event.image) = <<>>
  \/ /\ e.event.source = "Shim"
     /\ \E b \in Range(e.branches) : branches[b].bootable /\ ~ branches[b].shim

\* extendMeasurement must not be called for a branch that has been branched.
ExtendsBranched(e) ==
  \E b \in DOMAIN branches :
    branches[b].subBranches # <<>> /\ Loaded(e)[b].profile # branches[b].profile

\* The load event at the head of the queue, and the events that may follow it.
ProcessOSLoadEvent ==
  /\ sbPhase = "loads" /\ fork.events = <<>> /\ loadEvents # <<>>
  /\ LET e == Head(loadEvents) IN
       IF CannotLoad(e) THEN Fail
       ELSE /\ sbPhase' = IF ExtendsBranched(e) THEN "panic" ELSE "loads"
            /\ branches' = Loaded(e)
            /\ Follow(Tail(loadEvents), e.branches, e.event.next)
            /\ UNCHANGED <<params, quirk, preOSEvents, join, sub, subProfiles, runs>>

StartJoin ==
  /\ sbPhase = "loads" /\ fork.events = <<>> /\ loadEvents = <<>>
  /\ sbPhase' = "join" /\ join' = Len(branches) /\ sub' = 0 /\ subProfiles' = <<>>
  /\ UNCHANGED <<params, quirk, branches, preOSEvents, loadEvents, fork, runs>>

\* Mutant: the profiles of sub-branches that cannot boot are kept.
MutKept(sb) == TRUE

Kept(sb) == sb.bootable

\* The next sub-branch of the branch that is joined, unless it cannot boot.
JoinSubBranch ==
  /\ sbPhase = "join" /\ join > 0 /\ sub < Len(branches[join].subBranches)
  /\ sub' = sub + 1
  /\ LET sb == branches[branches[join].subBranches[sub + 1]]
     IN subProfiles' = IF Kept(sb) THEN Append(subProfiles, sb.profile) ELSE subProfiles
  /\ UNCHANGED <<params, sbPhase, quirk, branches, preOSEvents, loadEvents, fork, join, runs>>

\* A branch gets the profiles of the sub-branches that can boot; if none can,
\* neither can it.  A branch without a profile must not get any.
Join ==
  /\ sbPhase = "join" /\ join > 0 /\ sub = Len(branches[join].subBranches)
  /\ join' = join - 1 /\ sub' = 0 /\ subProfiles' = <<>>
  /\ branches' = IF branches[join].subBranches = <<>> THEN branches
                 ELSE IF subProfiles = <<>> THEN [branches EXCEPT ![join] = Unbootable(@)]
                 ELSE [branches EXCEPT ![join].profile = AddProfileOR(@, subProfiles)]
  /\ sbPhase' = IF subProfiles # <<>> /\ ~ branches[join].bootable THEN "panic" ELSE "join"
  /\ UNCHANGED <<params, quirk, preOSEvents, loadEvents, fork, runs>>

\* Mutant: a level with pending updates is as good as the current one.
MutBootable == \E r \in Roots : branches[r].bootable

\* Some path is bootable with the current databases.
Bootable == \E r \in Roots : branches[r].bootable /\ branches[r].dbUpdateLevel = 0

Live(ids) == SelectSeq(ids, LAMBDA i : branches[i].bootable)

\* The end of a run, and the second run.
FinishRun ==
  /\ sbPhase = "join" /\ join = 0
  /\ IF ~ Bootable THEN Fail
     ELSE LET live == Live([r \in Roots |-> r]) IN
          /\ runs' = Append(runs, AddProfileOR(<<>>, [r \in DOMAIN live |-> branches[live[r]].profile]))
          /\ branches' = <<>> /\ quirk' = TRUE
          /\ sbPhase' = IF quirk THEN "done" ELSE "preOS"
          /\ UNCHANGED <<params, preOSEvents, loadEvents, fork, join, sub, subProfiles>>

\* The instructions that are added to the caller's profile.
SecureBootProfile(zero) ==
  AddProfileOR(<<[op |-> "value", pcr |-> secureBootPCR, digest |-> zero]>>, runs)

SBInit ==
  /\ sbPhase = "start" /\ quirk = FALSE
  /\ branches = <<>> /\ preOSEvents = <<>> /\ loadEvents = <<>> /\ fork = NoFork
  /\ join = 0 /\ sub = 0 /\ subProfiles = <<>> /\ runs = <<>>

SBNext ==
  \/ Start \/ AddRoot \/ ProcessPreOSEvent \/ StartLoads \/ MakeBranch \/ QueueLoadEvent
  \/ ProcessOSLoadEvent \/ StartJoin \/ JoinSubBranch \/ Join \/ FinishRun
-----------------------------------------------------------------------------
(***************************************************************************)
(* run never panics: extendMeasurement is not called for a branch that     *)
(* "has already been branched", and no profiles are added to a branch      *)
(* whose profile was cleared because it cannot boot.                       *)
(***************************************************************************)
NeverPanics == sbPhase # "panic"

(***************************************************************************)
(* The branches are joined bottom up: one that has been joined can boot if *)
(* and only if one of its sub-branches can, and ends in the profiles of    *)
(* exactly those, which do not change any more ("ensure our parent branch  *)
(* omits us too").                                                         *)
(***************************************************************************)
JoinedExactly ==
  sbPhase = "join" =>
    \A b \in join + 1 .. Len(branches) :
      LET live == {s \in Range(branches[b].subBranches) : branches[s].bootable}
          last == branches[b].profile[Len(branches[b].profile)]
      IN branches[b].subBranches # <<>> =>
           /\ branches[b].bootable <=> live # {}
           /\ branches[b].bootable =>
                last.op = "or" /\ Range(last.profiles) = {branches[s].profile : s \in live}
=============================================================================
