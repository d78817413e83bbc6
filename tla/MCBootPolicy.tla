---------------------------- MODULE MCBootPolicy ----------------------------
(***************************************************************************)
(* Images, databases, updates and event logs for BootPolicy, and what the  *)
(* profiles should permit: a reference that boots along one path, with     *)
(* firmware and shim that measure as they go.                              *)
(***************************************************************************)
EXTENDS BootPolicy, MCPCRProfile, SequencesExt, FiniteSetsExt

Signed(s, shim, certs, size, sections, table) ==
  [sigs |-> s, shim |-> shim, certs |-> certs,
   file |-> [size |-> size, headers |-> 4, checksum |-> 1, entry |-> 2, certEntry |-> table > 0,
             sections |-> sections, certTable |-> table]]
Section(offset, size) == [offset |-> offset, size |-> size]

\* The images.  "plain" is not signed, and the certificate table of "cut" is not all there.
Images ==
  [shim   |-> Signed(<<"msSigner">>, TRUE, <<"can">>, 9, <<Section(6, 1), Section(4, 2), Section(7, 0)>>, 2),
   shim2  |-> Signed(<<"oem", "msSigner">>, TRUE, <<>>, 8, <<Section(4, 3)>>, 1),
   grub   |-> Signed(<<"canSigner">>, FALSE, <<>>, 7, <<Section(4, 1), Section(5, 1)>>, 1),
   kernel |-> Signed(<<"canSigner">>, FALSE, <<>>, 6, <<Section(4, 1)>>, 1),
   tool   |-> Signed(<<"oem">>, FALSE, <<>>, 5, <<>>, 1),
   plain  |-> Signed(<<>>, FALSE, <<>>, 6, <<Section(4, 1)>>, 0),
   cut    |-> Signed(<<"canSigner">>, FALSE, <<>>, 6, <<Section(4, 1)>>, 3)]

MCSigs(i) == Images[i].sigs
MCVendorCert(i) == Images[i].certs
MCIsShim(i) == Images[i].shim
MCLayout(i) == Images[i].file
MCTrusts(ca, s) == ca = s \/ <<ca, s>> \in {<<"ms", "msSigner">>, <<"can", "canSigner">>}
-----------------------------------------------------------------------------
(* Databases, updates and load sequences                                   *)

Entry(o, d) == [owner |-> o, data |-> d]
X509(sigs) == [type |-> "x509", sigs |-> sigs]
Hash(sigs) == [type |-> "sha256", sigs |-> sigs]

Dbs == {<<X509(<<Entry("m", "ms")>>)>>,
        <<Hash(<<Entry("m", "oem")>>), X509(<<Entry("o", "oem"), Entry("m", "ms")>>)>>}

NewKey(k, db, lists) == [keystore |-> k, db |-> db, lists |-> lists]
AddOem == NewKey("ks1", "db", <<X509(<<Entry("o", "oem")>>)>>)
AddMsAgain == NewKey("ks2", "db", <<X509(<<Entry("n", "ms")>>), X509(<<Entry("n", "can")>>)>>)
Forbid == NewKey("ks1", "dbx", <<Hash(<<Entry("m", "bad")>>)>>)
Pending == {[keystores |-> <<>>, newKeys |-> <<>>],
            [keystores |-> <<"ks1">>, newKeys |-> <<AddOem>>],
            [keystores |-> <<"ks1">>, newKeys |-> <<Forbid, AddOem>>],
            [keystores |-> <<"ks1", "ks2">>, newKeys |-> <<AddMsAgain, AddOem>>]}

Event(source, image, next) == [source |-> source, image |-> image, next |-> next]
Kernel == Event("Shim", "kernel", <<>>)
Grub(next) == Event("Shim", "grub", next)
Shim(next) == Event("Firmware", "shim", next)
Shim2(source, next) == Event(source, "shim2", next)
Tool(source) == Event(source, "tool", <<>>)
LoadSequences ==
  {<<Shim(<<Grub(<<Kernel>>)>>)>>,
   <<Shim(<<Grub(<<Kernel>>), Kernel>>)>>,
   <<Shim(<<Grub(<<Kernel>>)>>), Shim2("Firmware", <<Kernel>>)>>,
   <<Shim(<<Tool("Shim"), Shim2("Shim", <<Kernel, Tool("Shim")>>)>>)>>,
   <<Tool("Firmware"), Shim(<<Grub(<<Kernel, Tool("Firmware"), Tool("Shim")>>)>>)>>,
   <<Tool("Firmware")>>,
   <<Tool("Firmware"), Event("Firmware", "grub", <<Tool("Firmware"), Shim(<<Kernel>>)>>)>>,
   <<Shim(<<Grub(<<Shim(<<Kernel>>), Kernel>>)>>)>>,
   <<Shim2("Firmware", <<Tool("Shim")>>), Shim(<<Tool("Shim"), Kernel>>)>>,
   <<>>}
BadLoadSequences ==
  {<<Kernel>>, <<Shim(<<Event("Shim", "plain", <<>>)>>)>>, <<Shim(<<Event("Shim", "cut", <<>>)>>)>>,
   <<Tool("Firmware"), Event("Firmware", "kernel", <<Kernel>>)>>}

RECURSIVE PathsOf(_)

\* The paths through load sequences, and the events on them.
PathsOf(events) ==
  IF events = <<>> THEN {<<>>}
  ELSE UNION {{<<e>> \o p : p \in PathsOf(e.next)} : e \in ToSet(events)}

MCLoadEvents ==
  UNION {UNION {ToSet(p) : p \in PathsOf(loads)} : loads \in LoadSequences \cup BadLoadSequences}
-----------------------------------------------------------------------------
(* The machine                                                             *)

Entries(db) == DecodeSecureBootDb(db)

\* The index of the certificate that verifies an image, by the first of its
\* signatures that one does; 0 if there is none.
RefAuthority(sigs, cas) ==
  LET with(i) == {j \in DOMAIN cas : cas[j].type = "x509" /\ MCTrusts(cas[j].data, sigs[i])}
      good == {i \in DOMAIN sigs : with(i) # {}}
  IN IF good = {} THEN 0 ELSE Min(with(Min(good)))

\* A machine: the digests measured so far, those of them that are authorities
\* measured by firmware and by the shim that runs, and shim's certificates.
Measure(m, d) == [m EXCEPT !.pcr = Append(@, d)]
ByFirmware(m, sigs) ==
  LET n == RefAuthority(sigs, m.db)
      d == <<"authority", "db", m.db[n].owner, m.db[n].data>>
  IN IF n = 0 THEN [m EXCEPT !.ok = FALSE]
     ELSE IF d \in m.firmware THEN m ELSE [Measure(m, d) EXCEPT !.firmware = @ \cup {d}]
ByShim(m, sigs) ==
  LET cas == m.db \o m.shimDb
      n == RefAuthority(sigs, cas)
      d == <<"authority", IF n <= Len(m.db) THEN "db" ELSE "Shim", cas[n].data>>
  IN IF n = 0 THEN [m EXCEPT !.ok = FALSE]
     ELSE IF d \in m.shim THEN m ELSE [Measure(m, d) EXCEPT !.shim = @ \cup {d}]
Starts(m, image) ==
  IF Images[image].shim
  THEN [m EXCEPT !.shim = {}, !.shimDb = [c \in DOMAIN Images[image].certs |->
          [type |-> "x509", owner |-> "none", data |-> Images[image].certs[c]]]]
  ELSE m
Loads(m, e) ==
  IF ~ m.ok THEN m
  ELSE Starts(IF e.source = "Firmware" THEN ByFirmware(m, Images[e.image].sigs)
              ELSE ByShim(m, Images[e.image].sigs), e.image)

\* Secure boot configuration, separator and the drivers that firmware loads.
PowerOn(efivars, drivers) ==
  FoldLeft(ByFirmware,
    [pcr |-> << <<"config", "SecureBoot", 1>>, <<"config", "KEK", efivars["KEK"]>>,
                <<"config", "db", efivars["db"]>>, <<"config", "dbx", efivars["dbx"]>>, <<"sep">> >>,
     db |-> Entries(efivars["db"]), firmware |-> {}, shim |-> {}, shimDb |-> <<>>, ok |-> TRUE],
    drivers)

\* The log of a boot of image: what was measured to PCR 7 and to PCR 4.
LogEvent(pcr, type, name, d) ==
  [pcr |-> pcr, type |-> type, name |-> name, digest |-> d, index |-> 0, off |-> FALSE]
PCR7Log(measured) ==
  [n \in DOMAIN measured |->
    LogEvent(7, IF measured[n][1] = "sep" THEN "separator" ELSE measured[n][1],
             IF measured[n][1] = "sep" THEN "" ELSE measured[n][2], measured[n])]
SysPrep == LogEvent(4, "app", "", <<"sysprep">>)
RealLog(efivars, drivers, sysprep, image) ==
  LET before == PowerOn(efivars, drivers)
      after == ByFirmware(before, Images[image].sigs)
  IN PCR7Log(before.pcr) \o sysprep \o <<LogEvent(4, "separator", "", <<"sep">>)>>
       \o PCR7Log(SubSeq(after.pcr, Len(before.pcr) + 1, Len(after.pcr)))
       \o <<LogEvent(4, "app", "", <<"image", image>>)>>

Efivars(db) == [KEK |-> <<X509(<<Entry("m", "kek")>>)>>, db |-> db, dbx |-> <<>>]

Request(db, drivers, sysprep, pending, loads, log) ==
  [efivars |-> Efivars(db), drivers |-> drivers, sysprep |-> sysprep, log |-> log,
   keystores |-> pending.keystores, newKeys |-> pending.newKeys, loadSequences |-> loads,
   cmdlines |-> <<"a">>, models |-> <<"m">>]

\* The present boot: drivers that Microsoft or the OEM signed, if they are trusted.
Drivers(db) == {<<>>, << <<"msSigner">> >>} \cup
  {ds \in {<< <<"oem">>, <<"msSigner">> >>} : RefAuthority(<<"oem">>, Entries(db)) # 0}

GoodRequests ==
  {Request(b.db, b.drivers, b.sysprep, pending, loads, RealLog(Efivars(b.db), b.drivers, b.sysprep, "shim")) :
     b \in UNION {[db : {db}, drivers : Drivers(db), sysprep : {<<>>, <<SysPrep>>}] : db \in Dbs},
     pending \in Pending, loads \in LoadSequences}

\* Requests that are refused: bad load sequences, bad logs, bad arguments.
Plain(loads, log) ==
  Request(CHOOSE db \in Dbs : Len(db) = 1, <<>>, <<>>, CHOOSE p \in Pending : p.newKeys = <<AddOem>>, loads, log)
PlainLog == RealLog(Efivars(CHOOSE db \in Dbs : Len(db) = 1), <<>>, <<>>, "shim")
Chain == <<Shim(<<Grub(<<Kernel>>)>>)>>
BadLogs ==
  {Append(PlainLog, LogEvent(4, "returned", "", <<"returned">>)),
   Append(PlainLog, [LogEvent(7, "config", "SecureBoot", <<"config", "SecureBoot", 0>>) EXCEPT !.index = 9]),
   [PlainLog EXCEPT ![1].off = TRUE],
   Append(PlainLog, LogEvent(7, "authority", "MokSBState", <<"authority", "MokSBState">>)),
   Front(PlainLog), SelectSeq(PlainLog, LAMBDA e : e.type # "authority")}
BadRequests ==
  {Plain(loads, PlainLog) : loads \in BadLoadSequences} \cup {Plain(Chain, log) : log \in BadLogs}
    \cup {[Plain(Chain, PlainLog) EXCEPT !.cmdlines = <<>>], [Plain(Chain, PlainLog) EXCEPT !.models = <<>>],
          [Plain(Chain, PlainLog) EXCEPT !.models = <<"m", "nil">>]}
ModelRequests == {[Plain(Chain, PlainLog) EXCEPT !.models = <<"m", "n">>, !.cmdlines = <<"a", "b">>]}

MCRequests == GoodRequests \cup BadRequests \cup ModelRequests
-----------------------------------------------------------------------------
(* Properties                                                              *)

Paths == PathsOf(params.loadSequences)

\* The variables after sbkeysync has applied the first updates.
Updated(level, ignoreOwner) ==
  FoldLeft(LAMBDA v, k : [v EXCEPT ![k.db] = ComputeDbUpdate(@, k.lists, ignoreOwner)],
           params.efivars, SubSeq(params.newKeys, 1, level))
BootOf(path, level, ignoreOwner) ==
  FoldLeft(Loads, PowerOn(Updated(level, ignoreOwner), params.drivers), path)
Levels == 0 .. Len(params.newKeys)
Boots(path) == {b \in {BootOf(path, l, o) : l \in Levels, o \in BOOLEAN} : b.ok}

\* The digest of an image: all of the file but the checksum, the entry of the
\* certificate table and the table itself.
ImageDigest(i) ==
  LET f == Images[i].file
      hashed(b) == b # f.checksum /\ (f.certEntry => b # f.entry /\ b < f.size - f.certTable)
  IN <<i, SelectSeq([n \in 1 .. f.size |-> n - 1], hashed)>>

Extension(ds) == FoldLeft(MCExtended, MCZero, ds)
PCR4(path) ==
  Extension([n \in DOMAIN params.sysprep |-> params.sysprep[n].digest] \o << <<"sep">> >>
              \o [n \in DOMAIN path |-> ImageDigest(path[n].image)])
PCR12s == {Extension(<< <<"cmdline", c>>, epoch, <<"model", m>> >>) :
             c \in ToSet(params.cmdlines), m \in ToSet(params.models)}

(***************************************************************************)
(* A key that is sealed with the profile can be unsealed after every boot  *)
(* along a path of the load sequences that the databases authorize: with   *)
(* the current databases and after each pending update, with firmware that *)
(* does and that does not compare owners, with every command line and      *)
(* model (AddEFISecureBootPolicyProfile: "compatible with the current      *)
(* database contents and the database contents computed for each           *)
(* individual update").                                                    *)
(***************************************************************************)
EveryBootPermitted ==
  result = "ok" /\ stage = "done" =>
    \A path \in Paths : \A b \in Boots(path) : \A k \in PCR12s :
      [p \in {4, 7, 12} |-> CASE p = 4 -> PCR4(path) [] p = 7 -> Extension(b.pcr) [] p = 12 -> k]
        \in ToSet(digests)

(***************************************************************************)
(* The profile permits nothing else: every value of PCR 7 is that of a     *)
(* path which can be booted, every value of PCR 4 that of a path, every    *)
(* value of PCR 12 that of a command line with a model.  Branches that     *)
(* cannot boot are left out.                                               *)
(***************************************************************************)
NothingElsePermitted ==
  result = "ok" /\ stage = "done" =>
    LET secureBoots == UNION {{Extension(b.pcr) : b \in Boots(path)} : path \in Paths}
        codes == {PCR4(path) : path \in Paths}
    IN \A d \in ToSet(digests) : d[7] \in secureBoots /\ d[4] \in codes /\ d[12] \in PCR12s

\* The prefixes of the paths that end with a load by shim without a shim before.
LoadsWithoutShim(path) ==
  {n \in DOMAIN path : path[n].source = "Shim" /\ \A m \in 1 .. n - 1 : ~ Images[path[n - m].image].shim}

(***************************************************************************)
(* A profile is refused exactly if it should be: when the log is not that  *)
(* of a sane boot with secure boot, an image cannot be measured, shim      *)
(* loads an image before it was loaded itself, or "none of the sequences   *)
(* in the LoadSequences field of params can be authenticated by the        *)
(* current authorized signature database contents"; also if only some      *)
(* pending update would authorize one.                                     *)
(***************************************************************************)
RefusedExactly ==
  result # "none" /\ stage = "done" =>
    (result # "ok" <=>
       \/ params.log \in BadLogs
       \/ \E path \in Paths : \E n \in DOMAIN path : path[n].image \in {"plain", "cut"}
       \/ \E path \in Paths : \E n \in LoadsWithoutShim(path) :
            \E l \in Levels, o \in BOOLEAN : BootOf(SubSeq(path, 1, n - 1), l, o).ok
       \/ \A path \in Paths : ~ BootOf(path, 0, FALSE).ok
       \/ params.cmdlines = <<>> \/ params.models = <<>> \/ "nil" \in ToSet(params.models))
=============================================================================
