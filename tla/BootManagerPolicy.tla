-------------------------- MODULE BootManagerPolicy --------------------------
(***************************************************************************)
(* AddEFIBootManagerProfile (efibootmanager_policy.go): the PCR 4 values   *)
(* of the boots that a set of image load sequences permits, with the       *)
(* Authenticode digest of every image.                                     *)
(*                                                                         *)
(* A branch holds its instructions and the numbers of its sub-branches.    *)
(* Sub-branches are added to the profiles from the first branch to the     *)
(* last, by reference: what is added to one later is part of its parent.   *)
(***************************************************************************)
EXTENDS Naturals, Sequences, Functions, TLC, SequenceOps

CONSTANTS
  Layout(_)  \* the file of an image: its sizes, sections and certificate table

VARIABLES
  bmParams,    \* the event log and the load sequences
  bmPhase,     \* "start", "loads", "join", "done" or "error"
  bmBranches,  \* allBranches, the root first
  bmLoads,     \* the load events that are left, each with its branch
  bmJoin       \* the branch that is next given its sub-branches

bmVars == <<bmParams, bmPhase, bmBranches, bmLoads, bmJoin>>

codePCR == 4
Extends(d) == [op |-> "extend", pcr |-> codePCR, digest |-> d]
-----------------------------------------------------------------------------
(***************************************************************************)
(* computePeImageDigest.  A file is its size in bytes, the size of the     *)
(* headers, the positions of the checksum and of the certificate table's   *)
(* entry in them (NumberOfRvaAndSizes may leave it out), the sections and  *)
(* the size of the certificate table.  The digest is known by the          *)
(* positions of the bytes hashed.                                          *)
(***************************************************************************)
Bytes(from, to) == [n \in 1 .. (IF to > from THEN to - from ELSE 0) |-> from + n - 1]

HashedSections(f) ==
  SortSeq(SelectSeq(f.sections, LAMBDA s : s.size > 0), LAMBDA s, t : s.offset < t.offset)

SumOfBytesHashed(f) == FoldFunction(LAMBDA s, n : n + s.size, f.headers, f.sections)

CertSize(f) == IF f.certEntry THEN f.certTable ELSE 0

TooShort(f) == f.size > SumOfBytesHashed(f) /\ f.size < SumOfBytesHashed(f) + CertSize(f)

PeImageDigest(f) ==
  SelectSeq(Bytes(0, f.headers), LAMBDA b : b # f.checksum /\ (f.certEntry => b # f.entry))
    \o Concatenation([s \in DOMAIN HashedSections(f) |->
         Bytes(HashedSections(f)[s].offset, HashedSections(f)[s].offset + HashedSections(f)[s].size)])
    \o Bytes(SumOfBytesHashed(f), f.size - CertSize(f))

ComputePeImageDigest(image) == <<image, PeImageDigest(Layout(image))>>
-----------------------------------------------------------------------------
\* The log is replayed up to the separator.
Replayed ==
  LET code == SelectSeq(bmParams.log, LAMBDA e : e.pcr = codePCR)
      ends == {n \in DOMAIN code : code[n].type = "separator"}
      last == IF ends = {} THEN Len(code) ELSE CHOOSE n \in ends : \A m \in ends : n <= m
  IN [n \in 1 .. last |-> Extends(code[n].digest)]

\* branch, for the events that follow in a branch: one event goes on in the same.
Children(store, b, events) ==
  IF Len(events) = 1 THEN store
  ELSE [store EXCEPT ![b].branches = @ \o [k \in DOMAIN events |-> Len(store) + k]]
         \o [k \in DOMAIN events |-> [profile |-> <<>>, branches |-> <<>>]]

Following(store, b, events) ==
  [k \in DOMAIN events |->
    [event |-> events[k], branch |-> IF Len(events) = 1 THEN b ELSE Len(store) + k]]

BMStart(zero) ==
  /\ bmPhase = "start" /\ bmPhase' = "loads"
  /\ LET root == <<[profile |-> <<[op |-> "value", pcr |-> codePCR, digest |-> zero]>> \o Replayed,
                    branches |-> <<>>]>>
     IN /\ bmBranches' = Children(root, 1, bmParams.loadSequences)
        /\ bmLoads' = Following(root, 1, bmParams.loadSequences)
  /\ UNCHANGED <<bmParams, bmJoin>>

BMLoad ==
  /\ bmPhase = "loads" /\ bmLoads # <<>>
  /\ LET e == Head(bmLoads)
         store == [bmBranches EXCEPT
                     ![e.branch].profile = Append(@, Extends(ComputePeImageDigest(e.event.image)))]
     IN IF TooShort(Layout(e.event.image))
        THEN bmPhase' = "error" /\ UNCHANGED <<bmBranches, bmLoads>>
        ELSE /\ bmBranches' = Children(store, e.branch, e.event.next)
             /\ bmLoads' = Tail(bmLoads) \o Following(store, e.branch, e.event.next)
             /\ UNCHANGED bmPhase
  /\ UNCHANGED <<bmParams, bmJoin>>

BMStartJoin ==
  /\ bmPhase = "loads" /\ bmLoads = <<>>
  /\ bmPhase' = "join" /\ bmJoin' = 1
  /\ UNCHANGED <<bmParams, bmBranches, bmLoads>>

BMJoin ==
  /\ bmPhase = "join" /\ bmJoin <= Len(bmBranches)
  /\ bmBranches' = IF bmBranches[bmJoin].branches = <<>> THEN bmBranches
                   ELSE [bmBranches EXCEPT ![bmJoin].profile =
                           Append(@, [op |-> "or", profiles |-> bmBranches[bmJoin].branches])]
  /\ bmJoin' = bmJoin + 1
  /\ UNCHANGED <<bmParams, bmPhase, bmLoads>>

BMFinish ==
  /\ bmPhase = "join" /\ bmJoin > Len(bmBranches)
  /\ bmPhase' = "done"
  /\ UNCHANGED <<bmParams, bmBranches, bmLoads, bmJoin>>

\* The profile of a branch, with its sub-branches in the place of their numbers.
BranchProfile[b \in Nat] ==
  [i \in DOMAIN bmBranches[b].profile |->
    IF bmBranches[b].profile[i].op = "or"
    THEN [op |-> "or",
          profiles |-> [s \in DOMAIN bmBranches[b].branches |-> BranchProfile[bmBranches[b].branches[s]]]]
    ELSE bmBranches[b].profile[i]]

BootManagerProfile == BranchProfile[1]

BMInit == bmPhase = "start" /\ bmBranches = <<>> /\ bmLoads = <<>> /\ bmJoin = 0

BMNext(zero) == BMStart(zero) \/ BMLoad \/ BMStartJoin \/ BMJoin \/ BMFinish
=============================================================================
