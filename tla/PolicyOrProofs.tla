--------------------------- MODULE PolicyOrProofs ---------------------------
(***************************************************************************)
(* Proofs about PolicyOr, for every arity and every list of digests: the   *)
(* tree that computePolicyORData builds is linked, and executing it        *)
(* succeeds exactly from the digests it was built for.  The inductive      *)
(* invariant IInv says where, while the tree is being built, the digest of *)
(* each node without a parent yet is queued (LevelsInv), that the nodes of *)
(* the first level hold the whole input and nothing else (LeavesInv), and  *)
(* that the climb always asserts a digest its node has as a condition      *)
(* (ExecuteInv).                                                           *)
(***************************************************************************)
EXTENDS PolicyOr, SequenceTheorems, WellFoundedInduction, TLAPS

\* The first Arity positions belong to the first node, and each later one to a node further.
LEMMA ParentNumber ==
  ASSUME NEW a \in Nat, NEW b \in Nat, b >= 1
  PROVE  /\ a \div b \in Nat
         /\ a \div b <= a
         /\ a < b => a \div b = 0
         /\ a >= b => a \div b = (a - b) \div b + 1
<1>1. a \div b \in Int /\ a % b \in 0 .. b - 1 /\ a = b * (a \div b) + (a % b)
  OBVIOUS
<1>2. a < b => a \div b = 0
  BY <1>1
<1>3. a \div b \in Nat /\ a \div b <= a
  BY <1>1
<1>4. ASSUME a >= b PROVE a \div b = (a - b) \div b + 1
  BY <1>1, <1>4
<1> QED BY <1>2, <1>3, <1>4

IsSeq(s) == s \in Seq(Range(s))

LEMMA SeqIsSeq ==
  ASSUME NEW S, NEW s \in Seq(S)
  PROVE  IsSeq(s)
BY DEF IsSeq, Range

LEMMA SeqDomain ==
  ASSUME NEW s, IsSeq(s)
  PROVE  Len(s) \in Nat /\ DOMAIN s = 1 .. Len(s)
BY DEF IsSeq

LEMMA AppendSeq ==
  ASSUME NEW s, IsSeq(s), NEW e
  PROVE  /\ IsSeq(Append(s, e)) /\ Len(Append(s, e)) = Len(s) + 1
         /\ \A i \in 1 .. Len(s) : Append(s, e)[i] = s[i]
         /\ Append(s, e)[Len(s) + 1] = e
<1> DEFINE S == Range(s) \cup {e}
<1>1. s \in Seq(S) /\ e \in S
  BY SeqMonotonic DEF IsSeq
<1> HIDE DEF S
<1>2. Append(s, e) \in Seq(S)
  BY <1>1
<1>3. IsSeq(Append(s, e))
  BY <1>2, SeqIsSeq, Zenon
<1> QED BY <1>1, <1>3, AppendProperties

LEMMA SubSeqSeq ==
  ASSUME NEW s, IsSeq(s), NEW m \in 1 .. Len(s) + 1, NEW n \in m - 1 .. Len(s)
  PROVE  /\ IsSeq(SubSeq(s, m, n)) /\ Len(SubSeq(s, m, n)) = n - m + 1
         /\ \A i \in 1 .. n - m + 1 : SubSeq(s, m, n)[i] = s[m + i - 1]
<1> DEFINE S == Range(s)
<1>1. s \in Seq(S) /\ Len(s) \in Nat
  BY DEF IsSeq
<1> HIDE DEF S
<1>2. SubSeq(s, m, n) \in Seq(S)
  BY <1>1
<1>3. IsSeq(SubSeq(s, m, n))
  BY <1>2, SeqIsSeq, Zenon
<1> QED BY <1>1, <1>3
\* What is left of a sequence without its first n elements.
LEMMA RestSeq ==
  ASSUME NEW s, IsSeq(s), NEW n \in 0 .. Len(s)
  PROVE  LET rest == SubSeq(s, n + 1, Len(s)) IN
         /\ IsSeq(rest) /\ Len(rest) = Len(s) - n
         /\ \A i \in 1 .. Len(s) - n : rest[i] = s[n + i]
<1>1. Len(s) \in Nat
  BY SeqDomain
<1>2. n + 1 \in 1 .. Len(s) + 1 /\ Len(s) \in (n + 1) - 1 .. Len(s)
  BY <1>1
<1>3. /\ IsSeq(SubSeq(s, n + 1, Len(s))) /\ Len(SubSeq(s, n + 1, Len(s))) = Len(s) - (n + 1) + 1
      /\ \A i \in 1 .. Len(s) - (n + 1) + 1 : SubSeq(s, n + 1, Len(s))[i] = s[n + 1 + i - 1]
  BY <1>2, SubSeqSeq
<1> QED BY <1>1, <1>3
-----------------------------------------------------------------------------
\* The digest of the session after TPM2_PolicyOR with the digests of the node at j.
DigestOf(nodes, j) == POr(ensureSufficientORDigests(nodes[j].digests))

\* The nodes are well formed.
NodesOK ==
  /\ IsSeq(data)
  /\ \A j \in 1 .. Len(data) :
       /\ data[j] = [next |-> data[j].next, digests |-> data[j].digests]
       /\ IsSeq(data[j].digests) /\ Len(data[j].digests) \in 1 .. Arity
       /\ data[j].next \in 0 .. Len(input)

\* The digest of node j is a condition of its parent, or is left to be one.
HasParent(j) ==
  /\ data[j].next > 0
  /\ \/ /\ j + data[j].next <= Len(data)
        /\ digestListContains(data[j + data[j].next].digests, DigestOf(data, j))
     \/ \E i \in 1 .. Len(digests) :
          /\ digests[i] = DigestOf(data, j)
          /\ j + data[j].next = Len(data) + 1 + ((i - 1) \div Arity)

\* The levels below curNode are linked; the nodes from it on have no parents yet.
LevelsInv ==
  phase = "build" =>
    /\ Len(digests) > 0 /\ Len(nextDigests) + Len(digests) <= Len(input)
    /\ Len(data) = curNode + Len(nextDigests)
    /\ \A j \in 1 .. curNode : HasParent(j)
    /\ \A j \in 1 .. Len(nextDigests) :
         data[curNode + j].next = 0 /\ nextDigests[j] = DigestOf(data, curNode + j)

\* The conditions of the policy are those of the first level.
FirstLevel == IF curNode = 0 THEN Len(data) ELSE data[1].next
LeavesInv ==
  /\ curNode > 0 => FirstLevel \in 1 .. curNode
  /\ \A c \in Range(input) :
       \/ \E j \in 1 .. FirstLevel : digestListContains(data[j].digests, c)
       \/ phase = "build" /\ curNode = 0 /\ digestListContains(digests, c)
  /\ \A j \in 1 .. FirstLevel : \A i \in 1 .. Len(data[j].digests) :
       digestListContains(input, data[j].digests[i])
  /\ phase = "build" /\ curNode = 0 => \A i \in 1 .. Len(digests) : digestListContains(input, digests[i])

\* The execution is at a node that has the session digest among its conditions.
ExecuteInv ==
  /\ phase # "build" => Len(data) > 0 /\ (curNode = 0 => Len(data) = 1) /\ trial = DigestOf(data, Len(data))
  /\ phase # "done" => result = "none"
  /\ phase = "climb" =>
       /\ index \in 0 .. Len(data) - 1
       /\ digestListContains(data[index + 1].digests, session)
       /\ digestListContains(input, query)

IInv ==
  /\ phase \in {"build", "execute", "climb", "done"}
  /\ result \in {"none", "ok", "not found", "invalid data"}
  /\ input \in Inputs /\ curNode \in 0 .. Len(data)
  /\ IsSeq(digests) /\ IsSeq(nextDigests)
  /\ NodesOK /\ LevelsInv /\ LeavesInv /\ ExecuteInv
  /\ TreeLinked /\ ExecutesExactlyTheInput
-----------------------------------------------------------------------------
\* A set of numbers that is not empty has a least element.
LEMMA LeastElement ==
  ASSUME NEW T \in SUBSET Nat, T # {}
  PROVE  \E i \in T : \A j \in T : i <= j
<1> DEFINE R == OpToRel(<, Nat)
<1>1. IsWellFoundedOn(R, Nat)
  BY NatLessThanWellFounded
<1>2. \A i, j \in Nat : i < j => <<i, j>> \in R
  BY SMT DEF OpToRel
<1> HIDE DEF R
<1>3. T \subseteq Nat
  OBVIOUS
<1>4. PICK i \in T : \A j \in T : ~ (<<j, i>> \in R)
  BY <1>1, <1>3, WFMin, Zenon
<1>5. \A j \in T : ~ (j < i)
  BY <1>2, <1>4, Zenon
<1> QED BY <1>5

LEMMA StateFacts ==
  ASSUME IInv
  PROVE  /\ phase \in {"build", "execute", "climb", "done"}
         /\ result \in {"none", "ok", "not found", "invalid data"}
         /\ input \in Inputs /\ curNode \in 0 .. Len(data)
         /\ IsSeq(digests) /\ IsSeq(nextDigests) /\ IsSeq(data)
BY DEF IInv, NodesOK

LEMMA ConstantFacts ==
  ASSUME IInv
  PROVE  /\ Arity \in Nat /\ Arity >= 1 /\ Arity >= 2
         /\ IsSeq(input) /\ Len(input) \in Nat /\ Len(input) > 0 /\ ~ digestListContains(input, Foreign)
<1>1. input \in Inputs
  BY DEF IInv
<1>2. IsSeq(input) /\ Len(input) > 0 /\ ~ digestListContains(input, Foreign)
  BY <1>1, InputsAssumption DEF IsSeq
<1> QED BY <1>2, ArityAssumption, SeqDomain

\* The node that an iteration adds.
LEMMA NewNodeFacts ==
  ASSUME IInv, phase = "build"
  PROVE  /\ Len(digests) \in Nat /\ NodeSize \in 1 .. Arity /\ NodeSize <= Len(digests)
         /\ NodeSize < Len(digests) => NodeSize = Arity
         /\ NodeSize = Len(digests) => Len(digests) <= Arity
         /\ NewNode = [next |-> 0, digests |-> NewNode.digests]
         /\ IsSeq(NewNode.digests) /\ Len(NewNode.digests) = NodeSize
         /\ \A i \in 1 .. NodeSize : NewNode.digests[i] = digests[i]
<1>1. Arity \in Nat /\ Arity >= 2 /\ IsSeq(digests) /\ Len(digests) \in Nat /\ Len(digests) > 0
  BY ArityAssumption, SeqDomain DEF IInv, LevelsInv
<1>2. /\ NodeSize \in 1 .. Arity /\ NodeSize <= Len(digests)
      /\ NodeSize < Len(digests) => NodeSize = Arity
      /\ NodeSize = Len(digests) => Len(digests) <= Arity
  BY <1>1 DEF NodeSize
<1>3. /\ IsSeq(SubSeq(digests, 1, NodeSize)) /\ Len(SubSeq(digests, 1, NodeSize)) = NodeSize
      /\ \A i \in 1 .. NodeSize : SubSeq(digests, 1, NodeSize)[i] = digests[i]
  <2>1. 1 \in 1 .. Len(digests) + 1 /\ NodeSize \in 1 - 1 .. Len(digests)
    BY <1>1, <1>2
  <2> HIDE DEF NodeSize
  <2>2. /\ IsSeq(SubSeq(digests, 1, NodeSize)) /\ Len(SubSeq(digests, 1, NodeSize)) = NodeSize - 1 + 1
        /\ \A i \in 1 .. NodeSize - 1 + 1 : SubSeq(digests, 1, NodeSize)[i] = digests[1 + i - 1]
    BY <1>1, <2>1, SubSeqSeq
  <2> QED BY <1>2, <2>2
<1> QED BY <1>1, <1>2, <1>3 DEF NewNode

Grown == Append(data, NewNode)

LEMMA GrownFacts ==
  ASSUME IInv, phase = "build"
  PROVE  /\ Len(data) \in Nat /\ Len(Grown) = Len(data) + 1
         /\ IsSeq(Grown) /\ DOMAIN Grown = 1 .. Len(data) + 1
         /\ \A j \in 1 .. Len(data) : Grown[j] = data[j]
         /\ Grown[Len(data) + 1] = NewNode
<1>1. IsSeq(data) /\ Len(data) \in Nat
  BY SeqDomain DEF IInv, NodesOK
<1> QED BY <1>1, AppendSeq, SeqDomain DEF Grown

LEMMA GrownNodesOK ==
  ASSUME IInv, phase = "build", NEW j \in 1 .. Len(data) + 1
  PROVE  /\ Grown[j] = [next |-> Grown[j].next, digests |-> Grown[j].digests]
         /\ IsSeq(Grown[j].digests) /\ Len(Grown[j].digests) \in 1 .. Arity
         /\ Grown[j].next \in 0 .. Len(input)
<1>1. CASE j = Len(data) + 1
  <2>1. Grown[j] = NewNode
    BY <1>1, GrownFacts
  <2>2. Len(input) \in Nat
    BY ConstantFacts
  <2> QED BY <2>1, <2>2, NewNodeFacts
<1>2. CASE j # Len(data) + 1
  <2>1. j \in 1 .. Len(data) /\ Grown[j] = data[j]
    BY <1>2, GrownFacts
  <2> QED BY <2>1 DEF IInv, NodesOK
<1> QED BY <1>1, <1>2

\* The new node takes its part of the digests, in the order of the nodes they stand for.
LEMMA ParentStep ==
  ASSUME IInv, phase = "build", NEW j \in 1 .. curNode
  PROVE  LET t == j + data[j].next IN
         /\ data[j].next \in Nat /\ data[j].next > 0
         /\ \/ t <= Len(data) + 1 /\ digestListContains(Grown[t].digests, DigestOf(data, j))
            \/ \E i \in 1 .. Len(digests) - Arity :
                 /\ NodeSize = Arity
                 /\ digests[Arity + i] = DigestOf(data, j)
                 /\ t = Len(data) + 2 + ((i - 1) \div Arity)
<1> DEFINE t == j + data[j].next
           D == DigestOf(data, j)
<1>0. j \in 1 .. Len(data) /\ Len(data) \in Nat /\ Arity \in Nat /\ Arity >= 2
  <2>1. Len(data) \in Nat /\ Arity \in Nat /\ Arity >= 2
    BY GrownFacts, ConstantFacts
  <2>2. curNode \in 0 .. Len(data)
    BY DEF IInv
  <2> QED BY <2>1, <2>2
<1>2. HasParent(j)
  BY DEF IInv, LevelsInv
<1>1. data[j].next \in Nat /\ data[j].next > 0
  <2>1. data[j].next \in 0 .. Len(input) /\ Len(input) \in Nat
    BY <1>0, ConstantFacts DEF IInv, NodesOK
  <2> QED BY <1>2, <2>1 DEF HasParent
<1> HIDE DEF D
<1>3. CASE t <= Len(data) /\ digestListContains(data[t].digests, D)
  <2>1. t \in 1 .. Len(data)
    BY <1>0, <1>1, <1>3
  <2> QED BY <1>0, <1>1, <1>3, <2>1, GrownFacts DEF D
<1>4. ASSUME NEW i \in 1 .. Len(digests), digests[i] = D, t = Len(data) + 1 + ((i - 1) \div Arity)
      PROVE  \/ t <= Len(data) + 1 /\ digestListContains(Grown[t].digests, D)
             \/ \E n \in 1 .. Len(digests) - Arity :
                  /\ NodeSize = Arity
                  /\ digests[Arity + n] = D
                  /\ t = Len(data) + 2 + ((n - 1) \div Arity)
  <2>0. i - 1 \in Nat /\ Len(digests) \in Nat
    BY NewNodeFacts
  <2>1. CASE i <= NodeSize
    <3>1. i - 1 < Arity
      BY <1>0, <2>0, <2>1, NewNodeFacts
    <3>2. (i - 1) \div Arity = 0
      BY <1>0, <2>0, <3>1, ConstantFacts, ParentNumber, Zenon
    <3>3. t = Len(data) + 1
      BY <1>0, <1>4, <3>2
    <3>4. Grown[t] = NewNode
      BY <3>3, GrownFacts
    <3>5. NewNode.digests[i] = D /\ i \in 1 .. Len(NewNode.digests)
      BY <1>4, <2>0, <2>1, NewNodeFacts
    <3> QED BY <1>0, <3>3, <3>4, <3>5 DEF digestListContains
  <2>2. CASE i > NodeSize
    <3>1. NodeSize = Arity /\ i > Arity
      BY <1>0, <2>0, <2>2, NewNodeFacts
    <3> DEFINE n == i - Arity
    <3>2. n \in 1 .. Len(digests) - Arity /\ Arity + n = i /\ n - 1 \in Nat
      BY <1>0, <2>0, <3>1
    <3>3. (i - 1) \div Arity = (n - 1) \div Arity + 1
      <4>1. i - 1 >= Arity /\ (i - 1) - Arity = n - 1
        BY <1>0, <2>0, <3>1
      <4>2. (i - 1) \div Arity = ((i - 1) - Arity) \div Arity + 1
        BY <2>0, <4>1, ConstantFacts, ParentNumber, Zenon
      <4> QED BY <4>1, <4>2
    <3> HIDE DEF n
    <3>4. (n - 1) \div Arity \in Nat
      BY <3>2, ConstantFacts, ParentNumber, Zenon
    <3>5. t = Len(data) + 2 + ((n - 1) \div Arity)
      <4> DEFINE q == (n - 1) \div Arity
      <4>1. q \in Nat /\ t = Len(data) + 1 + (q + 1)
        BY <1>4, <3>3, <3>4
      <4> HIDE DEF q
      <4>2. t = Len(data) + 2 + q
        BY <1>0, <4>1
      <4> QED BY <4>2 DEF q
    <3> QED BY <1>4, <3>1, <3>2, <3>5
  <2> QED BY <2>0, <2>1, <2>2, NewNodeFacts
<1> QED BY <1>1, <1>2, <1>3, <1>4 DEF HasParent, D
-----------------------------------------------------------------------------
LEMMA InitInv == Init => IInv
<1> SUFFICES ASSUME Init
             PROVE  IInv
  OBVIOUS
<1>1. IsSeq(input) /\ Len(input) \in Nat /\ Len(input) > 0 /\ DOMAIN input = 1 .. Len(input)
  BY InputsAssumption, SeqDomain DEF Init, IsSeq
<1>2. IsSeq(<<>>) /\ Len(<<>>) = 0
  BY DEF IsSeq, Range
<1>3. NodesOK
  BY <1>2 DEF Init, NodesOK
<1>4. LevelsInv
  BY <1>1, <1>2 DEF Init, LevelsInv
<1>5. LeavesInv
  BY <1>1, <1>2 DEF Init, LeavesInv, FirstLevel, Range, digestListContains
<1>6. ExecuteInv /\ TreeLinked /\ ExecutesExactlyTheInput
  BY DEF Init, ExecuteInv, TreeLinked, ExecutesExactlyTheInput
<1> QED BY <1>1, <1>2, <1>3, <1>4, <1>5, <1>6 DEF Init, IInv

\* Below, set and first-order reasoning is the rule; a leaf with arithmetic cites SMT.
USE Zenon

\* Above the first level, its nodes stay the same.
LEMMA LeavesStay ==
  ASSUME LeavesInv, curNode # 0, curNode' # 0, UNCHANGED input, FirstLevel' = FirstLevel,
         FirstLevel \in 1 .. curNode', \A j \in 1 .. FirstLevel : data'[j].digests = data[j].digests
  PROVE  LeavesInv'
BY DEF LeavesInv

\* The nodes of the first level hold the conditions that are no longer left.
LEMMA GrownLeaves ==
  ASSUME IInv, phase = "build", curNode = 0
  PROVE  /\ \A c \in Range(input) :
              \/ \E j \in 1 .. Len(data) + 1 : digestListContains(Grown[j].digests, c)
              \/ \E i \in NodeSize + 1 .. Len(digests) : digests[i] = c
         /\ \A j \in 1 .. Len(data) + 1 : \A i \in 1 .. Len(Grown[j].digests) :
              digestListContains(input, Grown[j].digests[i])
<1>1. LeavesInv /\ FirstLevel = Len(data)
  BY DEF IInv, FirstLevel
<1>2. Len(data) \in Nat /\ Len(digests) \in Nat /\ NodeSize \in Nat /\ NodeSize <= Len(digests)
  BY GrownFacts, NewNodeFacts, SMT
<1>3. ASSUME NEW c \in Range(input)
      PROVE  \/ \E j \in 1 .. Len(data) + 1 : digestListContains(Grown[j].digests, c)
             \/ \E i \in NodeSize + 1 .. Len(digests) : digests[i] = c
  <2>1. CASE \E j \in 1 .. Len(data) : digestListContains(data[j].digests, c)
    BY <1>2, <2>1, GrownFacts, SMT
  <2>2. ASSUME NEW i \in 1 .. Len(digests), digests[i] = c, i <= NodeSize
        PROVE  digestListContains(Grown[Len(data) + 1].digests, c)
    <3>1. i \in 1 .. NodeSize /\ Len(NewNode.digests) = NodeSize
      BY <1>2, <2>2, NewNodeFacts, SMT
    <3>2. NewNode.digests[i] = c
      BY <2>2, <3>1, NewNodeFacts
    <3>3. Grown[Len(data) + 1] = NewNode
      BY GrownFacts
    <3> QED BY <3>1, <3>2, <3>3 DEF digestListContains
  <2>3. ASSUME NEW i \in 1 .. Len(digests), digests[i] = c
        PROVE  i <= NodeSize \/ i \in NodeSize + 1 .. Len(digests)
    BY <1>2, SMT
  <2>4. Len(data) + 1 \in 1 .. Len(data) + 1
    BY <1>2, SMT
  <2>5. (\E j \in 1 .. Len(data) : digestListContains(data[j].digests, c)) \/ digestListContains(digests, c)
    BY <1>1 DEF LeavesInv
  <2> QED BY <2>1, <2>2, <2>3, <2>4, <2>5 DEF digestListContains
<1>4. ASSUME NEW j \in 1 .. Len(data) + 1, NEW i \in 1 .. Len(Grown[j].digests)
      PROVE  digestListContains(input, Grown[j].digests[i])
  <2>1. CASE j = Len(data) + 1
    <3>1. Grown[j].digests[i] = digests[i] /\ i \in 1 .. Len(digests)
      BY <1>2, <2>1, GrownFacts, NewNodeFacts, SMT
    <3> QED BY <1>1, <3>1 DEF LeavesInv
  <2>2. CASE j # Len(data) + 1
    <3>1. j \in 1 .. Len(data)
      BY <1>2, <2>2, SMT
    <3>2. Grown[j] = data[j]
      BY <3>1, GrownFacts
    <3> QED BY <1>1, <3>1, <3>2 DEF LeavesInv
  <2> QED BY <2>1, <2>2
<1> QED BY <1>3, <1>4

LEMMA BuildNodeStep ==
  ASSUME IInv, BuildNode
  PROVE  IInv'
<1>1. /\ phase = "build" /\ NodeSize < Len(digests) /\ data' = Grown
      /\ nextDigests' = Append(nextDigests, NodeDigest)
      /\ digests' = SubSeq(digests, NodeSize + 1, Len(digests))
      /\ UNCHANGED <<phase, input, curNode, result>>
  BY DEF BuildNode, Grown
<1>2. /\ NodeSize = Arity /\ Arity \in Nat /\ Arity >= 2 /\ Len(digests) \in Nat /\ Arity < Len(digests)
      /\ Len(data) \in Nat /\ Len(data') = Len(data) + 1 /\ curNode \in 0 .. Len(data)
      /\ Len(input) \in Nat
  BY <1>1, NewNodeFacts, GrownFacts, ConstantFacts DEF IInv
<1>3. /\ IsSeq(digests') /\ Len(digests') = Len(digests) - Arity
      /\ \A i \in 1 .. Len(digests) - Arity : digests'[i] = digests[Arity + i]
  <2>0. IsSeq(digests)
    BY StateFacts
  <2>1. Arity \in 0 .. Len(digests)
    BY <1>2, SMT
  <2> QED BY <1>1, <1>2, <2>0, <2>1, RestSeq
<1>4. /\ IsSeq(nextDigests') /\ Len(nextDigests) \in Nat /\ Len(nextDigests') = Len(nextDigests) + 1
      /\ \A j \in 1 .. Len(nextDigests) : nextDigests'[j] = nextDigests[j]
      /\ nextDigests'[Len(nextDigests) + 1] = DigestOf(Grown, Len(data) + 1)
  <2>1. NodeDigest = DigestOf(Grown, Len(data) + 1)
    BY <1>1, GrownFacts DEF NodeDigest, DigestOf
  <2>2. IsSeq(nextDigests) /\ Len(nextDigests) \in Nat
    BY StateFacts, SeqDomain
  <2> QED BY <1>1, <2>1, <2>2, AppendSeq, SMT
<1>5. NodesOK'
  BY <1>1, <1>2, GrownFacts, GrownNodesOK DEF NodesOK
<1>6. ASSUME NEW j \in 1 .. curNode
      PROVE  HasParent(j)'
  <2>1. j \in 1 .. Len(data) /\ data'[j] = data[j] /\ DigestOf(data', j) = DigestOf(data, j)
    BY <1>1, <1>2, GrownFacts, SMT DEF DigestOf
  <2> DEFINE t == j + data[j].next
  <2>2. data[j].next > 0
    BY <1>1, ParentStep
  <2>3. CASE t <= Len(data) + 1 /\ digestListContains(Grown[t].digests, DigestOf(data, j))
    BY <1>1, <1>2, <2>1, <2>2, <2>3 DEF HasParent
  <2>4. ASSUME NEW i \in 1 .. Len(digests) - Arity, digests[Arity + i] = DigestOf(data, j),
               t = Len(data) + 2 + ((i - 1) \div Arity)
        PROVE  HasParent(j)'
    <3>1. i \in 1 .. Len(digests') /\ digests'[i] = DigestOf(data', j)
      BY <1>3, <2>1, <2>4
    <3>2. t = Len(data') + 1 + ((i - 1) \div Arity)
      <4> DEFINE q == (i - 1) \div Arity
      <4>1. q \in Nat /\ t = Len(data) + 2 + q
        <5>1. i - 1 \in Nat
          BY <1>2, SMT
        <5> QED BY <2>4, <5>1, ConstantFacts, ParentNumber
      <4> HIDE DEF q
      <4>2. t = Len(data') + 1 + q
        BY <1>2, <4>1, SMT
      <4> QED BY <4>2 DEF q
    <3> QED BY <2>1, <2>2, <3>1, <3>2 DEF HasParent
  <2> QED BY <1>1, <2>3, <2>4, ParentStep
<1>7. LevelsInv'
  <2>1. /\ Len(nextDigests) + Len(digests) <= Len(input) /\ Len(data) = curNode + Len(nextDigests)
        /\ \A j \in 1 .. Len(nextDigests) :
             data[curNode + j].next = 0 /\ nextDigests[j] = DigestOf(data, curNode + j)
    BY <1>1 DEF IInv, LevelsInv
  <2>2. ASSUME NEW j \in 1 .. Len(nextDigests')
        PROVE  data'[curNode + j].next = 0 /\ nextDigests'[j] = DigestOf(data', curNode + j)
    <3>1. CASE j = Len(nextDigests) + 1
      <4>1. curNode + j = Len(data) + 1
        BY <1>2, <1>4, <2>1, <3>1, SMT
      <4> QED BY <1>1, <1>4, <3>1, <4>1, GrownFacts, NewNodeFacts, SMT
    <3>2. CASE j # Len(nextDigests) + 1
      <4>1. j \in 1 .. Len(nextDigests) /\ curNode + j \in 1 .. Len(data)
        BY <1>2, <1>4, <2>1, <3>2, SMT
      <4> QED BY <1>1, <1>4, <2>1, <4>1, GrownFacts DEF DigestOf
    <3> QED BY <3>1, <3>2
  <2>3. Len(nextDigests') + Len(digests') <= Len(input) /\ Len(digests') > 0 /\ Len(data') = curNode + Len(nextDigests')
    BY <1>2, <1>3, <1>4, <2>1, SMT
  <2> QED BY <1>1, <1>6, <2>2, <2>3 DEF LevelsInv
<1>8. LeavesInv'
  <2>1. LeavesInv
    BY DEF IInv
  <2>2. CASE curNode # 0
    <3>1. curNode > 0 /\ curNode \in Nat /\ 1 \in 1 .. Len(data)
      BY <1>2, <2>2, SMT
    <3>2. FirstLevel \in 1 .. curNode
      BY <2>1, <3>1 DEF LeavesInv
    <3>3. data'[1] = data[1] /\ FirstLevel' = FirstLevel
      BY <1>1, <2>2, <3>1, GrownFacts DEF FirstLevel
    <3>4. \A j \in 1 .. FirstLevel : data'[j] = data[j]
      <4>1. \A j \in 1 .. FirstLevel : j \in 1 .. Len(data)
        BY <1>2, <3>2, SMT
      <4> QED BY <1>1, <4>1, GrownFacts
    <3> HIDE DEF FirstLevel
    <3> QED BY <1>1, <2>1, <2>2, <3>2, <3>3, <3>4, LeavesStay
  <2>3. CASE curNode = 0
    <3>1. FirstLevel = Len(data) /\ FirstLevel' = Len(data) + 1
      BY <1>1, <1>2, <2>3 DEF FirstLevel
    <3>2. ASSUME NEW c \in Range(input)
          PROVE  (\E j \in 1 .. Len(data) + 1 : digestListContains(Grown[j].digests, c)) \/ digestListContains(digests', c)
      <4>1. ASSUME NEW i \in NodeSize + 1 .. Len(digests), digests[i] = c
            PROVE  digestListContains(digests', c)
        <5>1. i - Arity \in 1 .. Len(digests) - Arity /\ Arity + (i - Arity) = i
          BY <1>2, SMT
        <5> QED BY <1>3, <4>1, <5>1 DEF digestListContains
      <4> QED BY <1>1, <2>3, <4>1, GrownLeaves
    <3>3. \A j \in 1 .. Len(data) + 1 : \A i \in 1 .. Len(Grown[j].digests) :
            digestListContains(input, Grown[j].digests[i])
      BY <1>1, <2>3, GrownLeaves
    <3>4. ASSUME NEW i \in 1 .. Len(digests')
          PROVE  digestListContains(input, digests'[i])
      <4>1. digests'[i] = digests[Arity + i] /\ Arity + i \in 1 .. Len(digests)
        BY <1>2, <1>3, SMT
      <4> QED BY <1>1, <2>1, <2>3, <4>1 DEF LeavesInv
    <3> HIDE DEF FirstLevel
    <3>5. ~ (curNode' > 0)
      BY <1>1, <2>3, SMT
    <3> QED BY <1>1, <2>3, <3>1, <3>2, <3>3, <3>4, <3>5 DEF LeavesInv
  <2> QED BY <2>2, <2>3
<1>9. ExecuteInv' /\ TreeLinked' /\ ExecutesExactlyTheInput'
  BY <1>1 DEF IInv, ExecuteInv, TreeLinked, ExecutesExactlyTheInput
<1>10. curNode' \in 0 .. Len(data')
  BY <1>1, <1>2, SMT
<1> QED BY <1>1, <1>3, <1>4, <1>5, <1>7, <1>8, <1>9, <1>10, StateFacts DEF IInv

\* What LinkLevel changes, in the step that completes a level.
LEMMA LinkLevelFacts ==
  ASSUME IInv, phase = "build", NEW m, m = Len(nextDigests) + 1
  PROVE  LET linked == LinkLevel(Grown, curNode, m) IN
         /\ m \in 1 .. Len(input) /\ Len(data) + 1 = curNode + m
         /\ IsSeq(linked) /\ Len(linked) = Len(data) + 1
         /\ \A j \in 1 .. curNode : linked[j] = Grown[j]
         /\ \A j \in curNode + 1 .. curNode + m :
              /\ linked[j] = [next |-> m - (j - 1 - curNode) + ((j - 1 - curNode) \div Arity),
                              digests |-> Grown[j].digests]
              /\ linked[j].next \in 1 .. m
<1> DEFINE n == Len(data) + 1
           linked == LinkLevel(Grown, curNode, m)
<1>1. /\ Len(data) \in Nat /\ curNode \in 0 .. Len(data) /\ Len(nextDigests) \in Nat
      /\ Len(digests) \in Nat /\ Len(input) \in Nat
  BY GrownFacts, StateFacts, ConstantFacts, SeqDomain
<1>2. m \in 1 .. Len(input) /\ n = curNode + m
  <2>1. Len(digests) > 0 /\ Len(nextDigests) + Len(digests) <= Len(input) /\ Len(data) = curNode + Len(nextDigests)
    BY DEF IInv, LevelsInv
  <2> QED BY <1>1, <2>1, SMT
<1>3. DOMAIN linked = 1 .. n
  BY GrownFacts DEF LinkLevel
<1>4. IsSeq(linked) /\ Len(linked) = n
  <2> DEFINE S == Range(linked)
  <2>1. linked \in [1 .. n -> S]
    BY <1>3 DEF Range, LinkLevel
  <2> HIDE DEF S, linked
  <2>2. linked \in Seq(S)
    BY <1>1, <2>1, SMT
  <2> QED BY <1>1, <1>3, <2>2, SeqIsSeq, SMT
<1>5. \A j \in 1 .. curNode : linked[j] = Grown[j]
  BY <1>1, GrownFacts, SMT DEF LinkLevel
<1>6. ASSUME NEW j \in curNode + 1 .. curNode + m
      PROVE  /\ linked[j] = [next |-> m - (j - 1 - curNode) + ((j - 1 - curNode) \div Arity),
                             digests |-> Grown[j].digests]
             /\ linked[j].next \in 1 .. m
  <2> DEFINE i == j - 1 - curNode
             q == i \div Arity
  <2>1. j \in 1 .. n /\ ~ (j <= curNode) /\ i \in 0 .. m - 1 /\ m \in Nat
    BY <1>1, <1>2, SMT
  <2>2. q \in Nat /\ q <= i
    <3>1. i \in Nat
      BY <2>1, SMT
    <3> HIDE DEF i
    <3> QED BY <3>1, ConstantFacts, ParentNumber
  <2>3. linked[j] = [Grown[j] EXCEPT !.next = m - i + q]
    BY <2>1, GrownFacts DEF LinkLevel
  <2> HIDE DEF i, q, linked
  <2>4. Grown[j] = [next |-> Grown[j].next, digests |-> Grown[j].digests]
    BY <2>1, GrownNodesOK
  <2>5. linked[j] = [next |-> m - i + q, digests |-> Grown[j].digests]
    BY <2>3, <2>4
  <2>6. m - i + q \in 1 .. m
    BY <2>1, <2>2, SMT
  <2> QED BY <2>5, <2>6, SMT DEF i, q
<1> QED BY <1>2, <1>4, <1>5, <1>6

LEMMA BuildLastOfLevelStep ==
  ASSUME IInv, BuildLastOfLevel
  PROVE  IInv'
<1> DEFINE m == Len(nextDigests) + 1
<1>1. /\ phase = "build" /\ NodeSize = Len(digests)
      /\ digests' = Append(nextDigests, NodeDigest) /\ nextDigests' = <<>>
      /\ UNCHANGED <<phase, input, result>>
  BY DEF BuildLastOfLevel
<1>2. /\ IsSeq(digests') /\ Len(digests') = m
      /\ \A j \in 1 .. Len(nextDigests) : digests'[j] = nextDigests[j]
      /\ digests'[m] = DigestOf(Grown, Len(data) + 1)
  <2>1. IsSeq(nextDigests)
    BY StateFacts
  <2>2. NodeDigest = DigestOf(Grown, Len(data) + 1)
    BY <1>1, GrownFacts DEF NodeDigest, DigestOf
  <2> QED BY <1>1, <2>1, <2>2, AppendSeq, SMT
<1>3. data' = LinkLevel(Grown, curNode, m) /\ curNode' = curNode + m
  <2>1. /\ data' = LinkLevel(Append(data, NewNode), curNode, Len(digests'))
        /\ curNode' = curNode + Len(digests')
    BY <1>1 DEF BuildLastOfLevel
  <2> QED BY <1>2, <2>1 DEF Grown
<1>4. /\ Len(data) \in Nat /\ Len(nextDigests) \in Nat /\ curNode \in 0 .. Len(data)
      /\ Len(digests) \in Nat /\ Len(input) \in Nat /\ Arity \in Nat /\ Arity >= 2 /\ Len(digests) <= Arity
  BY <1>1, GrownFacts, StateFacts, ConstantFacts, NewNodeFacts, SeqDomain
<1>5. /\ m \in 1 .. Len(input) /\ Len(data) + 1 = curNode + m
      /\ IsSeq(data') /\ Len(data') = Len(data) + 1
      /\ \A j \in 1 .. curNode : data'[j] = Grown[j]
      /\ \A j \in curNode + 1 .. curNode + m :
           /\ data'[j] = [next |-> m - (j - 1 - curNode) + ((j - 1 - curNode) \div Arity),
                          digests |-> Grown[j].digests]
           /\ data'[j].next \in 1 .. m
  BY <1>1, <1>3, LinkLevelFacts
<1> HIDE DEF m
<1>6. \A j \in 1 .. Len(data) + 1 :
        /\ data'[j].digests = Grown[j].digests
        /\ data'[j] = [next |-> data'[j].next, digests |-> data'[j].digests]
        /\ data'[j].next \in 0 .. Len(input)
  <2> SUFFICES ASSUME NEW j \in 1 .. Len(data) + 1
               PROVE  /\ data'[j].digests = Grown[j].digests
                      /\ data'[j] = [next |-> data'[j].next, digests |-> data'[j].digests]
                      /\ data'[j].next \in 0 .. Len(input)
    OBVIOUS
  <2>1. CASE j \in 1 .. curNode
    <3>1. data'[j] = Grown[j]
      BY <1>5, <2>1
    <3> QED BY <1>1, <3>1, GrownNodesOK
  <2>2. CASE j \in curNode + 1 .. curNode + m
    <3>1. data'[j] = [next |-> m - (j - 1 - curNode) + ((j - 1 - curNode) \div Arity), digests |-> Grown[j].digests]
      BY <1>5, <2>2
    <3>2. data'[j].next \in 1 .. m /\ m \in 1 .. Len(input)
      BY <1>5, <2>2
    <3>3. data'[j].next \in 0 .. Len(input)
      BY <1>4, <3>2, SMT
    <3> QED BY <3>1, <3>3, SMT
  <2> QED BY <1>4, <1>5, <2>1, <2>2, SMT
<1>7. NodesOK'
  <2>1. \A j \in 1 .. Len(data) + 1 : IsSeq(data'[j].digests) /\ Len(data'[j].digests) \in 1 .. Arity
    BY <1>1, <1>6, GrownNodesOK
  <2> QED BY <1>1, <1>5, <1>6, <2>1 DEF NodesOK
<1>8. ASSUME NEW j \in 1 .. curNode
      PROVE  HasParent(j)'
  <2> DEFINE t == j + data[j].next
  <2>1. j \in 1 .. Len(data)
    BY <1>4, SMT
  <2>2. data'[j] = data[j] /\ DigestOf(data', j) = DigestOf(data, j)
    BY <1>1, <1>5, <2>1, GrownFacts DEF DigestOf
  <2>3. 1 .. Len(digests) - Arity = {}
    BY <1>4, SMT
  <2>4. data[j].next \in Nat /\ data[j].next > 0 /\ t <= Len(data) + 1 /\ digestListContains(Grown[t].digests, DigestOf(data, j))
    BY <1>1, <2>3, ParentStep
  <2>5. t \in 1 .. Len(data) + 1
    BY <1>4, <2>1, <2>4, SMT
  <2>6. data'[t].digests = Grown[t].digests
    BY <1>6, <2>5
  <2> QED BY <1>5, <2>2, <2>4, <2>6 DEF HasParent
<1>9. ASSUME NEW j \in curNode + 1 .. curNode + m
      PROVE  HasParent(j)'
  <2> DEFINE i == j - 1 - curNode
             q == i \div Arity
  <2>1. j \in 1 .. Len(data) + 1 /\ i \in 0 .. m - 1 /\ i + 1 \in 1 .. Len(digests') /\ m \in Nat
    BY <1>2, <1>4, <1>5, SMT
  <2>2. q \in Nat
    <3>1. i \in Nat
      BY <2>1, SMT
    <3> HIDE DEF i
    <3> QED BY <3>1, ConstantFacts, ParentNumber
  <2>3. data'[j].next = m - i + q /\ data'[j].next > 0
    <3>1. data'[j] = [next |-> m - i + q, digests |-> Grown[j].digests] /\ data'[j].next \in 1 .. m
      BY <1>5
    <3> HIDE DEF i, q
    <3> QED BY <1>5, <3>1, SMT
  <2>4. DigestOf(data', j) = DigestOf(Grown, j)
    BY <1>6, <2>1 DEF DigestOf
  <2>5. digests'[i + 1] = DigestOf(Grown, j)
    <3>1. CASE i = m - 1
      <4>1. i + 1 = m /\ j = Len(data) + 1
        BY <1>4, <1>5, <2>1, <3>1, SMTT(60)
      <4> QED BY <1>2, <4>1
    <3>2. CASE i # m - 1
      <4>1. i + 1 \in 1 .. Len(nextDigests) /\ curNode + (i + 1) = j /\ j \in 1 .. Len(data)
        BY <1>4, <1>5, <2>1, <3>2, SMT DEF m
      <4>2. nextDigests[i + 1] = DigestOf(data, curNode + (i + 1))
        BY <1>1, <4>1 DEF IInv, LevelsInv
      <4>3. DigestOf(Grown, j) = DigestOf(data, j)
        BY <1>1, <4>1, GrownFacts DEF DigestOf
      <4> QED BY <1>2, <4>1, <4>2, <4>3
    <3> QED BY <3>1, <3>2
  <2>6. j + data'[j].next = Len(data') + 1 + q
    <3>1. j = curNode + 1 + i /\ i \in Int /\ curNode \in Int /\ m \in Int
      BY <1>4, <2>1, SMT
    <3>2. Len(data) + 1 = curNode + m /\ Len(data') = Len(data) + 1
      BY <1>5
    <3> HIDE DEF i, q, m
    <3> QED BY <2>2, <2>3, <3>1, <3>2, SMT
  <2>7. j + data'[j].next = Len(data') + 1 + (((i + 1) - 1) \div Arity)
    <3>1. (i + 1) - 1 = i
      BY <2>1, SMT
    <3> QED BY <2>6, <3>1
  <2> HIDE DEF i
  <2> QED BY <2>1, <2>3, <2>4, <2>5, <2>7 DEF HasParent
<1>10. LevelsInv'
  <2>1. Len(nextDigests') = 0
    BY <1>1
  <2>2. /\ Len(digests') > 0 /\ Len(nextDigests') + Len(digests') <= Len(input)
        /\ Len(data') = curNode' + Len(nextDigests')
    BY <1>2, <1>3, <1>4, <1>5, <2>1, SMT
  <2>3. \A j \in 1 .. curNode' : j \in 1 .. curNode \/ j \in curNode + 1 .. curNode + m
    BY <1>3, <1>4, <1>5, SMT DEF m
  <2>4. 1 .. Len(nextDigests') = {}
    BY <2>1, SMT
  <2> QED BY <1>1, <1>8, <1>9, <2>2, <2>3, <2>4 DEF LevelsInv
<1>11. LeavesInv'
  <2>1. LeavesInv
    BY DEF IInv
  <2>2. CASE curNode # 0
    <3>1. curNode > 0 /\ 1 \in 1 .. curNode /\ curNode' # 0
      BY <1>3, <1>4, <1>5, <2>2, SMT DEF m
    <3>2. FirstLevel \in 1 .. curNode
      BY <2>1, <3>1 DEF LeavesInv
    <3>3. FirstLevel' = FirstLevel
      <4>1. data'[1] = Grown[1] /\ Grown[1] = data[1]
        <5>1. 1 \in 1 .. Len(data)
          BY <1>4, <3>1, SMT
        <5> QED BY <1>1, <1>5, <3>1, <5>1, GrownFacts
      <4> QED BY <2>2, <3>1, <4>1 DEF FirstLevel
    <3> HIDE DEF FirstLevel
    <3>4. \A j \in 1 .. FirstLevel : data'[j].digests = data[j].digests
      <4>1. \A j \in 1 .. FirstLevel : j \in 1 .. Len(data) /\ j \in 1 .. curNode
        BY <1>4, <3>2, SMT
      <4> QED BY <1>1, <1>5, <4>1, GrownFacts
    <3>5. FirstLevel \in 1 .. curNode'
      BY <1>3, <1>4, <1>5, <3>2, SMT
    <3> QED BY <1>1, <2>1, <2>2, <3>1, <3>3, <3>4, <3>5, LeavesStay
  <2>3. CASE curNode = 0
    <3>1. curNode' > 0 /\ curNode' # 0 /\ curNode' = Len(data) + 1 /\ m \in Nat /\ m = Len(data) + 1
      BY <1>3, <1>4, <1>5, <2>3, SMT
    <3>2. FirstLevel' = Len(data) + 1
      <4>1. data'[1].next = m - (1 - 1 - curNode) + ((1 - 1 - curNode) \div Arity)
        <5>1. 1 \in curNode + 1 .. curNode + m
          BY <1>4, <2>3, <3>1, SMT
        <5>2. data'[1] = [next |-> m - (1 - 1 - curNode) + ((1 - 1 - curNode) \div Arity), digests |-> Grown[1].digests]
          BY <1>5, <5>1
        <5> QED BY <5>2, SMT
      <4>2. 1 - 1 - curNode = 0 /\ 0 \in Nat /\ 0 < Arity
        BY <1>4, <2>3, SMT
      <4>3. 0 \div Arity = 0
        BY <4>2, ConstantFacts, ParentNumber
      <4>4. data'[1].next = m - 0 + 0
        BY <4>1, <4>2, <4>3
      <4> QED BY <3>1, <4>4, SMT DEF FirstLevel
    <3>3. NodeSize + 1 .. Len(digests) = {}
      BY <1>1, <1>4, SMT
    <3>4. /\ \A c \in Range(input) : \E j \in 1 .. Len(data) + 1 : digestListContains(data'[j].digests, c)
          /\ \A j \in 1 .. Len(data) + 1 : \A i \in 1 .. Len(data'[j].digests) :
               digestListContains(input, data'[j].digests[i])
      BY <1>1, <1>6, <2>3, <3>3, GrownLeaves
    <3>5. FirstLevel' \in 1 .. curNode'
      BY <1>4, <3>1, <3>2, SMT
    <3> HIDE DEF FirstLevel
    <3> QED BY <1>1, <3>1, <3>2, <3>4, <3>5 DEF LeavesInv
  <2> QED BY <2>2, <2>3
<1>12. ExecuteInv' /\ TreeLinked' /\ ExecutesExactlyTheInput'
  BY <1>1 DEF IInv, ExecuteInv, TreeLinked, ExecutesExactlyTheInput
<1>13. curNode' \in 0 .. Len(data') /\ IsSeq(nextDigests')
  <2>1. IsSeq(<<>>)
    BY SMT DEF IsSeq, Range
  <2> QED BY <1>1, <1>3, <1>4, <1>5, <2>1, SMT
<1> QED BY <1>1, <1>2, <1>7, <1>10, <1>11, <1>12, <1>13, StateFacts DEF IInv

LEMMA BuildRootStep ==
  ASSUME IInv, BuildRoot
  PROVE  IInv'
<1>1. /\ phase = "build" /\ NodeSize = Len(digests) /\ nextDigests = <<>>
      /\ data' = Grown /\ trial' = POr(ensureSufficientORDigests(digests)) /\ phase' = "execute"
      /\ UNCHANGED <<input, curNode, digests, nextDigests, result>>
  BY DEF BuildRoot, IsRoot, Grown
<1>2. /\ Len(data) \in Nat /\ curNode \in 0 .. Len(data) /\ Len(digests) \in Nat
      /\ Arity \in Nat /\ Len(digests) <= Arity /\ Len(data') = Len(data) + 1
  BY <1>1, GrownFacts, StateFacts, ConstantFacts, NewNodeFacts
<1>3. Len(data) = curNode
  <2>1. Len(nextDigests) = 0 /\ Len(data) = curNode + Len(nextDigests)
    BY <1>1 DEF IInv, LevelsInv
  <2> QED BY <1>2, <2>1, SMT
<1>4. NodesOK'
  BY <1>1, <1>2, GrownFacts, GrownNodesOK DEF NodesOK
<1>5. trial' = DigestOf(data', Len(data'))
  <2>1. NewNode.digests = digests
    <3>1. digests \in Seq(Range(digests))
      BY StateFacts DEF IsSeq
    <3>2. SubSeq(digests, 1, Len(digests)) = digests
      BY <3>1, SubSeqFull
    <3> QED BY <1>1, <3>2 DEF NewNode
  <2> QED BY <1>1, <1>2, <2>1, GrownFacts DEF DigestOf
<1>6. ASSUME NEW j \in 1 .. curNode
      PROVE  /\ data'[j].next # 0 /\ j + data'[j].next \in 1 .. Len(data')
             /\ digestListContains(data'[j + data'[j].next].digests, DigestOf(data', j))
  <2>1. j \in 1 .. Len(data) /\ data'[j] = data[j] /\ DigestOf(data', j) = DigestOf(data, j)
    BY <1>1, <1>2, GrownFacts, SMT DEF DigestOf
  <2>2. 1 .. Len(digests) - Arity = {}
    BY <1>2, SMT
  <2> DEFINE t == j + data[j].next
  <2>3. data[j].next \in Nat /\ data[j].next > 0 /\ t <= Len(data) + 1 /\ digestListContains(Grown[t].digests, DigestOf(data, j))
    BY <1>1, <2>2, ParentStep
  <2> QED BY <1>1, <1>2, <2>1, <2>3, SMT
<1>7. TreeLinked'
  <2>1. DOMAIN data' = 1 .. Len(data')
    BY <1>1, <1>2, GrownFacts
  <2>2. \A j \in 1 .. Len(data') : Len(data'[j].digests) \in 1 .. Arity
    BY <1>4 DEF NodesOK
  <2>3. data'[Len(data')].next = 0
    BY <1>1, <1>2, GrownFacts, NewNodeFacts, SMT
  <2>4. \A j \in 1 .. Len(data') : j = Len(data') \/ (j # Len(data') /\ j \in 1 .. curNode)
    BY <1>2, <1>3, SMT
  <2> QED BY <1>6, <2>1, <2>2, <2>3, <2>4 DEF TreeLinked, DigestOf
<1>8. LeavesInv'
  <2>1. LeavesInv
    BY DEF IInv
  <2>2. CASE curNode # 0
    <3>1. curNode > 0 /\ 1 \in 1 .. Len(data)
      BY <1>2, <1>3, <2>2, SMT
    <3>2. FirstLevel \in 1 .. curNode
      BY <2>1, <3>1 DEF LeavesInv
    <3>3. FirstLevel' = FirstLevel
      BY <1>1, <2>2, <3>1, GrownFacts DEF FirstLevel
    <3> HIDE DEF FirstLevel
    <3>4. \A j \in 1 .. FirstLevel : data'[j].digests = data[j].digests
      <4>1. \A j \in 1 .. FirstLevel : j \in 1 .. Len(data)
        BY <1>2, <1>3, <3>2, SMT
      <4> QED BY <1>1, <4>1, GrownFacts
    <3> QED BY <1>1, <2>1, <2>2, <3>2, <3>3, <3>4, LeavesStay
  <2>3. CASE curNode = 0
    <3>1. FirstLevel' = Len(data) + 1 /\ ~ (curNode' > 0)
      BY <1>1, <1>2, <2>3, SMT DEF FirstLevel
    <3>2. NodeSize + 1 .. Len(digests) = {}
      BY <1>1, <1>2, SMT
    <3>3. /\ \A c \in Range(input) : \E j \in 1 .. Len(data) + 1 : digestListContains(data'[j].digests, c)
          /\ \A j \in 1 .. Len(data) + 1 : \A i \in 1 .. Len(data'[j].digests) :
               digestListContains(input, data'[j].digests[i])
      BY <1>1, <2>3, <3>2, GrownLeaves
    <3>4. phase' # "build"
      BY <1>1
    <3> HIDE DEF FirstLevel
    <3> QED BY <1>1, <3>1, <3>3, <3>4 DEF LeavesInv
  <2> QED BY <2>2, <2>3
<1>9. ExecuteInv' /\ ExecutesExactlyTheInput' /\ LevelsInv'
  <2>1. result = "none"
    BY <1>1 DEF IInv, ExecuteInv
  <2> QED BY <1>1, <1>2, <1>3, <1>5, <2>1, SMT DEF ExecuteInv, ExecutesExactlyTheInput, LevelsInv
<1>10. curNode' \in 0 .. Len(data')
  BY <1>1, <1>2, SMT
<1> QED BY <1>1, <1>4, <1>7, <1>8, <1>9, <1>10, StateFacts DEF IInv
-----------------------------------------------------------------------------
\* A step of the execution leaves the tree alone.
LEMMA ExecutionStep ==
  ASSUME IInv, phase # "build", phase' # "build", UNCHANGED <<input, building>>,
         phase' \in {"build", "execute", "climb", "done"},
         result' \in {"none", "ok", "not found", "invalid data"},
         phase' # "done" => result' = "none",
         phase' = "climb" => /\ index' \in 0 .. Len(data) - 1
                             /\ digestListContains(data[index' + 1].digests, session')
                             /\ digestListContains(input, query'),
         phase' = "done" => /\ result' = "ok" <=> digestListContains(input, query')
                            /\ result' = "ok" => session' = trial
  PROVE  IInv'
<1>1. UNCHANGED <<input, data, curNode, digests, nextDigests, trial>>
  BY DEF building
<1>2. NodesOK' /\ LevelsInv' /\ TreeLinked'
  BY <1>1 DEF IInv, NodesOK, LevelsInv, TreeLinked
<1>3. LeavesInv'
  <2>1. LeavesInv
    BY DEF IInv
  <2>2. FirstLevel' = FirstLevel
    BY <1>1 DEF FirstLevel
  <2> QED BY <1>1, <2>1, <2>2 DEF LeavesInv
<1>4. ExecuteInv' /\ ExecutesExactlyTheInput'
  BY <1>1 DEF IInv, ExecuteInv, ExecutesExactlyTheInput, DigestOf
<1> QED BY <1>1, <1>2, <1>3, <1>4, StateFacts DEF IInv

\* The nodes that are searched are those of the first level.
LEMMA LeavesFacts ==
  ASSUME IInv, phase # "build"
  PROVE  /\ Len(data) \in Nat /\ FirstLevel \in 1 .. Len(data)
         /\ Leaves = 0 .. FirstLevel - 1
<1>1. Len(data) \in Nat /\ Len(data) > 0 /\ curNode \in 0 .. Len(data) /\ DOMAIN data = 1 .. Len(data)
  BY StateFacts, SeqDomain DEF IInv, ExecuteInv
<1>2. CASE curNode = 0
  <2>1. Len(data) = 1 /\ FirstLevel = 1
    BY <1>1, <1>2 DEF IInv, ExecuteInv, FirstLevel
  <2>2. data[1].next = 0
    <3>1. TreeLinked
      BY DEF IInv
    <3>2. 1 \in DOMAIN data /\ 1 = Len(data)
      BY <1>1, <2>1, SMT
    <3> QED BY <3>1, <3>2 DEF TreeLinked
  <2> QED BY <1>1, <2>1, <2>2, SMT DEF Leaves
<1>3. CASE curNode # 0
  <2>1. curNode > 0
    BY <1>1, <1>3, SMT
  <2>2. FirstLevel \in 1 .. curNode /\ FirstLevel = data[1].next
    BY <1>3, <2>1 DEF IInv, LeavesInv, FirstLevel
  <2> HIDE DEF FirstLevel
  <2> QED BY <1>1, <2>2, SMT DEF Leaves
<1> QED BY <1>2, <1>3

LEMMA ExecuteStep ==
  ASSUME IInv, NEW d, ExecutePolicyORAssertions(d)
  PROVE  IInv'
<1> DEFINE found == {i \in Leaves : digestListContains(data[i + 1].digests, d)}
<1>1. /\ phase = "execute" /\ query' = d /\ session' = d /\ UNCHANGED <<input, building>>
      /\ \/ found = {} /\ phase' = "done" /\ result' = "not found"
         \/ found # {} /\ phase' = "climb" /\ result' = result
            /\ index' = CHOOSE i \in found : \A j \in found : i <= j
  BY DEF ExecutePolicyORAssertions
<1>2. /\ Len(data) \in Nat /\ FirstLevel \in 1 .. Len(data) /\ Leaves = 0 .. FirstLevel - 1
      /\ result = "none" /\ LeavesInv
  BY <1>1, LeavesFacts DEF IInv, ExecuteInv
<1>3. ASSUME NEW i \in found
      PROVE  digestListContains(input, d) /\ i \in 0 .. Len(data) - 1
  <2>1. i + 1 \in 1 .. FirstLevel /\ i \in 0 .. Len(data) - 1 /\ digestListContains(data[i + 1].digests, d)
    BY <1>2, SMT
  <2>2. i + 1 \in 1 .. Len(data)
    BY <1>2, <2>1, SMT
  <2>3. DOMAIN data[i + 1].digests = 1 .. Len(data[i + 1].digests)
    BY <2>2, SeqDomain DEF IInv, NodesOK
  <2>4. PICK k \in 1 .. Len(data[i + 1].digests) : data[i + 1].digests[k] = d
    BY <2>1, <2>3 DEF digestListContains
  <2>5. digestListContains(input, data[i + 1].digests[k])
    BY <1>2, <2>1, <2>4 DEF LeavesInv
  <2> QED BY <2>1, <2>4, <2>5
<1>4. ASSUME digestListContains(input, d)
      PROVE  found # {}
  <2>1. d \in Range(input)
    <3>1. DOMAIN input = 1 .. Len(input)
      BY ConstantFacts, SeqDomain
    <3> QED BY <1>4, <3>1 DEF digestListContains, Range
  <2>2. PICK j \in 1 .. FirstLevel : digestListContains(data[j].digests, d)
    BY <1>1, <1>2, <2>1 DEF LeavesInv
  <2>3. j - 1 \in 0 .. FirstLevel - 1 /\ (j - 1) + 1 = j
    BY <1>2, SMT
  <2> QED BY <1>2, <2>2, <2>3
<1>5. CASE found = {}
  BY <1>1, <1>2, <1>4, <1>5, ExecutionStep
<1>6. CASE found # {}
  <2>1. \E i \in found : \A j \in found : i <= j
    <3>1. found \in SUBSET Nat
      BY <1>2, SMT
    <3> HIDE DEF found
    <3> QED BY <1>6, <3>1, LeastElement
  <2>2. index' \in found
    BY <1>1, <1>6, <2>1
  <2> QED BY <1>1, <1>2, <1>3, <1>6, <2>2, ExecutionStep
<1> QED BY <1>5, <1>6

LEMMA ClimbStep ==
  ASSUME IInv, Climb
  PROVE  IInv'
<1> DEFINE j == index + 1
<1>1. /\ phase = "climb" /\ index \in 0 .. Len(data) - 1 /\ digestListContains(data[j].digests, session)
      /\ digestListContains(input, query) /\ result = "none" /\ trial = DigestOf(data, Len(data))
  BY DEF Climb, IInv, ExecuteInv
<1>2. Len(data) \in Nat /\ j \in 1 .. Len(data) /\ DOMAIN data = 1 .. Len(data) /\ data[j].next \in Nat
  <2>1. Len(data) \in Nat /\ DOMAIN data = 1 .. Len(data)
    BY StateFacts, SeqDomain
  <2>2. j \in 1 .. Len(data)
    BY <1>1, <2>1, SMT
  <2>3. data[j].next \in 0 .. Len(input)
    BY <2>2 DEF IInv, NodesOK
  <2> QED BY <2>1, <2>2, <2>3, ConstantFacts, SMT
<1>3. /\ data[j].next = 0 <=> j = Len(data)
      /\ data[j].next # 0 => /\ j + data[j].next \in 1 .. Len(data)
                             /\ digestListContains(data[j + data[j].next].digests, DigestOf(data, j))
  BY <1>1, <1>2 DEF IInv, TreeLinked, DigestOf
<1>4. /\ session' = DigestOf(data, j) /\ UNCHANGED <<input, building, query>>
      /\ IF data[j].next # 0 /\ index + data[j].next < Len(data)
         THEN index' = index + data[j].next /\ UNCHANGED <<phase, result>>
         ELSE phase' = "done" /\ result' = "ok"
  BY <1>1 DEF Climb, Finish, DigestOf
<1>5. CASE data[j].next # 0
  <2>1. index' = index + data[j].next /\ UNCHANGED <<phase, result>>
    <3> DEFINE n == data[j].next
    <3>1. index + n < Len(data)
      <4>1. j + n \in 1 .. Len(data) /\ n \in Nat /\ index \in 0 .. Len(data) - 1 /\ Len(data) \in Nat
        BY <1>1, <1>2, <1>3, <1>5
      <4> HIDE DEF n
      <4> QED BY <4>1, SMT
    <3> QED BY <1>4, <1>5, <3>1
  <2>2. index' \in 0 .. Len(data) - 1 /\ index' + 1 = j + data[j].next
    <3> DEFINE n == data[j].next
    <3>1. j + n \in 1 .. Len(data) /\ n \in Nat /\ index \in 0 .. Len(data) - 1 /\ index' = index + n
      BY <1>1, <1>2, <1>3, <1>5, <2>1
    <3> HIDE DEF n
    <3>2. index' \in 0 .. Len(data) - 1 /\ index' + 1 = j + n
      BY <1>2, <3>1, SMT
    <3> QED BY <3>2 DEF n
  <2> QED BY <1>1, <1>3, <1>4, <1>5, <2>1, <2>2, ExecutionStep
<1>6. CASE data[j].next = 0
  <2>1. phase' = "done" /\ result' = "ok" /\ j = Len(data)
    BY <1>3, <1>4, <1>6
  <2> QED BY <1>1, <1>4, <2>1, ExecutionStep
<1> QED BY <1>5, <1>6

LEMMA NextInv == IInv /\ [Next]_vars => IInv'
<1> SUFFICES ASSUME IInv, [Next]_vars
             PROVE  IInv'
  OBVIOUS
<1>1. CASE UNCHANGED vars
  <2>1. UNCHANGED <<phase, input, data, curNode, digests, nextDigests, trial, query, session, index, result>>
    BY <1>1 DEF vars, building
  <2>2. NodesOK' /\ LevelsInv' /\ LeavesInv' /\ ExecuteInv' /\ TreeLinked' /\ ExecutesExactlyTheInput'
    BY <2>1 DEF IInv, NodesOK, LevelsInv, HasParent, DigestOf, LeavesInv, FirstLevel, ExecuteInv, TreeLinked,
                ExecutesExactlyTheInput
  <2> QED BY <2>1, <2>2, StateFacts DEF IInv
<1>2. CASE BuildRoot \/ BuildNode \/ BuildLastOfLevel
  BY <1>2, BuildRootStep, BuildNodeStep, BuildLastOfLevelStep
<1>3. ASSUME NEW d \in SessionDigests, ExecutePolicyORAssertions(d)
      PROVE  IInv'
  BY <1>3, ExecuteStep
<1>4. CASE Climb
  BY <1>4, ClimbStep
<1> QED BY <1>1, <1>2, <1>3, <1>4 DEF Next, Done
-----------------------------------------------------------------------------
LEMMA IInvImplies == IInv => TypeOK
<1> SUFFICES ASSUME IInv
             PROVE  TypeOK
  OBVIOUS
<1>1. DOMAIN data = 1 .. Len(data)
  BY StateFacts, SeqDomain
<1> QED BY <1>1, StateFacts DEF IInv, NodesOK, ExecuteInv, TypeOK

(***************************************************************************)
(* The type invariant of PolicyOr, for any arity and any list of digests.  *)
(***************************************************************************)
THEOREM PolicyOrTypeCorrect == Spec => []TypeOK
BY InitInv, NextInv, IInvImplies, PTL DEF Spec

(***************************************************************************)
(* computePolicyORData builds a tree whose nodes fit in one TPM2_PolicyOR  *)
(* and are conditions of their parents: see TreeLinked.                    *)
(***************************************************************************)
THEOREM TreesAreLinked == Spec => []TreeLinked
<1>1. IInv => TreeLinked
  BY DEF IInv
<1> QED BY <1>1, InitInv, NextInv, PTL DEF Spec

(***************************************************************************)
(* executePolicyORAssertions succeeds exactly from the digests the policy  *)
(* was computed for, and ends in the digest that was computed for it,      *)
(* whatever their number: see ExecutesExactlyTheInput.                     *)
(***************************************************************************)
THEOREM ExecutionIsExact == Spec => []ExecutesExactlyTheInput
<1>1. IInv => ExecutesExactlyTheInput
  BY DEF IInv
<1> QED BY <1>1, InitInv, NextInv, PTL DEF Spec
=============================================================================
