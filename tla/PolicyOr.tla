------------------------------ MODULE PolicyOr ------------------------------
(***************************************************************************)
(* Policies with more conditions than one TPM2_PolicyOR takes (policy.go): *)
(* computePolicyORData turns a list of digests into a tree, stored as a    *)
(* slice of nodes, and executePolicyORAssertions finds the leaf that holds *)
(* the session digest and climbs from it to the root.                      *)
(*                                                                         *)
(* One step is one iteration of a loop of the code.  Slice indices start   *)
(* at 0 as in the code; data[i + 1] is the code's data[i].                 *)
(***************************************************************************)
EXTENDS Integers, Sequences, Functions

CONSTANTS
  Arity,      \* the digests that fit in one TPM2_PolicyOR: 8
  Inputs,     \* the lists of digests that a policy is computed for
  POr(_),     \* the digest of a session after TPM2_PolicyOR with a list
  Foreign     \* a session digest that no policy contains

digestListContains(list, digest) == \E i \in 1 .. Len(list) : list[i] = digest

ASSUME ArityAssumption == Arity \in Nat /\ Arity >= 2
ASSUME InputsAssumption ==
  \A in \in Inputs :
    in \in Seq(Range(in)) /\ Len(in) > 0 /\ ~ digestListContains(in, Foreign)

VARIABLES
  phase,        \* "build", "execute", "climb" or "done"
  input,        \* the digests that the policy was computed for
  data,         \* the nodes: their digests and the distance to their parent
  curNode,      \* the index of the first node of the level being built
  digests,      \* the digests of that level that no node has yet
  nextDigests,  \* the digests of the next level
  trial,        \* the digest of the trial policy
  query,        \* the session digest that the execution starts from
  session,      \* the current session digest
  index,        \* the node the execution is at
  result

building == <<data, curNode, digests, nextDigests, trial>>
vars == <<phase, input, building, query, session, index, result>>

\* TPM2_PolicyOR wants at least two digests.
ensureSufficientORDigests(ds) == IF Len(ds) = 1 THEN ds \o ds ELSE ds

-----------------------------------------------------------------------------
Init ==
  /\ input \in Inputs
  /\ phase = "build" /\ data = <<>> /\ curNode = 0
  /\ digests = input /\ nextDigests = <<>> /\ trial = Foreign
  /\ query = Foreign /\ session = Foreign /\ index = -1 /\ result = "none"

NodeSize == IF Len(digests) > Arity THEN Arity ELSE Len(digests)
NewNode == [next |-> 0, digests |-> SubSeq(digests, 1, NodeSize)]
NodeDigest == POr(ensureSufficientORDigests(NewNode.digests))

IsRoot == NodeSize = Len(digests) /\ nextDigests = <<>>

\* The digests left fit in one node and it has no siblings.
BuildRoot ==
  /\ phase = "build" /\ IsRoot
  /\ data' = Append(data, NewNode)
  /\ trial' = POr(ensureSufficientORDigests(digests))
  /\ phase' = "execute"
  /\ UNCHANGED <<input, curNode, digests, nextDigests, query, session, index, result>>

\* A node that has siblings to its right.
BuildNode ==
  /\ phase = "build" /\ NodeSize < Len(digests)
  /\ data' = Append(data, NewNode)
  /\ nextDigests' = Append(nextDigests, NodeDigest)
  /\ digests' = SubSeq(digests, NodeSize + 1, Len(digests))
  /\ UNCHANGED <<phase, input, curNode, trial, query, session, index, result>>

\* Mutant: every node of a level points to the first node of the next level.
MutLinkLevel(nodes, first, m) ==
  [j \in DOMAIN nodes |->
     IF j <= first THEN nodes[j] ELSE [nodes[j] EXCEPT !.next = m - (j - 1 - first)]]

\* The m nodes from index first on point to their parents, Arity to a parent.
LinkLevel(nodes, first, m) ==
  [j \in DOMAIN nodes |->
     IF j <= first THEN nodes[j]
     ELSE LET i == j - 1 - first IN [nodes[j] EXCEPT !.next = m - i + (i \div Arity)]]

\* Mutant: the next level starts one node too far.
MutBuildLastOfLevel ==
  /\ phase = "build" /\ NodeSize = Len(digests) /\ ~ IsRoot
  /\ LET level == Append(nextDigests, NodeDigest) IN
       /\ data' = LinkLevel(Append(data, NewNode), curNode, Len(level))
       /\ curNode' = curNode + Len(level) + 1
       /\ digests' = level
  /\ nextDigests' = <<>>
  /\ UNCHANGED <<phase, input, trial, query, session, index, result>>

\* The last node of a level that is not the root's.
BuildLastOfLevel ==
  /\ phase = "build" /\ NodeSize = Len(digests) /\ ~ IsRoot
  /\ LET level == Append(nextDigests, NodeDigest) IN
       /\ data' = LinkLevel(Append(data, NewNode), curNode, Len(level))
       /\ curNode' = curNode + Len(level)
       /\ digests' = level
  /\ nextDigests' = <<>>
  /\ UNCHANGED <<phase, input, trial, query, session, index, result>>
-----------------------------------------------------------------------------
\* Every digest that occurs in the tree, and one that does not.
SessionDigests == {Foreign} \cup UNION {Range(data[j].digests) : j \in DOMAIN data}

\* Mutant: the session digest is looked for in all nodes.
MutLeaves == 0 .. Len(data) - 1

\* The nodes that are searched: those of the first level.
Leaves == {i \in 0 .. Len(data) - 1 : i < IF data[1].next = 0 THEN 1 ELSE data[1].next}

Finish(r) == phase' = "done" /\ result' = r /\ UNCHANGED <<input, building, query>>

\* executePolicyORAssertions in a session whose digest is d: find the leaf.
ExecutePolicyORAssertions(d) ==
  /\ phase = "execute"
  /\ query' = d /\ session' = d
  /\ LET found == {i \in Leaves : digestListContains(data[i + 1].digests, d)} IN
       IF found = {}
       THEN phase' = "done" /\ result' = "not found" /\ UNCHANGED index
       ELSE /\ phase' = "climb" /\ UNCHANGED result
            /\ index' = CHOOSE i \in found : \A j \in found : i <= j
  /\ UNCHANGED <<input, building>>

(***************************************************************************)
(* One TPM2_PolicyOR.  The TPM refuses it unless the list has the session  *)
(* digest.  The loop ends at the root, or if an index is out of range.     *)
(***************************************************************************)
Climb ==
  /\ phase = "climb"
  /\ LET node == data[index + 1]
         parent == index + node.next IN
       \/ /\ ~ digestListContains(node.digests, session)
          /\ Finish("invalid data") /\ UNCHANGED <<session, index>>
       \/ /\ digestListContains(node.digests, session)
          /\ session' = POr(ensureSufficientORDigests(node.digests))
          /\ IF node.next # 0 /\ parent < Len(data)
             THEN index' = parent /\ UNCHANGED <<phase, input, building, query, result>>
             ELSE Finish("ok") /\ UNCHANGED index

Done == phase = "done" /\ UNCHANGED vars

Next ==
  \/ BuildRoot \/ BuildNode \/ BuildLastOfLevel
  \/ \E d \in SessionDigests : ExecutePolicyORAssertions(d)
  \/ Climb
  \/ Done

Spec == Init /\ [][Next]_vars
-----------------------------------------------------------------------------
\* The type invariant.
TypeOK ==
  /\ phase \in {"build", "execute", "climb", "done"}
  /\ input \in Inputs
  /\ \A j \in DOMAIN data : data[j].next \in 0 .. Len(input)
  /\ curNode \in 0 .. Len(data)
  /\ phase = "climb" => index \in 0 .. Len(data) - 1
  /\ result \in {"none", "ok", "not found", "invalid data"}

(***************************************************************************)
(* Executing the tree succeeds exactly from the digests the policy was     *)
(* computed for, and then the session has the digest that was computed for *)
(* the policy: no condition is lost in the tree, whatever their number,    *)
(* and no digest of an inner node is taken for a condition.                *)
(***************************************************************************)
ExecutesExactlyTheInput ==
  phase = "done" =>
    /\ result = "ok" <=> digestListContains(input, query)
    /\ result = "ok" => session = trial

(***************************************************************************)
(* In the finished tree no node is larger than the TPM's limit and every   *)
(* node's digest is a condition of its parent.                             *)
(***************************************************************************)
TreeLinked ==
  phase # "build" =>
    \A j \in DOMAIN data :
      /\ Len(data[j].digests) \in 1 .. Arity
      /\ data[j].next = 0 <=> j = Len(data)
      /\ data[j].next # 0 =>
           /\ j + data[j].next \in DOMAIN data
           /\ digestListContains(data[j + data[j].next].digests,
                       POr(ensureSufficientORDigests(data[j].digests)))
=============================================================================
