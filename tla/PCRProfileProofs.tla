-------------------------- MODULE PCRProfileProofs --------------------------
(***************************************************************************)
(* Theorems about computePCRValues and computePCRDigests, for profiles of  *)
(* any size, nested to any depth: the iterator and the context stack stay  *)
(* aligned (IInv), and the digests are those of the ways through the       *)
(* profile (EInv, which is inductive together with IInv).                  *)
(***************************************************************************)
EXTENDS PCRProfile, SequenceTheorems, WellFoundedInduction, TLAPS

Context(S) == [parent : Nat, values : Seq(S)]

\* A context comes after its parent, and only the first has none.
Rooted(cs) ==
  /\ Len(cs) >= 1 /\ cs[1].parent = 0
  /\ \A n \in 2 .. Len(cs) : cs[n].parent \in 1 .. n - 1

\* A context that gave its values away has a branch that will give some back.
Fed(cs) ==
  \A n \in 1 .. Len(cs) : cs[n].values = <<>> => \E m \in n + 1 .. Len(cs) : cs[m].parent = n

(***************************************************************************)
(* StacksAligned is not inductive: that the values of the top context are  *)
(* not empty after a branch ends is only known because its parent got some *)
(* from the branch, and waiting siblings have a copy.                      *)
(***************************************************************************)
IInv ==
  /\ iter \in Seq(Seq(Instructions))
  /\ \E S : contexts \in Seq(Context(S))
  /\ phase = "walk" => Len(iter) = Len(contexts) /\ Rooted(contexts) /\ Fed(contexts)

\* The strengthening says what StacksAligned says.
LEMMA IInvImplies == IInv => StacksAligned
<1> SUFFICES ASSUME IInv, phase = "walk"
             PROVE  /\ Len(iter) = Len(contexts)
                    /\ contexts[1].parent = 0
                    /\ \A n \in 2 .. Len(contexts) : contexts[n].parent \in 1 .. n - 1
                    /\ Top.values # <<>>
  BY Zenon DEF StacksAligned
<1>1. Len(contexts) \in Nat
  BY LenProperties, Zenon DEF IInv
<1>2. Len(contexts) \in 1 .. Len(contexts)
  BY <1>1 DEF IInv, Rooted
<1>3. Top.values # <<>>
  BY <1>1, <1>2 DEF IInv, Fed, Top
<1> QED BY <1>3, Zenon DEF IInv, Rooted

\* More kinds of values make more contexts.
LEMMA ContextMonotonic ==
  ASSUME NEW S, NEW T, S \subseteq T, NEW cs \in Seq(Context(S))
  PROVE  cs \in Seq(Context(T))
<1>1. \A s \in Seq(S) : s \in Seq(T)
  BY SeqMonotonic, Zenon
<1>2. Context(S) \subseteq Context(T)
  BY <1>1, Zenon DEF Context
<1> QED BY <1>2, SeqMonotonic, Zenon

\* traverseInstructions and the first context.
LEMMA InitEstablishes == Init => IInv
<1> SUFFICES ASSUME Init PROVE IInv
  BY Zenon
<1>1. iter \in Seq(Seq(Instructions)) /\ Len(iter) = 1
  BY ProfilesAssumption DEF Init
<1>2. contexts = << [parent |-> 0, values |-> << << >> >>] >>
  BY Zenon DEF Init
<1>3. contexts \in Seq(Context({<< >>}))
  BY <1>2 DEF Context
<1>4. Len(contexts) = 1 /\ contexts[1].parent = 0 /\ contexts[1].values # <<>>
  BY <1>2, Zenon
<1> QED BY <1>1, <1>3, <1>4 DEF IInv, Rooted, Fed

\* What is left of the iterator after an instruction is taken.
LEMMA ConsumedSeq ==
  ASSUME IInv, HasInstr
  PROVE  /\ Instr \in Instructions
         /\ Consumed \in Seq(Seq(Instructions)) /\ Len(Consumed) = Len(iter)
<1>1. Head(iter) \in Seq(Instructions) /\ Tail(iter) \in Seq(Seq(Instructions))
      /\ Len(Tail(iter)) = Len(iter) - 1 /\ Len(iter) \in Nat
  BY HeadTailProperties, LenProperties, Zenon DEF IInv, HasInstr
<1>2. Instr \in Instructions /\ Tail(Head(iter)) \in Seq(Instructions)
  BY <1>1, HeadTailProperties, Zenon DEF HasInstr, Instr
<1>3. << Tail(Head(iter)) >> \in Seq(Seq(Instructions)) /\ Len(<< Tail(Head(iter)) >>) = 1
  BY <1>2
<1> QED BY <1>1, <1>2, <1>3, ConcatProperties DEF Consumed

\* Replacing the values of the top context.
LEMMA TopValues ==
  ASSUME NEW S, contexts \in Seq(Context(S)), Len(contexts) >= 1, NEW v \in Seq(S)
  PROVE  LET cs == WithTopValues(v) IN
         /\ cs \in Seq(Context(S)) /\ Len(cs) = Len(contexts)
         /\ \A n \in 1 .. Len(contexts) :
              /\ cs[n].parent = contexts[n].parent
              /\ cs[n].values = IF n = Len(contexts) THEN v ELSE contexts[n].values
<1> DEFINE top == [contexts[Len(contexts)] EXCEPT !.values = v]
<1>1. Len(contexts) \in 1 .. Len(contexts)
  BY LenProperties
<1>2. contexts[Len(contexts)] \in Context(S)
  BY <1>1, ElementOfSeq, Zenon
<1>3. /\ top \in Context(S) /\ top.values = v
      /\ top.parent = contexts[Len(contexts)].parent
  BY <1>2, ZenonT(30) DEF Context
<1>4. WithTopValues(v) = [contexts EXCEPT ![Len(contexts)] = top]
  BY Zenon DEF WithTopValues
<1> HIDE DEF top
<1> QED BY <1>1, <1>3, <1>4, ExceptSeq, SMTT(30)

\* The values of the top are a sequence.
LEMMA TopSeq ==
  ASSUME NEW S, contexts \in Seq(Context(S)), Len(contexts) >= 1
  PROVE  Top \in Context(S) /\ Top.values \in Seq(S) /\ Top.parent \in Nat
<1>1. Len(contexts) \in 1 .. Len(contexts)
  BY LenProperties
<1>2. Top \in Context(S)
  BY <1>1, ElementOfSeq, Zenon DEF Top
<1> QED BY <1>2, Zenon DEF Context

\* An instruction changes the values of the top one by one.
LEMMA SetOrExtendStep == ASSUME IInv, SetOrExtend PROVE IInv'
<1>1. CASE Instr.op = "tpm" /\ ~ tpm
  BY <1>1, Zenon DEF SetOrExtend, IInv
<1>2. CASE ~ (Instr.op = "tpm" /\ ~ tpm)
  <2> DEFINE v == [n \in DOMAIN Top.values |-> Apply(Instr, Top.values[n])]
  <2>1. iter' = Consumed /\ contexts' = WithTopValues(v) /\ phase' = "walk" /\ phase = "walk"
    BY <1>2, Zenon DEF SetOrExtend, HasInstr
  <2>2. PICK S : contexts \in Seq(Context(S))
    BY Zenon DEF IInv
  <2> DEFINE T == S \cup {Apply(Instr, Top.values[n]) : n \in DOMAIN Top.values}
  <2>3. contexts \in Seq(Context(T))
    BY <2>2, ContextMonotonic, Zenon
  <2>4. Len(contexts) \in Nat /\ Len(contexts) >= 1
    BY <2>1, <2>2, LenProperties, Zenon DEF IInv, Rooted
  <2>5. Top.values \in Seq(S)
    BY <2>2, <2>4, TopSeq, SMTT(30)
  <2>6. DOMAIN Top.values = 1 .. Len(Top.values) /\ Len(Top.values) \in Nat
    BY <2>5, LenProperties, SMTT(30)
  <2>7. v \in Seq(T) /\ Len(v) = Len(Top.values)
    BY <2>6
  <2>8. v = <<>> => Top.values = <<>>
    BY <2>5, <2>7, EmptySeq, SMTT(30)
  <2> HIDE DEF v, T
  <2>9. /\ contexts' \in Seq(Context(T)) /\ Len(contexts') = Len(contexts)
        /\ \A n \in 1 .. Len(contexts) :
             /\ contexts'[n].parent = contexts[n].parent
             /\ contexts'[n].values = IF n = Len(contexts) THEN v ELSE contexts[n].values
    BY <2>1, <2>3, <2>4, <2>7, TopValues, SMTT(30)
  <2> DEFINE cs == contexts'
  <2>10. Rooted(contexts) /\ Fed(contexts) /\ Len(iter) = Len(contexts)
    BY <2>1, Zenon DEF IInv
  <2>11. Rooted(cs)
    BY <2>4, <2>9, <2>10 DEF Rooted
  <2>12. \A n \in 1 .. Len(contexts) : cs[n].values = <<>> => contexts[n].values = <<>>
    BY <2>4, <2>8, <2>9, Zenon DEF Top
  <2>13. Fed(cs)
    BY <2>4, <2>9, <2>10, <2>12, SMTT(30) DEF Fed
  <2>14. iter' \in Seq(Seq(Instructions)) /\ Len(iter') = Len(iter)
    BY <2>1, ConsumedSeq, Zenon DEF SetOrExtend
  <2> QED BY <2>1, <2>9, <2>10, <2>11, <2>13, <2>14, SMTT(30) DEF IInv
<1> QED BY <1>1, <1>2, Zenon

\* An "or" without profiles leaves the contexts alone.
LEMMA SkipEmptyOrStep == ASSUME IInv, SkipEmptyOr PROVE IInv'
  BY ConsumedSeq, Zenon DEF IInv, SkipEmptyOr, Rooted, Fed

\* The old top context keeps its place, and its values go to its branches.
LEMMA BranchStep == ASSUME IInv, Branch PROVE IInv'
<1> DEFINE k == Len(Instr.profiles)
           new == BranchContexts(k)
           old == WithTopValues(<<>>)
           cs == contexts'
<1>1. phase = "walk" /\ phase' = "walk" /\ iter' = Instr.profiles \o Consumed /\ cs = old \o new
  BY Zenon DEF Branch, HasInstr
<1>2. PICK S : contexts \in Seq(Context(S))
  BY Zenon DEF IInv
<1>3. Rooted(contexts) /\ Fed(contexts) /\ Len(iter) = Len(contexts)
  BY <1>1, Zenon DEF IInv
<1>4. Len(contexts) \in Nat /\ Len(contexts) >= 1
  BY <1>2, <1>3, LenProperties, SMTT(30) DEF Rooted
<1>5. Top.values \in Seq(S)
  BY <1>2, <1>4, TopSeq, SMTT(30)
<1>6. Top.values # <<>>
  BY <1>3, <1>4 DEF Fed, Top
<1>7. Instr.profiles \in Seq(Seq(Instructions)) /\ Instr.profiles # <<>>
  BY ConsumedSeq, ProfilesAssumption, Zenon DEF Branch
<1>8. k \in Nat /\ k >= 1
  BY <1>7, EmptySeq, LenProperties
<1>9. Consumed \in Seq(Seq(Instructions)) /\ Len(Consumed) = Len(iter)
  BY ConsumedSeq, Zenon DEF Branch
<1>10. iter' \in Seq(Seq(Instructions)) /\ Len(iter') = k + Len(iter)
  <2>1. /\ Instr.profiles \o Consumed \in Seq(Seq(Instructions))
        /\ Len(Instr.profiles \o Consumed) = Len(Instr.profiles) + Len(Consumed)
    BY <1>7, <1>9, ConcatProperties, ZenonT(30)
  <2> QED BY <2>1, <1>1, <1>9, Zenon
<1>11. /\ old \in Seq(Context(S)) /\ Len(old) = Len(contexts)
       /\ \A n \in 1 .. Len(contexts) :
            /\ old[n].parent = contexts[n].parent
            /\ old[n].values = IF n = Len(contexts) THEN <<>> ELSE contexts[n].values
  BY <1>2, <1>4, EmptySeq, TopValues, ZenonT(30)
<1>12. /\ new \in Seq(Context(S)) /\ Len(new) = k
       /\ \A n \in 1 .. k : new[n].parent = Len(contexts) /\ new[n].values = Top.values
  BY <1>4, <1>5, <1>8 DEF BranchContexts, Context
<1> HIDE DEF k, new, old
<1>13. /\ cs \in Seq(Context(S)) /\ Len(cs) = Len(contexts) + k
       /\ \A n \in 1 .. Len(contexts) + k :
            cs[n] = IF n <= Len(contexts) THEN old[n] ELSE new[n - Len(contexts)]
  <2>1. /\ old \o new \in Seq(Context(S)) /\ Len(old \o new) = Len(old) + Len(new)
        /\ \A n \in 1 .. Len(old) + Len(new) :
             (old \o new)[n] = IF n <= Len(old) THEN old[n] ELSE new[n - Len(old)]
    <3>1. old \in Seq(Context(S)) /\ new \in Seq(Context(S))
      BY <1>11, <1>12, Zenon
    <3> QED BY <3>1, ConcatProperties, Zenon
  <2> QED BY <2>1, <1>1, <1>11, <1>12, Zenon
<1> HIDE DEF cs
<1>14. \A n \in 1 .. Len(contexts) : cs[n].parent = contexts[n].parent
  BY <1>4, <1>8, <1>11, <1>13
<1>15. \A n \in Len(contexts) + 1 .. Len(contexts) + k :
         cs[n].parent = Len(contexts) /\ cs[n].values = Top.values
  BY <1>4, <1>8, <1>12, <1>13
<1>16. Rooted(cs)
  <2>1. Len(cs) >= 1 /\ cs[1].parent = 0
    BY <1>3, <1>4, <1>8, <1>13, <1>14, SMTT(30) DEF Rooted
  <2>2. ASSUME NEW n \in 2 .. Len(cs) PROVE cs[n].parent \in 1 .. n - 1
    <3>1. CASE n <= Len(contexts)
      BY <3>1, <1>3, <1>4, <1>14 DEF Rooted
    <3>2. CASE n > Len(contexts)
      BY <3>2, <1>4, <1>8, <1>13, <1>15, SMTT(30)
    <3> QED BY <3>1, <3>2, <1>4, <1>8, <1>13, SMTT(30)
  <2> QED BY <2>1, <2>2, Zenon DEF Rooted
<1>17. ASSUME NEW n \in 1 .. Len(cs), cs[n].values = <<>>
       PROVE  \E m \in n + 1 .. Len(cs) : cs[m].parent = n
  <2>1. n <= Len(contexts)
    BY <1>4, <1>6, <1>8, <1>13, <1>15, <1>17, SMTT(30)
  <2>2. CASE n = Len(contexts)
    <3>1. n + 1 \in n + 1 .. Len(cs) /\ cs[n + 1].parent = n
      BY <2>2, <1>4, <1>8, <1>13, <1>15, SMTT(30)
    <3> QED BY <3>1, Zenon
  <2>3. CASE n < Len(contexts)
    <3>1. contexts[n].values = <<>>
      BY <2>3, <1>4, <1>8, <1>11, <1>13, <1>17, SMTT(30)
    <3>2. PICK m \in n + 1 .. Len(contexts) : contexts[m].parent = n
      BY <3>1, <2>3, <1>3, <1>4 DEF Fed
    <3> QED BY <3>2, <1>4, <1>8, <1>13, <1>14, SMTT(30)
  <2> QED BY <2>1, <2>2, <2>3, <1>4
<1>18. Fed(cs)
  BY <1>17, Zenon DEF Fed
<1> QED BY <1>1, <1>3, <1>4, <1>8, <1>10, <1>13, <1>16, <1>18, SMTT(30) DEF IInv, cs

\* A branch ends: its parent gets its values, and the next one goes on.
LEMMA EndBranchStep == ASSUME IInv, EndBranch PROVE IInv'
<1> DEFINE N == Len(contexts)
           p == Top.parent
           rest == SubSeq(contexts, 1, Len(contexts) - 1)
           fed == [rest[p] EXCEPT !.values = @ \o Top.values]
           cs == contexts'
<1>1. phase = "walk" /\ phase' = "walk" /\ iter # <<>> /\ iter' = Tail(iter) /\ p # 0
      /\ cs = [rest EXCEPT ![p] = fed]
  BY Zenon DEF EndBranch, Parent
<1>2. PICK S : contexts \in Seq(Context(S))
  BY Zenon DEF IInv
<1>3. Rooted(contexts) /\ Fed(contexts) /\ Len(iter) = N
  BY <1>1, Zenon DEF IInv
<1>4. N \in Nat /\ N >= 1
  BY <1>2, <1>3, LenProperties, SMTT(30) DEF Rooted
<1>5. N >= 2 /\ p \in 1 .. N - 1
  BY <1>1, <1>3, <1>4 DEF Rooted, Top
<1>6. Top.values \in Seq(S) /\ Top.values # <<>>
  <2>1. Top.values # <<>>
    BY <1>3, <1>4 DEF Fed, Top
  <2> QED BY <2>1, <1>2, <1>4, TopSeq, Zenon
<1>7. /\ rest \in Seq(Context(S)) /\ Len(rest) = N - 1
      /\ \A n \in 1 .. N - 1 : rest[n] = contexts[n]
  <2>1. \A n \in 1 .. N - 1 : contexts[n] \in Context(S)
    BY <1>2, <1>4, ElementOfSeq
  <2> QED BY <2>1, <1>4, <1>5, SubSeqProperties
<1>8. iter' \in Seq(Seq(Instructions)) /\ Len(iter') = N - 1
  BY <1>1, <1>3, HeadTailProperties, Zenon DEF IInv
<1>9. rest[p] \in Context(S)
  BY <1>5, <1>7, ElementOfSeq, Zenon
<1>10. rest[p].values \o Top.values \in Seq(S) /\ rest[p].values \o Top.values # <<>>
  <2> DEFINE v == rest[p].values
             w == Top.values
  <2>1. v \in Seq(S) /\ w \in Seq(S) /\ w # <<>>
    BY <1>6, <1>9, Zenon DEF Context
  <2> HIDE DEF v, w
  <2>2. v \o w \in Seq(S) /\ v \o w # <<>>
    BY <2>1, ConcatProperties, ConcatEqualIffEmpty
  <2> QED BY <2>2, Zenon DEF v, w
<1>11. fed \in Context(S) /\ fed.parent = contexts[p].parent /\ fed.values # <<>>
  BY <1>5, <1>7, <1>9, <1>10, ZenonT(30) DEF Context
<1> HIDE DEF fed, rest
<1>12. /\ cs \in Seq(Context(S)) /\ Len(cs) = N - 1
       /\ \A n \in 1 .. N - 1 : cs[n] = IF n = p THEN fed ELSE contexts[n]
  BY <1>1, <1>5, <1>7, <1>11, ExceptSeq, SMTT(30)
<1> HIDE DEF cs
<1>13. \A n \in 1 .. N - 1 : cs[n].parent = contexts[n].parent
  BY <1>11, <1>12, Zenon
<1>14. Rooted(cs)
  BY <1>3, <1>4, <1>5, <1>12, <1>13, SMTT(30) DEF Rooted
<1>15. ASSUME NEW n \in 1 .. Len(cs), cs[n].values = <<>>
       PROVE  \E m \in n + 1 .. Len(cs) : cs[m].parent = n
  <2>1. n # p /\ n \in 1 .. N - 1 /\ contexts[n].values = <<>>
    BY <1>4, <1>5, <1>11, <1>12, <1>15, SMTT(30)
  <2>2. PICK m \in n + 1 .. N : contexts[m].parent = n
    BY <2>1, <1>3, <1>4 DEF Fed
  <2>3. m # N
    BY <2>1, <2>2, Zenon DEF Top
  <2>4. m \in n + 1 .. Len(cs) /\ m \in 1 .. N - 1
    <3>1. N \in Nat /\ Len(cs) = N - 1 /\ n \in 1 .. N - 1
      BY <2>1, <1>4, <1>12, Zenon
    <3> HIDE DEF N
    <3> QED BY <3>1, <2>2, <2>3
  <2> QED BY <2>2, <2>4, <1>13, Zenon
<1>16. Fed(cs)
  BY <1>15, Zenon DEF Fed
<1> QED BY <1>1, <1>4, <1>8, <1>12, <1>14, <1>16, SMTT(30) DEF IInv, cs

\* Every step preserves IInv.
LEMMA NextPreserves == IInv /\ [Next]_vars => IInv'
<1> SUFFICES ASSUME IInv, [Next]_vars PROVE IInv'
  BY Zenon
<1>1. CASE UNCHANGED vars
  BY <1>1, Zenon DEF vars, IInv, Rooted, Fed
<1>2. CASE EndRoot
  BY <1>2, HeadTailProperties, Zenon DEF EndRoot, IInv
<1>3. CASE ComputePCRDigests \/ UniqueDigest \/ ReturnDigests
  BY <1>3, Zenon DEF ComputePCRDigests, UniqueDigest, ReturnDigests, IInv
<1> QED
  BY <1>1, <1>2, <1>3, SetOrExtendStep, SkipEmptyOrStep, BranchStep, EndBranchStep, SMTT(30)
  DEF Next, Done

(***************************************************************************)
(* For every profile, computePCRValues has a context for every branch that *)
(* is open or waits, its parent is below it, and the top context is never  *)
(* without values: next() does not run out of instructions before the end, *)
(* and no branch gets the values of another.                               *)
(***************************************************************************)
THEOREM StacksStayAligned == Spec => []StacksAligned
  BY IInvImplies, InitEstablishes, NextPreserves, PTL DEF Spec
-----------------------------------------------------------------------------
(***************************************************************************)
(* The walkers: After satisfies its equation, and where a walker gets in   *)
(* the end does not depend on the bound Longest.                           *)
(***************************************************************************)
\* Induction over the natural numbers, for a set.
LEMMA NatInductive ==
  ASSUME NEW T, 0 \in T, \A n \in Nat : n \in T => n + 1 \in T
  PROVE  Nat \subseteq T
<1> SUFFICES ASSUME Nat \ T # {} PROVE FALSE
  BY Zenon
<1> DEFINE R == OpToRel(<, Nat)
<1>1. IsWellFoundedOn(R, Nat) /\ Nat \ T \subseteq Nat
  BY NatLessThanWellFounded, Zenon
<1>2. \A i, j \in Nat : i < j => <<i, j>> \in R
  BY SMT DEF OpToRel
<1> HIDE DEF R
<1>3. PICK i \in Nat \ T : \A j \in Nat \ T : ~ (<<j, i>> \in R)
  BY <1>1, WFMin, Zenon
<1>4. i # 0 /\ i - 1 \in Nat /\ i - 1 < i /\ i - 1 + 1 = i
  BY <1>3, SMT
<1>5. i - 1 \notin T
  BY <1>3, <1>4, Zenon
<1> QED BY <1>2, <1>3, <1>4, <1>5, Zenon

\* walkers is defined on the first n numbers by f.
Walked(b, x, n, f) ==
  f = [k \in 0 .. n |-> IF k = 0 THEN {x} ELSE UNION {Onward(b, y) : y \in f[k - 1]}]

\* Where the walkers ws are one step later.
AllOnward(b, ws) == UNION {Onward(b, y) : y \in ws}

Steps(b, n, f) == \A k \in Nat : k + 1 \in 0 .. n => f[k + 1] = AllOnward(b, f[k])

\* What walkers does from one number to the next.
LEMMA WalkedSteps ==
  ASSUME NEW b, NEW x, NEW n \in Nat, NEW f, Walked(b, x, n, f)
  PROVE  Steps(b, n, f)
<1> SUFFICES ASSUME NEW k \in Nat, k + 1 \in 0 .. n PROVE f[k + 1] = AllOnward(b, f[k])
  BY Zenon DEF Steps
<1>1. ASSUME NEW j \in 0 .. n PROVE f[j] = IF j = 0 THEN {x} ELSE UNION {Onward(b, y) : y \in f[j - 1]}
  BY Zenon DEF Walked
<1>2. ASSUME NEW j \in 0 .. n, j # 0, j - 1 = k PROVE f[j] = UNION {Onward(b, y) : y \in f[k]}
  BY <1>1, <1>2, Zenon
<1> DEFINE j == k + 1
<1>3. j \in 0 .. n /\ j # 0 /\ j - 1 = k
  BY SMT
<1> HIDE DEF j
<1>4. f[j] = UNION {Onward(b, y) : y \in f[k]}
  BY <1>2, <1>3, Zenon
<1> QED BY <1>4, Zenon DEF j, AllOnward

\* Two such functions agree where both are defined.
LEMMA WalkedIsUnique ==
  ASSUME NEW b, NEW x, NEW m \in Nat, NEW n \in Nat, NEW f, NEW g,
         Walked(b, x, m, f), Walked(b, x, n, g)
  PROVE  \A k \in Nat : k <= m /\ k <= n => f[k] = g[k]
<1> DEFINE T == {k \in Nat : k <= m /\ k <= n => f[k] = g[k]}
<1>1. 0 \in T
  BY SMT DEF Walked
<1>2. Steps(b, m, f) /\ Steps(b, n, g)
  BY WalkedSteps, Zenon
<1>3. ASSUME NEW k \in Nat, k \in T PROVE k + 1 \in T
  <2> SUFFICES ASSUME k + 1 <= m, k + 1 <= n PROVE f[k + 1] = g[k + 1]
    OBVIOUS
  <2>1. k <= m /\ k <= n /\ k + 1 \in 0 .. m /\ k + 1 \in 0 .. n /\ k + 1 # 0 /\ k + 1 - 1 = k
    BY SMT
  <2>2. f[k] = g[k]
    BY <1>3, <2>1, Zenon
  <2>3. f[k + 1] = AllOnward(b, f[k])
    BY <2>1, <1>2, Zenon DEF Steps
  <2>4. g[k + 1] = AllOnward(b, g[k])
    BY <2>1, <1>2, Zenon DEF Steps
  <2> QED BY <2>2, <2>3, <2>4, Zenon
<1> HIDE DEF T
<1>4. Nat \subseteq T
  BY <1>1, <1>3, NatInductive, Zenon
<1> QED BY <1>4, Zenon DEF T

\* There is such a function for every n.
LEMMA WalkedExists ==
  ASSUME NEW b, NEW x
  PROVE  \A n \in Nat : \E f : Walked(b, x, n, f)
<1> DEFINE T == {n \in Nat : \E f : Walked(b, x, n, f)}
<1>1. 0 \in T
  <2> DEFINE f == [k \in 0 .. 0 |-> {x}]
  <2>1. Walked(b, x, 0, f)
    BY SMT DEF Walked
  <2> QED BY <2>1, Zenon
<1>2. ASSUME NEW n \in Nat, n \in T PROVE n + 1 \in T
  <2>1. PICK f : Walked(b, x, n, f)
    BY <1>2, Zenon
  <2> DEFINE g == [k \in 0 .. n + 1 |->
                     IF k = n + 1 THEN UNION {Onward(b, y) : y \in f[n]} ELSE f[k]]
             G(k) == IF k = 0 THEN {x} ELSE UNION {Onward(b, y) : y \in g[k - 1]}
  <2>2. ASSUME NEW k \in 0 .. n + 1 PROVE g[k] = G(k)
    <3>1. CASE k = n + 1
      <4>1. k # 0 /\ k - 1 = n /\ n \in 0 .. n + 1 /\ n # n + 1
        BY <3>1, SMT
      <4>2. g[k - 1] = f[n]
        BY <4>1, Zenon
      <4>3. g[k] = UNION {Onward(b, y) : y \in f[n]}
        BY <3>1, Zenon
      <4> HIDE DEF g
      <4> QED BY <4>1, <4>2, <4>3, Zenon
    <3>2. CASE k # n + 1
      <4>1. k \in 0 .. n
        BY <3>2, SMT
      <4>2. g[k] = f[k]
        BY <3>2, Zenon
      <4>3. f[k] = IF k = 0 THEN {x} ELSE UNION {Onward(b, y) : y \in f[k - 1]}
        BY <2>1, <4>1, Zenon DEF Walked
      <4>4. k # 0 => k - 1 \in 0 .. n + 1 /\ k - 1 # n + 1
        BY <4>1, SMT
      <4>5. k # 0 => g[k - 1] = f[k - 1]
        BY <4>4, Zenon
      <4> HIDE DEF g
      <4> QED BY <4>2, <4>3, <4>5, Zenon
    <3> QED BY <3>1, <3>2, Zenon
  <2>3. g = [k \in 0 .. n + 1 |-> G(k)]
    <3>1. g = [k \in 0 .. n + 1 |-> g[k]]
      BY Zenon
    <3> HIDE DEF g
    <3> QED BY <3>1, <2>2, Zenon
  <2> HIDE DEF g
  <2>4. Walked(b, x, n + 1, g)
    BY <2>3, Zenon DEF Walked
  <2> QED BY <2>4, SMT
<1> HIDE DEF T
<1>3. Nat \subseteq T
  BY <1>1, <1>2, NatInductive, Zenon
<1> QED BY <1>3, Zenon DEF T

\* The equation of walkers.
LEMMA AfterEquation ==
  ASSUME NEW b, NEW x
  PROVE  /\ After(b, x)[0] = {x}
         /\ \A n \in Nat : After(b, x)[n + 1] = UNION {Onward(b, y) : y \in After(b, x)[n]}
<1> DEFINE F(n) == CHOOSE f : Walked(b, x, n, f)
           w == [n \in Nat |-> F(n)[n]]
           W(n) == IF n = 0 THEN {x} ELSE UNION {Onward(b, y) : y \in w[n - 1]}
<1>1. \A n \in Nat : Walked(b, x, n, F(n))
  BY WalkedExists, Zenon
<1>2. ASSUME NEW n \in Nat PROVE w[n] = W(n)
  <2>1. n \in 0 .. n
    BY SMT
  <2>2. F(n)[n] = IF n = 0 THEN {x} ELSE UNION {Onward(b, y) : y \in F(n)[n - 1]}
    BY <1>1, <2>1, Zenon DEF Walked
  <2>3. w[n] = F(n)[n]
    BY Zenon
  <2>4. ASSUME n # 0 PROVE w[n - 1] = F(n)[n - 1]
    <3>1. n - 1 \in Nat /\ n - 1 <= n /\ n - 1 <= n - 1
      BY <2>4, SMT
    <3>2. Walked(b, x, n, F(n)) /\ Walked(b, x, n - 1, F(n - 1))
      BY <1>1, <3>1, Zenon
    <3>3. w[n - 1] = F(n - 1)[n - 1]
      BY <3>1, Zenon
    <3> HIDE DEF F, w
    <3> QED BY <3>1, <3>2, <3>3, WalkedIsUnique
  <2> HIDE DEF F, w
  <2> QED BY <2>2, <2>3, <2>4, Zenon
<1>3. w = [n \in Nat |-> W(n)]
  <2>1. w = [n \in Nat |-> w[n]]
    OBVIOUS
  <2> HIDE DEF w
  <2> QED BY <2>1, <1>2, Zenon
<1> DEFINE g == After(b, x)
           G(n) == IF n = 0 THEN {x} ELSE UNION {Onward(b, y) : y \in g[n - 1]}
<1> HIDE DEF w
<1>4. g = [n \in Nat |-> G(n)]
  BY <1>3, Zenon DEF After
<1> HIDE DEF g
<1>5. \A n \in Nat : g[n] = G(n)
  BY <1>4, Zenon
<1>6. g[0] = {x}
  <2>1. 0 \in Nat
    BY SMT
  <2> HIDE DEF g
  <2>2. g[0] = G(0)
    BY <1>5, <2>1, Zenon
  <2> QED BY <2>2, Zenon
<1>7. ASSUME NEW n \in Nat PROVE g[n + 1] = UNION {Onward(b, y) : y \in g[n]}
  <2> DEFINE j == n + 1
  <2>1. j \in Nat /\ j # 0 /\ j - 1 = n
    BY SMT
  <2> HIDE DEF j
  <2>2. g[j] = UNION {Onward(b, y) : y \in g[n]}
    BY <1>5, <2>1, Zenon
  <2> QED BY <2>2, Zenon DEF j
<1> QED BY <1>6, <1>7, Zenon DEF g

\* Some walker gets from x to y.
Leads(b, x, y) == \E n \in Nat : y \in After(b, x)[n]

\* A walker of step n + 1 comes from one of step n.
LEMMA AfterMember ==
  ASSUME NEW b, NEW x, NEW n \in Nat
  PROVE  \A w : w \in After(b, x)[n + 1] <=> \E y \in After(b, x)[n] : w \in Onward(b, y)
<1> DEFINE S == After(b, x)[n]
           U == After(b, x)[n + 1]
<1>1. U = UNION {Onward(b, y) : y \in S}
  BY AfterEquation
<1> HIDE DEF S, U
<1>2. \A w : w \in U <=> \E y \in S : w \in Onward(b, y)
  BY <1>1, Zenon
<1> QED BY <1>2, Zenon DEF S, U

\* The first step may be taken first.
LEMMA FirstStep ==
  ASSUME NEW b, NEW x
  PROVE  \A n \in Nat : \A w :
           w \in After(b, x)[n + 1] <=> \E z \in Onward(b, x) : w \in After(b, z)[n]
<1> DEFINE T == {n \in Nat : \A w :
                   w \in After(b, x)[n + 1] <=> \E z \in Onward(b, x) : w \in After(b, z)[n]}
<1>1. 0 \in T
  <2>1. 0 \in Nat
    BY SMT
  <2>2. \A w : w \in After(b, x)[0 + 1] <=> w \in Onward(b, x)
    <3>1. \A w : w \in After(b, x)[0 + 1] <=> \E y \in After(b, x)[0] : w \in Onward(b, y)
      BY <2>1, AfterMember, Zenon
    <3>2. \A y : y \in After(b, x)[0] <=> y = x
      BY AfterEquation, Zenon
    <3> QED BY <3>1, <3>2
  <2>3. \A z : After(b, z)[0] = {z}
    BY AfterEquation, Zenon
  <2> QED BY <2>1, <2>2, <2>3, Zenon
<1>2. ASSUME NEW n \in Nat, n \in T PROVE n + 1 \in T
  <2>1. n + 1 \in Nat
    BY SMT
  <2>2. ASSUME NEW w
        PROVE  w \in After(b, x)[n + 1 + 1] <=> \E z \in Onward(b, x) : w \in After(b, z)[n + 1]
    <3>1. w \in After(b, x)[n + 1 + 1] <=> \E y \in After(b, x)[n + 1] : w \in Onward(b, y)
      BY <2>1, AfterMember, Zenon
    <3>2. \A y : y \in After(b, x)[n + 1] <=> \E z \in Onward(b, x) : y \in After(b, z)[n]
      BY <1>2, Zenon
    <3>3. \A z : w \in After(b, z)[n + 1] <=> \E y \in After(b, z)[n] : w \in Onward(b, y)
      BY AfterMember, Zenon
    <3> QED BY <3>1, <3>2, <3>3, Zenon
  <2> QED BY <2>1, <2>2, Zenon
<1> HIDE DEF T
<1>3. Nat \subseteq T
  BY <1>1, <1>2, NatInductive, Zenon
<1> QED BY <1>3, Zenon DEF T

\* A walker that has ended stays.
LEMMA EndedStays ==
  ASSUME NEW b, NEW x, Ended(b, x)
  PROVE  \A n \in Nat : After(b, x)[n] = {x}
<1> DEFINE T == {n \in Nat : After(b, x)[n] = {x}}
<1>1. 0 \in T
  BY AfterEquation, Zenon
<1>2. ASSUME NEW n \in Nat, n \in T PROVE n + 1 \in T
  <2>1. Onward(b, x) = {x}
    BY Zenon DEF Onward
  <2>2. \A w : w \in After(b, x)[n + 1] <=> \E y \in After(b, x)[n] : w \in Onward(b, y)
    BY AfterMember, Zenon
  <2>3. \A y : y \in After(b, x)[n] <=> y = x
    BY <1>2, Zenon
  <2>4. \A w : w \in After(b, x)[n + 1] <=> w = x
    BY <2>1, <2>2, <2>3
  <2>5. After(b, x)[n + 1] = {x} /\ n + 1 \in Nat
    BY <2>4
  <2> QED BY <2>5, Zenon
<1> HIDE DEF T
<1>3. Nat \subseteq T
  BY <1>1, <1>2, NatInductive, Zenon
<1> QED BY <1>3, Zenon DEF T

\* What a walker gets to, by what it does first.
LEMMA LeadsEnded ==
  ASSUME NEW b, NEW x, Ended(b, x), NEW y
  PROVE  Leads(b, x, y) <=> y = x
<1>1. 0 \in Nat
  BY SMT
<1>2. \A n \in Nat : y \in After(b, x)[n] <=> y = x
  <2>1. \A n \in Nat : After(b, x)[n] = {x}
    BY EndedStays, Zenon
  <2> QED BY <2>1
<1> QED BY <1>1, <1>2, Zenon DEF Leads

\* A walker that has not ended goes where one of its next steps goes.
LEMMA LeadsOnward ==
  ASSUME NEW b, NEW x, ~ Ended(b, x), NEW y, Ended(b, y)
  PROVE  Leads(b, x, y) <=> \E z \in Onward(b, x) : Leads(b, z, y)
<1>1. ASSUME Leads(b, x, y) PROVE \E z \in Onward(b, x) : Leads(b, z, y)
  <2>1. PICK n \in Nat : y \in After(b, x)[n]
    BY <1>1, Zenon DEF Leads
  <2>2. n # 0
    BY <2>1, AfterEquation, Zenon
  <2>3. PICK m \in Nat : n = m + 1
    <3>1. n - 1 \in Nat /\ n = n - 1 + 1
      BY <2>2, SMT
    <3> QED BY <3>1, Zenon
  <2> QED BY <2>1, <2>3, FirstStep, Zenon DEF Leads
<1>2. ASSUME NEW z \in Onward(b, x), Leads(b, z, y) PROVE Leads(b, x, y)
  <2>1. PICK n \in Nat : y \in After(b, z)[n]
    BY <1>2, Zenon DEF Leads
  <2>2. n + 1 \in Nat
    BY SMT
  <2> QED BY <2>1, <2>2, FirstStep, Zenon DEF Leads
<1> QED BY <1>1, <1>2, Zenon

\* Once all walkers have ended, they are where walkers ever end.
LEMMA LeadsToTheEnd ==
  ASSUME NEW b, NEW x, NEW N \in Nat, \A y \in After(b, x)[N] : Ended(b, y), NEW y, Ended(b, y)
  PROVE  Leads(b, x, y) <=> y \in After(b, x)[N]
<1>1. \A z : Ended(b, z) => Onward(b, z) = {z}
  BY Zenon DEF Onward
<1> DEFINE T(n) == {k \in Nat : y \in After(b, x)[n] => y \in After(b, x)[n + k]}
           U == {k \in Nat : After(b, x)[N + k] = After(b, x)[N]}
<1>2. ASSUME NEW n \in Nat PROVE Nat \subseteq T(n)
  <2>1. 0 \in T(n)
    BY SMT
  <2>2. ASSUME NEW k \in Nat, k \in T(n) PROVE k + 1 \in T(n)
    <3>1. n + k \in Nat /\ n + (k + 1) = n + k + 1 /\ k + 1 \in Nat
      BY SMT
    <3>2. y \in After(b, x)[n + k] => y \in After(b, x)[n + k + 1]
      BY <1>1, <3>1, AfterMember, Zenon
    <3>3. y \in After(b, x)[n] => y \in After(b, x)[n + (k + 1)]
      BY <2>2, <3>1, <3>2, Zenon
    <3> QED BY <3>1, <3>3, Zenon
  <2> HIDE DEF T
  <2> QED BY <2>1, <2>2, NatInductive, Zenon
<1>3. Nat \subseteq U
  <2>1. 0 \in U
    BY SMT
  <2>2. ASSUME NEW k \in Nat, k \in U PROVE k + 1 \in U
    <3>1. N + k \in Nat /\ N + (k + 1) = N + k + 1 /\ k + 1 \in Nat
      BY SMT
    <3>2. \A w : w \in After(b, x)[N + k + 1] <=> \E z \in After(b, x)[N + k] : w \in Onward(b, z)
      BY <3>1, AfterMember, Zenon
    <3>3. \A z \in After(b, x)[N + k] : Onward(b, z) = {z}
      BY <1>1, <2>2, Zenon
    <3>4. \A w : w \in After(b, x)[N + k + 1] <=> w \in After(b, x)[N + k]
      BY <3>2, <3>3
    <3>5. After(b, x)[N + k + 1] = After(b, x)[N + k]
      BY <3>4, Zenon
    <3>6. After(b, x)[N + (k + 1)] = After(b, x)[N]
      BY <2>2, <3>1, <3>5, Zenon
    <3> QED BY <3>1, <3>6, Zenon
  <2> HIDE DEF U
  <2> QED BY <2>1, <2>2, NatInductive, Zenon
<1>4. ASSUME NEW n \in Nat, y \in After(b, x)[n] PROVE y \in After(b, x)[N]
  <2>1. CASE n <= N
    <3>1. N - n \in Nat /\ n + (N - n) = N
      BY <2>1, SMT
    <3>2. N - n \in T(n)
      BY <1>2, <3>1, Zenon
    <3> QED BY <1>4, <3>1, <3>2, Zenon
  <2>2. CASE ~ (n <= N)
    <3>1. n - N \in Nat /\ N + (n - N) = n
      BY <2>2, SMT
    <3>2. n - N \in U
      BY <1>3, <3>1, Zenon
    <3> QED BY <1>4, <3>1, <3>2, Zenon
  <2> QED BY <2>1, <2>2, Zenon
<1> QED BY <1>4, Zenon DEF Leads
-----------------------------------------------------------------------------
(***************************************************************************)
(* What the instructions do to a context, and what is left to do in it.    *)
(***************************************************************************)
\* A walker gets to y from todo with some of the values.
HasFrom(b, todo, values, y) ==
  \E k \in 1 .. Len(values) : Leads(b, <<todo, values[k]>>, y)

\* An instruction other than "or": all values take the step together.
LEMMA HasFromSimple ==
  ASSUME NEW b, NEW todo, todo # <<>>, Head(todo).op # "or", ~ (Head(todo).op = "tpm" /\ ~ b),
         NEW S, NEW values \in Seq(S), NEW y, Ended(b, y)
  PROVE  HasFrom(b, todo, values, y) <=>
         HasFrom(b, Tail(todo), [n \in DOMAIN values |-> Apply(Head(todo), values[n])], y)
<1> DEFINE w == [n \in DOMAIN values |-> Apply(Head(todo), values[n])]
<1>1. /\ DOMAIN values = 1 .. Len(values) /\ Len(values) \in Nat
      /\ Len(w) = Len(values) /\ \A k \in 1 .. Len(values) : w[k] = Apply(Head(todo), values[k])
  BY SMT
<1>2. ASSUME NEW v
      PROVE  Leads(b, <<todo, v>>, y) <=> Leads(b, <<Tail(todo), Apply(Head(todo), v)>>, y)
  <2> DEFINE x == <<todo, v>>
             t == <<Tail(todo), Apply(Head(todo), v)>>
  <2>1. x[1] = todo /\ x[2] = v
    BY SMT
  <2>2. ~ Ended(b, x)
    BY <2>1, Zenon DEF Ended
  <2>3. Onward(b, x) = {t}
    BY <2>1, <2>2, Zenon DEF Onward
  <2> HIDE DEF x, t
  <2>4. Leads(b, x, y) <=> \E z \in Onward(b, x) : Leads(b, z, y)
    BY <2>2, LeadsOnward, Zenon
  <2>5. Leads(b, x, y) <=> Leads(b, t, y)
    BY <2>3, <2>4, Zenon
  <2> QED BY <2>5, Zenon DEF x, t
<1> HIDE DEF w
<1>3. HasFrom(b, todo, values, y) <=> HasFrom(b, Tail(todo), w, y)
  BY <1>1, <1>2, Zenon DEF HasFrom
<1> QED BY <1>3, Zenon DEF w

\* An "or": nothing happens without profiles, else one of them comes first.
LEMMA HasFromOr ==
  ASSUME NEW b, NEW todo, todo # <<>>, Head(todo).op = "or", NEW values, NEW y, Ended(b, y)
  PROVE  /\ Head(todo).profiles = <<>> =>
              (HasFrom(b, todo, values, y) <=> HasFrom(b, Tail(todo), values, y))
         /\ Head(todo).profiles # <<>> =>
              (HasFrom(b, todo, values, y) <=>
                 \E k \in DOMAIN Head(todo).profiles :
                   HasFrom(b, Head(todo).profiles[k] \o Tail(todo), values, y))
<1> DEFINE ps == Head(todo).profiles
<1>1. ASSUME NEW v
      PROVE  /\ ps = <<>> => (Leads(b, <<todo, v>>, y) <=> Leads(b, <<Tail(todo), v>>, y))
             /\ ps # <<>> => (Leads(b, <<todo, v>>, y) <=>
                  \E k \in DOMAIN ps : Leads(b, <<ps[k] \o Tail(todo), v>>, y))
  <2> DEFINE x == <<todo, v>>
  <2>1. x[1] = todo /\ x[2] = v
    BY SMT
  <2>2. ~ Ended(b, x)
    BY <2>1, Zenon DEF Ended
  <2>3. /\ ps = <<>> => Onward(b, x) = {<<Tail(todo), v>>}
        /\ ps # <<>> => Onward(b, x) = {<<ps[k] \o Tail(todo), v>> : k \in DOMAIN ps}
    BY <2>1, <2>2, Zenon DEF Onward
  <2> HIDE DEF x, ps
  <2>4. Leads(b, x, y) <=> \E z \in Onward(b, x) : Leads(b, z, y)
    BY <2>2, LeadsOnward, Zenon
  <2>5. ps = <<>> => (Leads(b, x, y) <=> Leads(b, <<Tail(todo), v>>, y))
    <3>1. ps = <<>> => \A z : z \in Onward(b, x) <=> z = <<Tail(todo), v>>
      BY <2>3, Zenon
    <3> QED BY <2>4, <3>1, Zenon
  <2>6. ps # <<>> => (Leads(b, x, y) <=> \E k \in DOMAIN ps : Leads(b, <<ps[k] \o Tail(todo), v>>, y))
    <3>1. ps # <<>> => \A z : z \in Onward(b, x) <=> \E k \in DOMAIN ps : z = <<ps[k] \o Tail(todo), v>>
      BY <2>3, Zenon
    <3> QED BY <2>4, <3>1, Zenon
  <2> QED BY <2>5, <2>6, Zenon DEF x
<1> HIDE DEF ps
<1>2. ps = <<>> => (HasFrom(b, todo, values, y) <=> HasFrom(b, Tail(todo), values, y))
  BY <1>1, Zenon DEF HasFrom
<1>3. ps # <<>> => (HasFrom(b, todo, values, y) <=>
         \E k \in DOMAIN ps : HasFrom(b, ps[k] \o Tail(todo), values, y))
  BY <1>1, Zenon DEF HasFrom
<1> QED BY <1>2, <1>3, Zenon DEF ps

\* finishBranch: the values of two contexts with the same left to do.
LEMMA HasFromConcat ==
  ASSUME NEW b, NEW todo, NEW S, NEW v \in Seq(S), NEW w \in Seq(S), NEW y
  PROVE  HasFrom(b, todo, v \o w, y) <=> HasFrom(b, todo, v, y) \/ HasFrom(b, todo, w, y)
<1>1. /\ Len(v \o w) = Len(v) + Len(w) /\ Len(v) \in Nat /\ Len(w) \in Nat
      /\ \A k \in 1 .. Len(v) : k \in 1 .. Len(v \o w) /\ (v \o w)[k] = v[k]
      /\ \A k \in 1 .. Len(w) : k + Len(v) \in 1 .. Len(v \o w) /\ (v \o w)[k + Len(v)] = w[k]
  BY ConcatProperties, SMTT(30)
<1>2. \A k \in 1 .. Len(v \o w) : k \in 1 .. Len(v) \/ \E j \in 1 .. Len(w) : k = j + Len(v)
  <2> SUFFICES ASSUME NEW k \in 1 .. Len(v \o w), k \notin 1 .. Len(v)
               PROVE  \E j \in 1 .. Len(w) : k = j + Len(v)
    BY Zenon
  <2>1. k - Len(v) \in 1 .. Len(w) /\ k = k - Len(v) + Len(v)
    BY <1>1, SMT
  <2> QED BY <2>1, Zenon
<1> QED BY <1>1, <1>2, Zenon DEF HasFrom

\* A walker with the values v that has come to the end of the profile.
AtEnd(v) == <<<<>>, v>>

\* Nothing is left: the values are where the walkers end.
LEMMA HasFromEnd ==
  ASSUME NEW b, NEW values, NEW y
  PROVE  HasFrom(b, <<>>, values, y) <=> \E k \in 1 .. Len(values) : y = AtEnd(values[k])
<1>1. ASSUME NEW v PROVE Leads(b, AtEnd(v), y) <=> y = AtEnd(v)
  <2>1. Ended(b, AtEnd(v))
    BY SMT DEF Ended, AtEnd
  <2> QED BY <2>1, LeadsEnded, Zenon
<1>2. HasFrom(b, <<>>, values, y) <=> \E k \in 1 .. Len(values) : Leads(b, AtEnd(values[k]), y)
  BY Zenon DEF HasFrom, AtEnd
<1> DEFINE L(k) == Leads(b, AtEnd(values[k]), y)
           E(k) == y = AtEnd(values[k])
<1>3. \A k : L(k) <=> E(k)
  BY <1>1, Zenon
<1> HIDE DEF L, E
<1>4. (\E k \in 1 .. Len(values) : L(k)) <=> \E k \in 1 .. Len(values) : E(k)
  BY <1>3, Zenon
<1> QED BY <1>2, <1>4, Zenon DEF L, E

(***************************************************************************)
(* What is left to do in each context: the rest of its branch, and then    *)
(* what is left in its parent.                                             *)
(***************************************************************************)
Left(it, cs, cont) ==
  /\ cont \in Seq(Seq(Instructions)) /\ Len(cont) = Len(cs)
  /\ cont[1] = it[Len(cs)]
  /\ \A n \in 2 .. Len(cs) : cont[n] = it[Len(cs) - n + 1] \o cont[cs[n].parent]

\* What is left does not depend on the values.
LEMMA LeftSame ==
  ASSUME NEW it, NEW cs, NEW ds, NEW cont, Left(it, cs, cont), Len(ds) = Len(cs), Len(cs) \in Nat,
         \A n \in 1 .. Len(cs) : ds[n].parent = cs[n].parent
  PROVE  Left(it, ds, cont)
<1>1. \A n \in 2 .. Len(cs) : n \in 1 .. Len(cs)
  BY SMT
<1> QED BY <1>1, Zenon DEF Left

\* The first instruction of the innermost branch is the first that is left for it.
LEMMA LeftTop ==
  ASSUME NEW it \in Seq(Seq(Instructions)), NEW cs, Rooted(cs), Len(cs) \in Nat, Len(it) = Len(cs),
         NEW cont, Left(it, cs, cont)
  PROVE  /\ cont[Len(cs)] \in Seq(Instructions) /\ Head(it) \in Seq(Instructions)
         /\ Head(it) # <<>> =>
              /\ cont[Len(cs)] # <<>> /\ Head(cont[Len(cs)]) = Head(Head(it))
              /\ Left(<<Tail(Head(it))>> \o Tail(it), cs, [cont EXCEPT ![Len(cs)] = Tail(cont[Len(cs)])])
<1> DEFINE N == Len(cs)
           next == <<Tail(Head(it))>> \o Tail(it)
           c == [cont EXCEPT ![N] = Tail(cont[N])]
<1>1. N \in Nat /\ N >= 1 /\ N \in 1 .. N /\ 1 \in 1 .. N
  BY SMT DEF Rooted
<1>2. Len(cont) = N /\ cont \in Seq(Seq(Instructions)) /\ \A n \in 1 .. N : cont[n] \in Seq(Instructions)
  BY <1>1, ElementOfSeq, Zenon DEF Left
<1>3. it # <<>> /\ Head(it) = it[1] /\ Head(it) \in Seq(Instructions)
  BY <1>1
<1>4. cs[1].parent = 0 /\ \A n \in 2 .. N : cs[n].parent \in 1 .. n - 1
  BY Zenon DEF Rooted
<1> HIDE DEF N
<1>5. ASSUME Head(it) # <<>>
      PROVE  /\ cont[N] # <<>> /\ Head(cont[N]) = Head(Head(it))
             /\ Tail(cont[N]) \in Seq(Instructions)
             /\ N = 1 => Tail(cont[N]) = Tail(Head(it))
             /\ N # 1 => Tail(cont[N]) = Tail(Head(it)) \o cont[cs[N].parent]
  <2>1. CASE N = 1
    <3>1. cont[N] = Head(it)
      BY <2>1, <1>3, Zenon DEF Left, N
    <3> QED BY <3>1, <2>1, <1>3, <1>5
  <2>2. CASE N # 1
    <3>1. cont[N] = Head(it) \o cont[cs[N].parent]
      <4>1. N \in 2 .. N /\ N - N + 1 = 1
        BY <2>2, <1>1, SMT
      <4> QED BY <4>1, <1>3, Zenon DEF Left, N
    <3>2. cont[cs[N].parent] \in Seq(Instructions)
      <4>1. cs[N].parent \in 1 .. N
        BY <2>2, <1>1, <1>4, SMT
      <4> QED BY <4>1, <1>2, Zenon
    <3> DEFINE h == Head(it)
               t == cont[cs[N].parent]
    <3>3. h \in Seq(Instructions) /\ h # <<>> /\ t \in Seq(Instructions)
      BY <1>3, <1>5, <3>2, Zenon
    <3> HIDE DEF h, t
    <3>4. /\ h \o t # <<>> /\ Head(h \o t) = Head(h)
          /\ Tail(h \o t) = Tail(h) \o t /\ Tail(h \o t) \in Seq(Instructions)
      BY <3>3
    <3> QED BY <2>2, <3>1, <3>4, Zenon DEF h, t
  <2> QED BY <2>1, <2>2, Zenon
<1>6. ASSUME Head(it) # <<>> PROVE Left(next, cs, c)
  <2>1. Tail(Head(it)) \in Seq(Instructions) /\ Tail(it) \in Seq(Seq(Instructions)) /\ Len(Tail(it)) = N - 1
        /\ \A i \in 1 .. N - 1 : Tail(it)[i] = it[i + 1]
    <3>1. Tail(Head(it)) \in Seq(Instructions)
      BY <1>3, <1>6, HeadTailProperties, Zenon
    <3> QED BY <3>1, <1>3, HeadTailProperties, Zenon DEF N
  <2>2. Len(next) = N /\ next[1] = Tail(Head(it)) /\ \A i \in 2 .. N : next[i] = it[i]
    BY <1>1, <2>1, SMTT(30)
  <2>3. /\ c \in Seq(Seq(Instructions)) /\ Len(c) = N /\ c[N] = Tail(cont[N])
        /\ \A n \in 1 .. N - 1 : c[n] = cont[n]
    <3> DEFINE e == Tail(cont[N])
    <3>1. e \in Seq(Instructions)
      BY <1>5, <1>6, Zenon
    <3> HIDE DEF e
    <3>2. /\ [cont EXCEPT ![N] = e] \in Seq(Seq(Instructions)) /\ Len([cont EXCEPT ![N] = e]) = N
          /\ [cont EXCEPT ![N] = e][N] = e
          /\ \A n \in 1 .. N - 1 : [cont EXCEPT ![N] = e][n] = cont[n]
      BY <3>1, <1>1, <1>2
    <3> QED BY <3>2, Zenon DEF e
  <2> HIDE DEF c, next
  <2>4. c[1] = next[N]
    <3>1. CASE N = 1
      BY <3>1, <1>5, <1>6, <2>2, <2>3, Zenon
    <3>2. CASE N # 1
      <4>1. 1 \in 1 .. N - 1 /\ N \in 2 .. N
        BY <3>2, <1>1, SMT
      <4> QED BY <4>1, <2>2, <2>3, Zenon DEF Left, N
    <3> QED BY <3>1, <3>2, Zenon
  <2>5. ASSUME NEW n \in 2 .. N PROVE c[n] = next[N - n + 1] \o c[cs[n].parent]
    <3>1. cs[n].parent \in 1 .. N - 1 /\ c[cs[n].parent] = cont[cs[n].parent]
      <4>1. cs[n].parent \in 1 .. N - 1
        BY <1>1, <1>4, SMT
      <4> QED BY <4>1, <2>3, Zenon
    <3>2. CASE n = N
      <4>1. N - n + 1 = 1 /\ N # 1
        BY <3>2, <1>1, SMT
      <4> QED BY <3>1, <3>2, <4>1, <1>5, <1>6, <2>2, <2>3, Zenon
    <3>3. CASE n # N
      <4>1. n \in 1 .. N - 1 /\ N - n + 1 \in 2 .. N
        BY <3>3, <1>1, SMT
      <4>2. cont[n] = it[N - n + 1] \o cont[cs[n].parent]
        BY Zenon DEF Left, N
      <4> QED BY <3>1, <4>1, <4>2, <2>2, <2>3, Zenon
    <3> QED BY <3>2, <3>3, Zenon
  <2> QED BY <2>3, <2>4, <2>5, Zenon DEF Left, N
<1> QED BY <1>1, <1>2, <1>3, <1>5, <1>6, Zenon DEF N, next, c

\* u is s of length m followed by t of length n.
Joined(u, s, t, m, n) == \A i \in 1 .. m + n : u[i] = IF i <= m THEN s[i] ELSE t[i - m]

Parted(u, s, t, m, n) == (\A i \in 1 .. m : u[i] = s[i]) /\ \A i \in 1 .. n : u[m + i] = t[i]

\* ConcatProperties, with the two parts apart.
LEMMA PartsOf ==
  ASSUME NEW u, NEW s, NEW t, NEW m \in Nat, NEW n \in Nat, Joined(u, s, t, m, n)
  PROVE  Parted(u, s, t, m, n)
  BY SMT DEF Joined, Parted

\* A place below a context is a place in the stack.
LEMMA BelowParent ==
  ASSUME NEW N \in Nat, NEW n \in 1 .. N, NEW p \in 1 .. n - 1
  PROVE  p \in 1 .. N
  BY SMT

\* A function on 1 .. n is a sequence.
LEMMA FunctionSeq ==
  ASSUME NEW S, NEW n \in Nat, NEW f, f = [i \in 1 .. n |-> f[i]], \A i \in 1 .. n : f[i] \in S
  PROVE  f \in Seq(S) /\ Len(f) = n
  BY SMT

\* There is a context for every branch after the contexts that were there.
WithBranches(ds, cs, k) ==
  /\ Len(ds) = Len(cs) + k
  /\ \A n \in 1 .. Len(cs) : ds[n].parent = cs[n].parent
  /\ \A n \in Len(cs) + 1 .. Len(ds) : ds[n].parent = Len(cs)

\* A branch has its own profile to do, and then what is left in its parent.
LeftWithBranches(c, cont, ps, N) ==
  /\ \A n \in 1 .. N : c[n] = cont[n]
  /\ \A j \in 1 .. Len(ps) : c[N + j] = ps[Len(ps) - j + 1] \o cont[N]

\* descendInToProfiles and handleBranches: every branch knows what follows it.
LEMMA LeftBranched ==
  ASSUME NEW it \in Seq(Seq(Instructions)), NEW cs, Rooted(cs), Len(cs) \in Nat, Len(it) = Len(cs),
         NEW cont, Left(it, cs, cont),
         NEW ps \in Seq(Seq(Instructions)), NEW ds, WithBranches(ds, cs, Len(ps))
  PROVE  \E c : Left(ps \o it, ds, c) /\ LeftWithBranches(c, cont, ps, Len(cs))
<1> DEFINE N == Len(cs)
           K == Len(ps)
           M == Len(ds)
           new == [j \in 1 .. K |-> ps[K - j + 1] \o cont[N]]
           c == cont \o new
           next == ps \o it
<1>1. N \in Nat /\ N >= 1 /\ K \in Nat /\ N \in 1 .. N
  BY LenProperties DEF Rooted
<1>2. cont \in Seq(Seq(Instructions)) /\ Len(cont) = N /\ cont[N] \in Seq(Instructions)
  BY <1>1, ElementOfSeq, Zenon DEF Left
<1>3. cs[1].parent = 0 /\ \A n \in 2 .. N : cs[n].parent \in 1 .. n - 1
  BY Zenon DEF Rooted
<1>4. /\ M = N + K
      /\ \A n \in 1 .. N : ds[n].parent = cs[n].parent
      /\ \A n \in N + 1 .. M : ds[n].parent = N
  BY Zenon DEF WithBranches
<1>5. /\ \A i \in 1 .. K : next[i] = ps[i]
      /\ \A i \in 1 .. N : next[K + i] = it[i]
  <2>1. Len(it) = N /\ Len(ps) = K
    BY Zenon
  <2> HIDE DEF N, K
  <2>3. ASSUME NEW i \in 1 .. K PROVE (ps \o it)[i] = ps[i]
    BY <2>1, <1>1
  <2>4. ASSUME NEW i \in 1 .. N PROVE (ps \o it)[K + i] = it[i]
    BY <2>1, <1>1
  <2> QED BY <2>3, <2>4, Zenon
<1>6. new \in Seq(Seq(Instructions)) /\ Len(new) = K
      /\ \A j \in 1 .. K : new[j] = ps[K - j + 1] \o cont[N]
  <2>1. ASSUME NEW j \in 1 .. K PROVE ps[K - j + 1] \o cont[N] \in Seq(Instructions)
    <3>1. K - j + 1 \in 1 .. K
      BY <1>1, SMT
    <3>2. ps[K - j + 1] \in Seq(Instructions)
      BY <3>1, ElementOfSeq, Zenon
    <3> QED BY <3>2, <1>2, ConcatProperties, Zenon
  <2> HIDE DEF K, N
  <2>2. new = [j \in 1 .. K |-> new[j]] /\ \A j \in 1 .. K : new[j] = ps[K - j + 1] \o cont[N]
    BY Zenon
  <2> HIDE DEF new
  <2>3. \A j \in 1 .. K : new[j] \in Seq(Instructions)
    BY <2>1, <2>2, Zenon
  <2> QED BY <1>1, <2>2, <2>3, FunctionSeq, Zenon
<1> HIDE DEF N, K, M, new
<1>7. /\ c \in Seq(Seq(Instructions)) /\ Len(c) = N + K
      /\ \A n \in 1 .. N : c[n] = cont[n]
      /\ \A j \in 1 .. K : c[N + j] = new[j]
  <2>1. /\ cont \o new \in Seq(Seq(Instructions)) /\ Len(cont \o new) = Len(cont) + Len(new)
        /\ \A i \in 1 .. Len(cont) + Len(new) :
             (cont \o new)[i] = IF i <= Len(cont) THEN cont[i] ELSE new[i - Len(cont)]
    <3> DEFINE P == Seq(Instructions)
    <3>1. cont \in Seq(P) /\ new \in Seq(P)
      BY <1>2, <1>6, Zenon
    <3> HIDE DEF P
    <3>2. /\ cont \o new \in Seq(P) /\ Len(cont \o new) = Len(cont) + Len(new)
          /\ \A i \in 1 .. Len(cont) + Len(new) :
               (cont \o new)[i] = IF i <= Len(cont) THEN cont[i] ELSE new[i - Len(cont)]
      BY <3>1, ConcatProperties, Zenon
    <3> QED BY <3>2, Zenon DEF P
  <2>2. /\ c \in Seq(Seq(Instructions)) /\ Len(c) = N + K
        /\ \A i \in 1 .. N + K : c[i] = IF i <= N THEN cont[i] ELSE new[i - N]
    BY <2>1, <1>2, <1>6, Zenon
  <2> HIDE DEF c
  <2>3. Joined(c, cont, new, N, K)
    BY <2>2, Zenon DEF Joined
  <2>4. Parted(c, cont, new, N, K)
    BY <1>1, <2>3, PartsOf, Zenon
  <2> QED BY <2>2, <2>4, Zenon DEF Parted
<1> HIDE DEF c, next
<1>8. c[1] = next[M]
  <2>1. 1 \in 1 .. N /\ M = K + N
    BY <1>1, <1>4, SMT
  <2>2. cont[1] = it[N]
    BY Zenon DEF Left, N
  <2> QED BY <2>1, <2>2, <1>1, <1>5, <1>7, Zenon
<1>9. ASSUME NEW n \in 2 .. M PROVE c[n] = next[M - n + 1] \o c[ds[n].parent]
  <2>1. CASE n <= N
    <3>1. n \in 1 .. N /\ n \in 2 .. N /\ N - n + 1 \in 1 .. N /\ M - n + 1 = K + (N - n + 1)
      BY <2>1, <1>1, <1>4, SMT
    <3>2. cs[n].parent \in 1 .. N /\ ds[n].parent = cs[n].parent
      <4>1. cs[n].parent \in 1 .. n - 1
        BY <3>1, <1>3, Zenon
      <4>2. cs[n].parent \in 1 .. N
        BY <4>1, <3>1, <1>1, BelowParent, Zenon
      <4> QED BY <4>2, <3>1, <1>4, Zenon
    <3>3. cont[n] = it[N - n + 1] \o cont[cs[n].parent]
      BY <3>1, Zenon DEF Left, N
    <3> QED BY <3>1, <3>2, <3>3, <1>5, <1>7, Zenon
  <2>2. CASE ~ (n <= N)
    <3> DEFINE j == n - N
    <3>1. j \in 1 .. K /\ n = N + j /\ n \in N + 1 .. M /\ K - j + 1 \in 1 .. K
          /\ M - n + 1 = K - j + 1
      BY <2>2, <1>1, <1>4, SMT
    <3> HIDE DEF j
    <3>2. c[n] = ps[K - j + 1] \o cont[N]
      BY <3>1, <1>6, <1>7, Zenon
    <3>3. next[M - n + 1] = ps[K - j + 1]
      BY <3>1, <1>5, Zenon
    <3>4. c[ds[n].parent] = cont[N]
      BY <3>1, <1>1, <1>4, <1>7, Zenon
    <3> QED BY <3>2, <3>3, <3>4, Zenon
  <2> QED BY <2>1, <2>2, Zenon
<1>10. Left(next, ds, c)
  <2>1. Len(c) = M
    BY <1>4, <1>7, Zenon
  <2> QED BY <2>1, <1>7, <1>8, <1>9, Zenon DEF Left, M
<1>11. LeftWithBranches(c, cont, ps, N)
  BY <1>6, <1>7, Zenon DEF LeftWithBranches, K
<1> QED BY <1>10, <1>11, Zenon DEF next, N

\* The innermost context is gone.
Without(ds, cs) ==
  /\ Len(ds) = Len(cs) - 1
  /\ \A n \in 1 .. Len(cs) - 1 : ds[n].parent = cs[n].parent

LeftWithout(c, cont, N) == \A n \in 1 .. N - 1 : c[n] = cont[n]

\* A branch that is done has left what its parent has.
LEMMA LeftEnded ==
  ASSUME NEW it \in Seq(Seq(Instructions)), NEW cs, Rooted(cs), Len(cs) \in Nat, Len(it) = Len(cs),
         NEW cont, Left(it, cs, cont), Head(it) = <<>>, Len(cs) # 1,
         NEW ds, Without(ds, cs)
  PROVE  /\ cont[Len(cs)] = cont[cs[Len(cs)].parent]
         /\ \E c : Left(Tail(it), ds, c) /\ LeftWithout(c, cont, Len(cs))
<1> DEFINE N == Len(cs)
           c == SubSeq(cont, 1, N - 1)
           next == Tail(it)
<1>1. N \in Nat /\ N >= 2 /\ N \in 1 .. N /\ N \in 2 .. N /\ N - N + 1 = 1
  BY SMT DEF Rooted
<1>2. cont \in Seq(Seq(Instructions)) /\ Len(cont) = N
  BY Zenon DEF Left
<1>3. cs[1].parent = 0 /\ \A n \in 2 .. N : cs[n].parent \in 1 .. n - 1
  BY Zenon DEF Rooted
<1>4. it # <<>> /\ it[1] = <<>> /\ \A i \in 1 .. N - 1 : next[i] = it[i + 1]
  BY <1>1
<1>5. cont[cs[N].parent] \in Seq(Instructions)
  <2>1. cs[N].parent \in 1 .. N
    BY <1>1, <1>3, SMT
  <2> QED BY <2>1, <1>2, ElementOfSeq, Zenon
<1>6. cont[N] = cont[cs[N].parent]
  <2>1. cont[N] = it[1] \o cont[cs[N].parent]
    BY <1>1, Zenon DEF Left
  <2> QED BY <2>1, <1>4, <1>5
<1>7. c \in Seq(Seq(Instructions)) /\ Len(c) = N - 1 /\ \A n \in 1 .. N - 1 : c[n] = cont[n]
  BY <1>1, <1>2
<1>8. Len(ds) = N - 1 /\ \A n \in 1 .. N - 1 : ds[n].parent = cs[n].parent
  BY Zenon DEF Without
<1> HIDE DEF c, next, N
<1>9. c[1] = next[N - 1]
  <2>1. 1 \in 1 .. N - 1 /\ N - 1 \in 1 .. N - 1 /\ N - 1 + 1 = N
    BY <1>1, SMT
  <2>2. cont[1] = it[N]
    BY Zenon DEF Left, N
  <2> QED BY <2>1, <2>2, <1>4, <1>7, Zenon
<1>10. ASSUME NEW n \in 2 .. N - 1 PROVE c[n] = next[N - 1 - n + 1] \o c[ds[n].parent]
  <2>1. n \in 1 .. N - 1 /\ n \in 2 .. N /\ N - 1 - n + 1 \in 1 .. N - 1 /\ N - 1 - n + 1 + 1 = N - n + 1
    BY <1>1, SMT
  <2>2. cs[n].parent \in 1 .. N - 1
    BY <2>1, <1>1, <1>3, SMT
  <2>3. cont[n] = it[N - n + 1] \o cont[cs[n].parent]
    BY <2>1, Zenon DEF Left, N
  <2> QED BY <2>1, <2>2, <2>3, <1>4, <1>7, <1>8, Zenon
<1>11. Left(next, ds, c)
  BY <1>7, <1>8, <1>9, <1>10, Zenon DEF Left
<1>12. LeftWithout(c, cont, N)
  BY <1>7, Zenon DEF LeftWithout
<1> QED BY <1>6, <1>11, <1>12, Zenon DEF next, N
-----------------------------------------------------------------------------
(***************************************************************************)
(* The inductive invariant, and the steps of the walk.                     *)
(***************************************************************************)
\* A walker gets to y from what is left in some context, with some of its values.
Has(b, cs, cont, y) == \E n \in 1 .. Len(cs) : HasFrom(b, cont[n], cs[n].values, y)

\* Every way through the profile goes on in some context, and no other does.
Walking(it, cs, cont) ==
  /\ Left(it, cs, cont)
  /\ \A y : Ended(tpm, y) => (Leads(tpm, AtStart(profile), y) <=> Has(tpm, cs, cont, y))

\* The values are those of the ways that have come to an end, and none is stuck.
Computed(values) ==
  \A y : Ended(tpm, y) =>
    (Leads(tpm, AtStart(profile), y) <=> \E k \in 1 .. Len(values) : y = AtEnd(values[k]))

\* What the second loop has found, and what is left for it.
Uniquing(values, ds, us) ==
  /\ \E S : values \in Seq(S) /\ ds \in Seq(S) /\ us \in Seq(S)
  /\ \A n \in DOMAIN values : DOMAIN values[n] = DOMAIN values[1]
  /\ Range(us) \cup Range(ds) = Range(values)
  /\ IsInjective(us)

(***************************************************************************)
(* DigestsExact is about the end only.  While the profile is walked, the   *)
(* ways through it are those that lead on from some context, with one of   *)
(* its values and what is left to do there.  When the walk is over nothing *)
(* is left, the values are the ends, and the loops only take repetitions   *)
(* out.                                                                    *)
(***************************************************************************)
EInv ==
  /\ profile \in Profiles /\ tpm \in BOOLEAN
  /\ phase \in {"walk", "digests", "unique", "done"}
  /\ phase # "done" => result = "none"
  /\ phase \in {"walk", "digests"} => digests = <<>>
  /\ phase = "walk" => \E cont : Walking(iter, contexts, cont)
  /\ phase \in {"digests", "unique"} =>
       /\ \E S : Top.values \in Seq(S)
       /\ Top.values # <<>> /\ Computed(Top.values)
  /\ phase = "unique" => Uniquing(Top.values, pcrDigests, digests)
  /\ DigestsExact

\* What IInv says of the top while instructions are walked.
LEMMA WalkFacts ==
  ASSUME IInv, phase = "walk"
  PROVE  /\ iter \in Seq(Seq(Instructions)) /\ Len(iter) = Len(contexts)
         /\ Rooted(contexts) /\ Len(contexts) \in Nat /\ Len(contexts) >= 1
         /\ Len(contexts) \in 1 .. Len(contexts)
         /\ \E S : contexts \in Seq(Context(S)) /\ Top.values \in Seq(S)
         /\ Top.values # <<>>
<1>1. iter \in Seq(Seq(Instructions)) /\ Len(iter) = Len(contexts) /\ Rooted(contexts) /\ Fed(contexts)
  BY Zenon DEF IInv
<1>2. PICK S : contexts \in Seq(Context(S))
  BY Zenon DEF IInv
<1>3. Len(contexts) \in Nat /\ Len(contexts) >= 1 /\ Len(contexts) \in 1 .. Len(contexts)
  BY <1>1, <1>2, LenProperties DEF Rooted
<1>4. Top.values \in Seq(S)
  BY <1>2, <1>3, TopSeq, Zenon
<1>5. Top.values # <<>>
  BY <1>1, <1>3 DEF Fed, Top
<1> QED BY <1>1, <1>2, <1>3, <1>4, <1>5, Zenon

\* The top takes a step, and with it the walkers it stands for.
LEMMA TopOnward ==
  ASSUME IInv, phase = "walk", NEW cont, Walking(iter, contexts, cont), NEW c, NEW ds, NEW w,
         Left(iter', ds, c), Len(ds) = Len(contexts),
         \A n \in 1 .. Len(contexts) - 1 : c[n] = cont[n] /\ ds[n].values = contexts[n].values,
         \A y : Ended(tpm, y) =>
           (HasFrom(tpm, cont[Len(contexts)], Top.values, y) <=> HasFrom(tpm, c[Len(contexts)], w, y)),
         ds[Len(contexts)].values = w
  PROVE  Walking(iter', ds, c)
<1> DEFINE N == Len(contexts)
<1>1. N \in Nat /\ N >= 1
  BY WalkFacts, Zenon
<1>2. ASSUME NEW y, Ended(tpm, y) PROVE Has(tpm, contexts, cont, y) <=> Has(tpm, ds, c, y)
  <2>1. \A n \in 1 .. N : n \in 1 .. N - 1 \/ n = N
    BY <1>1, SMT
  <2>2. ASSUME NEW n \in 1 .. N
        PROVE  HasFrom(tpm, cont[n], contexts[n].values, y) <=> HasFrom(tpm, c[n], ds[n].values, y)
    <3>1. CASE n = N
      BY <3>1, <1>2, Zenon DEF Top
    <3>2. CASE n \in 1 .. N - 1
      BY <3>2, Zenon
    <3> QED BY <2>1, <3>1, <3>2, Zenon
  <2>3. Len(ds) = N /\ Len(contexts) = N
    BY Zenon
  <2> HIDE DEF N
  <2> QED BY <2>2, <2>3, Zenon DEF Has
<1> QED BY <1>2, Zenon DEF Walking

\* SetOrExtend moves the walkers of the top one step.
LEMMA WalkSetOrExtend ==
  ASSUME IInv, SetOrExtend, phase' = "walk", NEW cont, Walking(iter, contexts, cont)
  PROVE  \E c : Walking(iter', contexts', c)
<1> DEFINE N == Len(contexts)
           w == [n \in DOMAIN Top.values |-> Apply(Instr, Top.values[n])]
           c == [cont EXCEPT ![N] = Tail(cont[N])]
           cs == contexts'
<1>1. /\ HasInstr /\ Instr.op # "or" /\ ~ (Instr.op = "tpm" /\ ~ tpm) /\ phase = "walk"
      /\ iter' = Consumed /\ cs = WithTopValues(w)
  BY Zenon DEF SetOrExtend, HasInstr
<1>2. /\ iter \in Seq(Seq(Instructions)) /\ Len(iter) = N /\ Rooted(contexts) /\ N \in Nat /\ N >= 1
      /\ N \in 1 .. N
  BY <1>1, WalkFacts, Zenon
<1>3. PICK S : contexts \in Seq(Context(S)) /\ Top.values \in Seq(S)
  BY <1>1, WalkFacts, Zenon
<1>4. Left(iter, contexts, cont)
  BY Zenon DEF Walking
<1>5. /\ cont[N] # <<>> /\ Head(cont[N]) = Instr /\ Left(Consumed, contexts, c)
  BY <1>1, <1>2, <1>4, LeftTop, Zenon DEF HasInstr, Instr, Consumed
<1>6. c[N] = Tail(cont[N]) /\ \A n \in 1 .. N - 1 : c[n] = cont[n]
  <2>1. cont \in Seq(Seq(Instructions)) /\ Len(cont) = N
    BY <1>4, Zenon DEF Left
  <2>2. DOMAIN cont = 1 .. N
    BY <2>1, <1>2
  <2> HIDE DEF N
  <2> QED BY <2>2, <1>2
<1> HIDE DEF c
<1>7. /\ Len(cs) = N
      /\ \A n \in 1 .. N : /\ cs[n].parent = contexts[n].parent
                           /\ cs[n].values = IF n = N THEN w ELSE contexts[n].values
  <2> DEFINE T == S \cup {Apply(Instr, Top.values[n]) : n \in DOMAIN Top.values}
  <2>1. contexts \in Seq(Context(T))
    BY <1>3, ContextMonotonic, Zenon
  <2>2. w \in Seq(T)
    <3>1. DOMAIN Top.values = 1 .. Len(Top.values) /\ Len(Top.values) \in Nat
      BY <1>3
    <3> QED BY <3>1
  <2> HIDE DEF T, w
  <2> QED BY <1>1, <1>2, <2>1, <2>2, TopValues, SMTT(30)
<1>8. Left(iter', cs, c)
  BY <1>1, <1>2, <1>5, <1>7, LeftSame, Zenon
<1>9. \A y : Ended(tpm, y) => (HasFrom(tpm, cont[N], Top.values, y) <=> HasFrom(tpm, c[N], w, y))
  <2> DEFINE todo == cont[N]
             values == Top.values
  <2>1. /\ todo # <<>> /\ Head(todo).op # "or" /\ ~ (Head(todo).op = "tpm" /\ ~ tpm)
        /\ values \in Seq(S) /\ w = [n \in DOMAIN values |-> Apply(Head(todo), values[n])]
    BY <1>1, <1>3, <1>5, Zenon
  <2> HIDE DEF todo, values, w
  <2>2. \A y : Ended(tpm, y) => (HasFrom(tpm, todo, values, y) <=> HasFrom(tpm, Tail(todo), w, y))
    BY <2>1, HasFromSimple, Zenon
  <2> QED BY <2>2, <1>6, Zenon DEF todo, values
<1> HIDE DEF w, cs
<1>10. /\ \A n \in 1 .. N - 1 : c[n] = cont[n] /\ cs[n].values = contexts[n].values
       /\ cs[N].values = w
  <2>1. \A n \in 1 .. N - 1 : n \in 1 .. N /\ n # N
    BY <1>2, SMT
  <2> QED BY <2>1, <1>2, <1>6, <1>7, Zenon
<1>11. Walking(iter', cs, c)
  BY <1>1, <1>7, <1>8, <1>9, <1>10, TopOnward, Zenon
<1> QED BY <1>11, Zenon DEF cs

\* SkipEmptyOr moves them past the "or".
LEMMA WalkSkipEmptyOr ==
  ASSUME IInv, SkipEmptyOr, NEW cont, Walking(iter, contexts, cont)
  PROVE  \E c : Walking(iter', contexts', c)
<1> DEFINE N == Len(contexts)
           c == [cont EXCEPT ![N] = Tail(cont[N])]
<1>1. /\ HasInstr /\ Instr.op = "or" /\ Instr.profiles = <<>> /\ phase = "walk"
      /\ iter' = Consumed /\ contexts' = contexts
  BY Zenon DEF SkipEmptyOr, HasInstr
<1>2. /\ iter \in Seq(Seq(Instructions)) /\ Len(iter) = N /\ Rooted(contexts) /\ N \in Nat /\ N >= 1
      /\ N \in 1 .. N
  BY <1>1, WalkFacts, Zenon
<1>3. Left(iter, contexts, cont)
  BY Zenon DEF Walking
<1>4. /\ cont[N] # <<>> /\ Head(cont[N]) = Instr /\ Left(Consumed, contexts, c)
  BY <1>1, <1>2, <1>3, LeftTop, Zenon DEF HasInstr, Instr, Consumed
<1>5. c[N] = Tail(cont[N]) /\ \A n \in 1 .. N - 1 : c[n] = cont[n]
  <2>1. cont \in Seq(Seq(Instructions)) /\ Len(cont) = N
    BY <1>3, Zenon DEF Left
  <2>2. DOMAIN cont = 1 .. N
    BY <2>1, <1>2
  <2> HIDE DEF N
  <2> QED BY <2>2, <1>2
<1> HIDE DEF c
<1>6. \A y : Ended(tpm, y) =>
        (HasFrom(tpm, cont[N], Top.values, y) <=> HasFrom(tpm, c[N], Top.values, y))
  <2> DEFINE todo == cont[N]
             values == Top.values
  <2>1. todo # <<>> /\ Head(todo).op = "or" /\ Head(todo).profiles = <<>>
    BY <1>1, <1>4, Zenon
  <2> HIDE DEF todo, values
  <2>2. \A y : Ended(tpm, y) => (HasFrom(tpm, todo, values, y) <=> HasFrom(tpm, Tail(todo), values, y))
    BY <2>1, HasFromOr, Zenon
  <2> QED BY <2>2, <1>5, Zenon DEF todo, values
<1>7. contexts[N].values = Top.values
  BY Zenon DEF Top
<1>8. Walking(iter', contexts, c)
  BY <1>1, <1>4, <1>5, <1>6, <1>7, TopOnward, Zenon
<1> QED BY <1>1, <1>8, Zenon

\* Branch sends the walkers of the top into the profiles, each in its context.
LEMMA WalkBranch ==
  ASSUME IInv, Branch, NEW cont, Walking(iter, contexts, cont)
  PROVE  \E c : Walking(iter', contexts', c)
<1> DEFINE N == Len(contexts)
           ps == Instr.profiles
           K == Len(ps)
           one == [cont EXCEPT ![N] = Tail(cont[N])]
           cs == contexts'
<1>1. /\ HasInstr /\ Instr.op = "or" /\ ps # <<>> /\ phase = "walk" /\ iter' = ps \o Consumed
      /\ cs = WithTopValues(<<>>) \o BranchContexts(K)
  BY Zenon DEF Branch, HasInstr
<1>2. /\ iter \in Seq(Seq(Instructions)) /\ Len(iter) = N /\ Rooted(contexts) /\ N \in Nat /\ N >= 1
      /\ N \in 1 .. N
  BY <1>1, WalkFacts, Zenon
<1>3. PICK S : contexts \in Seq(Context(S)) /\ Top.values \in Seq(S)
  BY <1>1, WalkFacts, Zenon
<1>4. Left(iter, contexts, cont)
  BY Zenon DEF Walking
<1>5. /\ cont[N] # <<>> /\ Head(cont[N]) = Instr /\ Left(Consumed, contexts, one)
  BY <1>1, <1>2, <1>4, LeftTop, Zenon DEF HasInstr, Instr, Consumed
<1>6. one[N] = Tail(cont[N]) /\ \A n \in 1 .. N - 1 : one[n] = cont[n]
  <2>1. cont \in Seq(Seq(Instructions)) /\ Len(cont) = N
    BY <1>4, Zenon DEF Left
  <2>2. DOMAIN cont = 1 .. N
    BY <2>1, <1>2
  <2> HIDE DEF N
  <2> QED BY <2>2, <1>2
<1>7. ps \in Seq(Seq(Instructions)) /\ K \in Nat /\ DOMAIN ps = 1 .. K
      /\ Consumed \in Seq(Seq(Instructions)) /\ Len(Consumed) = N
  <2>1. ps \in Seq(Seq(Instructions)) /\ Consumed \in Seq(Seq(Instructions)) /\ Len(Consumed) = N
    BY <1>1, <1>2, ConsumedSeq, ProfilesAssumption, Zenon
  <2> QED BY <2>1, LenProperties, Zenon
<1>8. /\ Len(cs) = N + K
      /\ \A n \in 1 .. N : /\ cs[n].parent = contexts[n].parent
                           /\ cs[n].values = IF n = N THEN <<>> ELSE contexts[n].values
      /\ \A j \in 1 .. K : cs[N + j].parent = N /\ cs[N + j].values = Top.values
  <2> DEFINE old == WithTopValues(<<>>)
             new == BranchContexts(K)
  <2>1. /\ old \in Seq(Context(S)) /\ Len(old) = N
        /\ \A n \in 1 .. N : /\ old[n].parent = contexts[n].parent
                             /\ old[n].values = IF n = N THEN <<>> ELSE contexts[n].values
    BY <1>2, <1>3, EmptySeq, TopValues, ZenonT(30)
  <2>2. /\ new \in Seq(Context(S)) /\ Len(new) = K
        /\ \A n \in 1 .. K : new[n].parent = N /\ new[n].values = Top.values
    <3> HIDE DEF K, N
    <3> QED BY <1>2, <1>3, <1>7 DEF BranchContexts, Context, N
  <2> HIDE DEF old, new, N, K
  <2>3. /\ Len(old \o new) = Len(old) + Len(new)
        /\ \A i \in 1 .. Len(old) + Len(new) :
             (old \o new)[i] = IF i <= Len(old) THEN old[i] ELSE new[i - Len(old)]
    <3>1. old \in Seq(Context(S)) /\ new \in Seq(Context(S))
      BY <2>1, <2>2, Zenon
    <3> QED BY <3>1, ConcatProperties, Zenon
  <2>4. Len(cs) = N + K /\ \A i \in 1 .. N + K : cs[i] = IF i <= N THEN old[i] ELSE new[i - N]
    BY <2>1, <2>2, <2>3, <1>1, Zenon DEF old, new
  <2> HIDE DEF cs
  <2>5. (\A i \in 1 .. N : cs[i] = old[i]) /\ \A i \in 1 .. K : cs[N + i] = new[i]
    <3>1. N \in Nat /\ K \in Nat /\ Joined(cs, old, new, N, K)
      BY <1>2, <1>7, <2>4, Zenon DEF Joined
    <3>2. Parted(cs, old, new, N, K)
      BY <3>1, PartsOf, Zenon
    <3> QED BY <3>2, Zenon DEF Parted
  <2> QED BY <2>1, <2>2, <2>4, <2>5
<1> HIDE DEF cs, one, ps, K
<1>9. \A n \in N + 1 .. Len(cs) : cs[n].parent = N
  <2> SUFFICES ASSUME NEW n \in N + 1 .. Len(cs) PROVE cs[n].parent = N
    BY Zenon
  <2> DEFINE j == n - N
  <2>1. j \in 1 .. K /\ n = N + j
    BY <1>2, <1>7, <1>8, SMT
  <2> HIDE DEF j
  <2> QED BY <2>1, <1>8, Zenon
<1>10. PICK c : Left(ps \o Consumed, cs, c) /\ LeftWithBranches(c, one, ps, N)
  <2> DEFINE it == Consumed
  <2>1. WithBranches(cs, contexts, Len(ps))
    BY <1>8, <1>9, Zenon DEF K, WithBranches
  <2>2. /\ it \in Seq(Seq(Instructions)) /\ Rooted(contexts) /\ Len(contexts) \in Nat
        /\ Len(it) = Len(contexts) /\ Left(it, contexts, one) /\ ps \in Seq(Seq(Instructions))
    BY <1>2, <1>5, <1>7, Zenon
  <2> HIDE DEF it
  <2>3. \E c : Left(ps \o it, cs, c) /\ LeftWithBranches(c, one, ps, Len(contexts))
    BY <2>1, <2>2, LeftBranched, Zenon
  <2> QED BY <2>3, Zenon DEF it
<1>11. ASSUME NEW n \in 1 .. N PROVE c[n] = one[n]
  BY <1>10, Zenon DEF LeftWithBranches
<1>12. ASSUME NEW j \in 1 .. K PROVE c[N + j] = ps[K - j + 1] \o one[N]
  BY <1>10, Zenon DEF LeftWithBranches, K
<1>13. ASSUME NEW y, Ended(tpm, y)
       PROVE  HasFrom(tpm, cont[N], Top.values, y) <=>
              \E j \in 1 .. K : HasFrom(tpm, c[N + j], cs[N + j].values, y)
  <2> DEFINE todo == cont[N]
             values == Top.values
             P(k) == HasFrom(tpm, ps[k] \o one[N], values, y)
  <2>1. todo # <<>> /\ Head(todo).op = "or" /\ Head(todo).profiles = ps /\ Tail(todo) = one[N]
    BY <1>1, <1>5, <1>6, Zenon DEF ps
  <2> HIDE DEF todo, values
  <2>2. HasFrom(tpm, todo, values, y) <=> \E k \in 1 .. K : P(k)
    BY <2>1, <1>1, <1>7, <1>13, HasFromOr, Zenon
  <2>3. ASSUME NEW j \in 1 .. K
        PROVE  HasFrom(tpm, c[N + j], cs[N + j].values, y) <=> P(K - j + 1)
    <3>1. c[N + j] = ps[K - j + 1] \o one[N]
      BY <1>12, Zenon
    <3>2. cs[N + j].values = values
      BY <1>8, Zenon DEF values
    <3> QED BY <3>1, <3>2, Zenon
  <2> HIDE DEF P
  <2>4. \A k \in 1 .. K : K - k + 1 \in 1 .. K /\ K - (K - k + 1) + 1 = k
    BY <1>7, SMT
  <2>5. (\E k \in 1 .. K : P(k)) <=> \E j \in 1 .. K : P(K - j + 1)
    BY <2>4, Zenon
  <2> QED BY <2>2, <2>3, <2>5, Zenon DEF todo, values
<1>14. ASSUME NEW y, Ended(tpm, y) PROVE Has(tpm, contexts, cont, y) <=> Has(tpm, cs, c, y)
  <2> DEFINE A(n) == HasFrom(tpm, cont[n], contexts[n].values, y)
             B(n) == HasFrom(tpm, c[n], cs[n].values, y)
  <2>1. ASSUME NEW n \in 1 .. N - 1 PROVE A(n) <=> B(n)
    <3>1. n \in 1 .. N /\ n # N
      BY <1>2, SMT
    <3> QED BY <3>1, <1>6, <1>8, <1>11, Zenon
  <2>2. ~ B(N)
    <3>1. cs[N].values = <<>>
      BY <1>2, <1>8, Zenon
    <3> QED BY <3>1 DEF HasFrom
  <2>3. A(N) <=> \E j \in 1 .. K : B(N + j)
    BY <1>13, <1>14, Zenon DEF Top
  <2>4. Has(tpm, contexts, cont, y) <=> \E n \in 1 .. N : A(n)
    BY Zenon DEF Has
  <2>5. Has(tpm, cs, c, y) <=> \E n \in 1 .. N + K : B(n)
    BY <1>8, Zenon DEF Has
  <2> HIDE DEF A, B, N
  <2>6. (\E n \in 1 .. N : A(n)) <=> (\E n \in 1 .. N - 1 : A(n)) \/ A(N)
    BY <1>2
  <2>7. (\E n \in 1 .. N + K : B(n)) <=>
          (\E n \in 1 .. N - 1 : B(n)) \/ B(N) \/ (\E j \in 1 .. K : B(N + j))
    <3>1. ASSUME NEW n \in 1 .. N + K, B(n)
          PROVE  (\E i \in 1 .. N - 1 : B(i)) \/ B(N) \/ (\E j \in 1 .. K : B(N + j))
      <4>1. CASE n > N
        <5>1. n - N \in 1 .. K /\ n = N + (n - N)
          BY <4>1, <1>2, <1>7, SMT
        <5> QED BY <5>1, <3>1, Zenon
      <4>2. CASE n <= N
        <5>1. n \in 1 .. N - 1 \/ n = N
          BY <4>2, <1>2, SMT
        <5> QED BY <5>1, <3>1, Zenon
      <4> QED BY <4>1, <4>2, <1>2, SMT
    <3>2. ASSUME NEW n \in 1 .. N - 1, B(n) PROVE \E i \in 1 .. N + K : B(i)
      <4>1. n \in 1 .. N + K
        BY <1>2, <1>7, SMT
      <4> QED BY <3>2, <4>1, Zenon
    <3>3. ASSUME NEW j \in 1 .. K, B(N + j) PROVE \E i \in 1 .. N + K : B(i)
      <4>1. N + j \in 1 .. N + K
        BY <1>2, <1>7, SMT
      <4> QED BY <3>3, <4>1, Zenon
    <3>4. N \in 1 .. N + K
      BY <1>2, <1>7, SMT
    <3> QED BY <3>1, <3>2, <3>3, <3>4, Zenon
  <2> QED BY <2>1, <2>2, <2>3, <2>4, <2>5, <2>6, <2>7, Zenon
<1>15. Walking(iter', cs, c)
  BY <1>1, <1>10, <1>14, Zenon DEF Walking, ps
<1> QED BY <1>15, Zenon DEF cs

\* EndBranch: the walkers of the branch go on in the context of its parent.
LEMMA WalkEndBranch ==
  ASSUME IInv, EndBranch, NEW cont, Walking(iter, contexts, cont)
  PROVE  \E c : Walking(iter', contexts', c)
<1> DEFINE N == Len(contexts)
           p == Top.parent
           rest == SubSeq(contexts, 1, N - 1)
           fed == [rest[p] EXCEPT !.values = @ \o Top.values]
           cs == contexts'
<1>1. phase = "walk" /\ iter # <<>> /\ Head(iter) = <<>> /\ iter' = Tail(iter) /\ p # 0
      /\ cs = [rest EXCEPT ![p] = fed]
  BY Zenon DEF EndBranch, Parent
<1>2. /\ iter \in Seq(Seq(Instructions)) /\ Len(iter) = N /\ Rooted(contexts) /\ N \in Nat /\ N >= 1
      /\ N \in 1 .. N
  BY <1>1, WalkFacts, Zenon
<1>3. PICK S : contexts \in Seq(Context(S)) /\ Top.values \in Seq(S)
  BY <1>1, WalkFacts, Zenon
<1>4. Left(iter, contexts, cont)
  BY Zenon DEF Walking
<1>5. N >= 2 /\ p \in 1 .. N - 1
  <2>1. contexts[1].parent = 0 /\ \A n \in 2 .. N : contexts[n].parent \in 1 .. n - 1
    BY <1>2, Zenon DEF Rooted
  <2>2. N # 1
    BY <2>1, <1>1, Zenon DEF Top
  <2>3. N \in 2 .. N
    BY <2>2, <1>2, SMT
  <2>4. p \in 1 .. N - 1
    BY <2>1, <2>3, Zenon DEF Top
  <2> QED BY <2>3, <2>4, <1>2, SMT
<1>6. /\ rest \in Seq(Context(S)) /\ Len(rest) = N - 1
      /\ \A n \in 1 .. N - 1 : rest[n] = contexts[n]
  <2>1. \A n \in 1 .. N - 1 : contexts[n] \in Context(S)
    BY <1>2, <1>3, ElementOfSeq
  <2> QED BY <2>1, <1>2, <1>5, SubSeqProperties
<1>7. rest[p] = contexts[p] /\ contexts[p] \in Context(S) /\ contexts[p].values \in Seq(S)
  <2>1. rest[p] \in Context(S)
    BY <1>5, <1>6, ElementOfSeq, Zenon
  <2> QED BY <2>1, <1>5, <1>6, Zenon DEF Context
<1>8. fed \in Context(S) /\ fed.parent = contexts[p].parent /\ fed.values = contexts[p].values \o Top.values
  <2>1. contexts[p].values \o Top.values \in Seq(S)
    BY <1>3, <1>7, ConcatProperties, Zenon
  <2> QED BY <2>1, <1>7, ZenonT(30) DEF Context
<1> HIDE DEF fed, rest
<1>9. Len(cs) = N - 1 /\ \A n \in 1 .. N - 1 : cs[n] = IF n = p THEN fed ELSE contexts[n]
  BY <1>1, <1>5, <1>6, <1>8, ExceptSeq, SMTT(30)
<1> HIDE DEF cs
<1>10. \A n \in 1 .. N - 1 : cs[n].parent = contexts[n].parent
  BY <1>8, <1>9, Zenon
<1>11. cont[N] = cont[p] /\ \E c : Left(iter', cs, c) /\ LeftWithout(c, cont, N)
  <2>1. N # 1 /\ contexts[N].parent = p
    BY <1>5 DEF Top
  <2>2. Without(cs, contexts)
    BY <1>9, <1>10, Zenon DEF Without
  <2>3. /\ cont[Len(contexts)] = cont[contexts[Len(contexts)].parent]
        /\ \E c : Left(Tail(iter), cs, c) /\ LeftWithout(c, cont, Len(contexts))
    BY <2>1, <2>2, <1>1, <1>2, <1>4, LeftEnded, Zenon
  <2> QED BY <2>1, <2>3, <1>1, Zenon
<1> HIDE DEF p, N
<1>12. PICK c : Left(iter', cs, c) /\ LeftWithout(c, cont, N)
  BY <1>11, Zenon
<1>13. \A n \in 1 .. N - 1 : c[n] = cont[n]
  BY <1>12, Zenon DEF LeftWithout
<1>14. ASSUME NEW y, Ended(tpm, y) PROVE Has(tpm, contexts, cont, y) <=> Has(tpm, cs, c, y)
  <2> DEFINE A(n) == HasFrom(tpm, cont[n], contexts[n].values, y)
             B(n) == HasFrom(tpm, c[n], cs[n].values, y)
  <2>1. ASSUME NEW n \in 1 .. N - 1, n # p PROVE A(n) <=> B(n)
    BY <2>1, <1>9, <1>13, Zenon
  <2>2. B(p) <=> A(p) \/ A(N)
    <3>1. cs[p].values = contexts[p].values \o Top.values /\ c[p] = cont[p]
      BY <1>5, <1>8, <1>9, <1>13, Zenon
    <3>2. B(p) <=> HasFrom(tpm, cont[p], contexts[p].values \o Top.values, y)
      BY <3>1, Zenon
    <3>3. B(p) <=> HasFrom(tpm, cont[p], contexts[p].values, y) \/ HasFrom(tpm, cont[p], Top.values, y)
      BY <3>2, <1>3, <1>7, HasFromConcat, Zenon
    <3> QED BY <3>3, <1>11, Zenon DEF Top, N
  <2>3. Has(tpm, contexts, cont, y) <=> \E n \in 1 .. N : A(n)
    BY Zenon DEF Has, N
  <2>4. Has(tpm, cs, c, y) <=> \E n \in 1 .. N - 1 : B(n)
    BY <1>9, Zenon DEF Has
  <2> HIDE DEF A, B
  <2>5. (\E n \in 1 .. N : A(n)) <=> (\E n \in 1 .. N - 1 : A(n)) \/ A(N)
    BY <1>2
  <2> QED BY <2>1, <2>2, <2>3, <2>4, <2>5, <1>5, Zenon
<1>15. Walking(iter', cs, c)
  BY <1>12, <1>14, Zenon DEF Walking
<1> QED BY <1>15, Zenon DEF cs

\* When the root is done, the values are those of all ways.
LEMMA WalkEndRoot ==
  ASSUME IInv, EndRoot, NEW cont, Walking(iter, contexts, cont)
  PROVE  Computed(Top.values)
<1> DEFINE N == Len(contexts)
<1>1. phase = "walk" /\ Head(iter) = <<>> /\ Top.parent = 0
  BY Zenon DEF EndRoot
<1>2. /\ iter \in Seq(Seq(Instructions)) /\ Len(iter) = N /\ Rooted(contexts) /\ N \in Nat /\ N >= 1
  BY <1>1, WalkFacts, Zenon
<1>3. N = 1
  BY <1>1, <1>2, SMT DEF Rooted, Top
<1>4. cont[1] = <<>>
  <2>1. cont[1] = iter[1]
    BY <1>3, Zenon DEF Walking, Left
  <2> QED BY <2>1, <1>1, <1>2, <1>3
<1>5. ASSUME NEW y, Ended(tpm, y)
      PROVE  Leads(tpm, AtStart(profile), y) <=> \E k \in 1 .. Len(Top.values) : y = AtEnd(Top.values[k])
  <2>1. Leads(tpm, AtStart(profile), y) <=> Has(tpm, contexts, cont, y)
    BY <1>5, Zenon DEF Walking
  <2>2. Has(tpm, contexts, cont, y) <=> HasFrom(tpm, <<>>, Top.values, y)
    <3>1. \A n : n \in 1 .. N <=> n = 1
      BY <1>3, SMT
    <3>2. contexts[1] = Top
      BY <1>3, Zenon DEF Top
    <3> QED BY <3>1, <3>2, <1>4, Zenon DEF Has
  <2>3. HasFrom(tpm, <<>>, Top.values, y) <=> \E k \in 1 .. Len(Top.values) : y = AtEnd(Top.values[k])
    BY HasFromEnd
  <2> QED BY <2>1, <2>2, <2>3, Zenon
<1> QED BY <1>5, Zenon DEF Computed
-----------------------------------------------------------------------------
(***************************************************************************)
(* The end of the walk, computePCRDigests and the theorem.                 *)
(***************************************************************************)
\* The ends of the ways through the profile, as the walkers' goals.
LEMMA EndsAreLedTo ==
  ASSUME NEW p \in Profiles, NEW b \in BOOLEAN
  PROVE  /\ \A y : y \in Ends(p, b) => Ended(b, y)
         /\ \A y : Ended(b, y) => (Leads(b, AtStart(p), y) <=> y \in Ends(p, b))
<1> DEFINE x == AtStart(p)
           M == Longest(p)
<1>1. M \in Nat /\ \A y \in After(b, x)[M] : Ended(b, y)
  BY LongestAssumption, Zenon
<1>2. \A y : y \in Ends(p, b) <=> y \in After(b, x)[M] /\ Ended(b, y)
  BY Zenon DEF Ends
<1> HIDE DEF x, M
<1>3. \A y : Ended(b, y) => (Leads(b, x, y) <=> y \in After(b, x)[M])
  BY <1>1, LeadsToTheEnd, Zenon
<1>4. \A y : Ended(b, y) => (Leads(b, x, y) <=> y \in Ends(p, b))
  BY <1>2, <1>3, Zenon
<1> QED BY <1>2, <1>4, Zenon DEF x

\* Once all ways are done, the values are what is permitted.
LEMMA ComputedMeans ==
  ASSUME profile \in Profiles, tpm \in BOOLEAN, NEW S, NEW values \in Seq(S), Computed(values)
  PROVE  /\ ~ Stuck(profile, tpm)
         /\ \A v : v \in Permitted(profile, tpm) <=> \E k \in 1 .. Len(values) : v = values[k]
<1>1. ASSUME NEW v PROVE Ended(tpm, AtEnd(v)) /\ AtEnd(v)[1] = <<>> /\ AtEnd(v)[2] = v
  BY SMT DEF Ended, AtEnd
<1> DEFINE E == Ends(profile, tpm)
<1>2. \A y : y \in E <=> \E k \in 1 .. Len(values) : y = AtEnd(values[k])
  <2>1. \A y : y \in E => Ended(tpm, y)
    BY EndsAreLedTo, Zenon
  <2>2. \A y : Ended(tpm, y) => (Leads(tpm, AtStart(profile), y) <=> y \in E)
    BY EndsAreLedTo, Zenon
  <2>3. \A y : Ended(tpm, y) => (y \in E <=> \E k \in 1 .. Len(values) : y = AtEnd(values[k]))
    BY <2>2, Zenon DEF Computed
  <2>4. \A y : (\E k \in 1 .. Len(values) : y = AtEnd(values[k])) => Ended(tpm, y)
    BY <1>1, Zenon
  <2> HIDE DEF E
  <2> QED BY <2>1, <2>3, <2>4, Zenon
<1>3. ~ Stuck(profile, tpm)
  <2>1. ASSUME NEW y \in E PROVE y[1] = <<>>
    <3>1. PICK k \in 1 .. Len(values) : y = AtEnd(values[k])
      BY <1>2, Zenon
    <3> QED BY <3>1, <1>1, Zenon
  <2> QED BY <2>1, Zenon DEF Stuck
<1>4. \A v : v \in Permitted(profile, tpm) <=> \E y \in E : y[1] = <<>> /\ v = y[2]
  BY Zenon DEF Permitted
<1> HIDE DEF E
<1>5. ASSUME NEW v PROVE v \in Permitted(profile, tpm) <=> \E k \in 1 .. Len(values) : v = values[k]
  <2>1. ASSUME NEW y \in E, y[1] = <<>>, v = y[2] PROVE \E k \in 1 .. Len(values) : v = values[k]
    <3>1. PICK k \in 1 .. Len(values) : y = AtEnd(values[k])
      BY <1>2, <2>1, Zenon
    <3> QED BY <3>1, <2>1, <1>1, Zenon
  <2>2. ASSUME NEW k \in 1 .. Len(values), v = values[k] PROVE \E y \in E : y[1] = <<>> /\ v = y[2]
    <3> DEFINE y == AtEnd(values[k])
    <3>1. y \in E
      BY <1>2, Zenon
    <3>2. y[1] = <<>> /\ v = y[2]
      BY <1>1, <2>2, Zenon
    <3> QED BY <3>1, <3>2, Zenon
  <2> QED BY <2>1, <2>2, <1>4, Zenon
<1> QED BY <1>3, <1>5, Zenon

\* A way that needs a TPM that is not there is stuck.
LEMMA ErrorMeans ==
  ASSUME IInv, profile \in Profiles, tpm \in BOOLEAN, HasInstr, Instr.op = "tpm", ~ tpm,
         NEW cont, Walking(iter, contexts, cont)
  PROVE  Stuck(profile, tpm)
<1> DEFINE N == Len(contexts)
           todo == cont[N]
           v == Top.values[1]
           y == <<todo, v>>
<1>1. phase = "walk" /\ Head(iter) # <<>>
  BY Zenon DEF HasInstr
<1>2. /\ iter \in Seq(Seq(Instructions)) /\ Len(iter) = N /\ Rooted(contexts) /\ N \in Nat /\ N >= 1
      /\ N \in 1 .. N
  BY <1>1, WalkFacts, Zenon
<1>3. PICK S : contexts \in Seq(Context(S)) /\ Top.values \in Seq(S) /\ Top.values # <<>>
  BY <1>1, WalkFacts, Zenon
<1>4. Left(iter, contexts, cont)
  BY Zenon DEF Walking
<1>5. todo # <<>> /\ Head(todo) = Instr
  BY <1>1, <1>2, <1>4, LeftTop, Zenon DEF Instr
<1>6. 1 \in 1 .. Len(Top.values)
  BY <1>3
<1>7. y[1] = todo
  BY SMT
<1>8. Ended(tpm, y)
  BY <1>5, <1>7, Zenon DEF Ended
<1>9. Leads(tpm, y, y)
  <2> HIDE DEF y
  <2> QED BY <1>8, LeadsEnded, Zenon
<1>10. HasFrom(tpm, todo, Top.values, y)
  BY <1>6, <1>9, Zenon DEF HasFrom
<1> HIDE DEF y, todo
<1>11. Has(tpm, contexts, cont, y)
  BY <1>2, <1>10, Zenon DEF Has, Top, todo
<1>12. Leads(tpm, AtStart(profile), y)
  BY <1>8, <1>11, Zenon DEF Walking
<1>13. y \in Ends(profile, tpm)
  BY <1>8, <1>12, EndsAreLedTo, Zenon
<1> QED BY <1>5, <1>7, <1>13, Zenon DEF Stuck
\* At first there is one walker, at the start.
LEMMA EInvInit ==
  ASSUME Init PROVE EInv
<1> DEFINE cont == <<profile>>
<1>1. /\ profile \in Profiles /\ tpm \in BOOLEAN /\ phase = "walk" /\ result = "none" /\ digests = <<>>
      /\ iter = <<profile>> /\ profile \in Seq(Instructions)
      /\ Len(contexts) = 1 /\ contexts[1].values = << << >> >>
  BY ProfilesAssumption, Zenon DEF Init
<1>2. cont \in Seq(Seq(Instructions)) /\ Len(cont) = 1 /\ cont[1] = profile
  BY <1>1
<1>3. Left(iter, contexts, cont)
  BY <1>1, <1>2 DEF Left
<1> HIDE DEF cont
<1>4. ASSUME NEW y PROVE Leads(tpm, AtStart(profile), y) <=> Has(tpm, contexts, cont, y)
  <2> DEFINE values == contexts[1].values
  <2>1. \A n : n \in 1 .. Len(contexts) <=> n = 1
    BY <1>1, SMT
  <2>2. Has(tpm, contexts, cont, y) <=> HasFrom(tpm, profile, values, y)
    BY <2>1, <1>2, Zenon DEF Has
  <2>3. Len(values) = 1 /\ values[1] = << >>
    BY <1>1
  <2>4. \A n : n \in 1 .. Len(values) <=> n = 1
    BY <2>3, SMT
  <2> HIDE DEF values
  <2>5. HasFrom(tpm, profile, values, y) <=> Leads(tpm, <<profile, values[1]>>, y)
    BY <2>4, Zenon DEF HasFrom
  <2>6. <<profile, values[1]>> = AtStart(profile)
    BY <2>3, Zenon DEF AtStart
  <2> QED BY <2>2, <2>5, <2>6, Zenon
<1>5. Walking(iter, contexts, cont)
  BY <1>3, <1>4, Zenon DEF Walking
<1>6. DigestsExact
  BY <1>1, Zenon DEF DigestsExact
<1> QED BY <1>1, <1>5, <1>6, Zenon DEF EInv

\* While the profile is walked, a step leaves everything else alone.
LEMMA EInvWalks ==
  ASSUME IInv, EInv, SetOrExtend \/ SkipEmptyOr \/ Branch \/ EndBranch, phase' = "walk"
  PROVE  EInv'
<1>1. /\ phase = "walk" /\ UNCHANGED <<profile, tpm, digests, result>>
  BY Zenon DEF SetOrExtend, SkipEmptyOr, Branch, EndBranch, HasInstr
<1>2. /\ profile \in Profiles /\ tpm \in BOOLEAN /\ result = "none" /\ digests = <<>>
  BY <1>1, Zenon DEF EInv
<1>3. PICK cont : Walking(iter, contexts, cont)
  BY <1>1, Zenon DEF EInv
<1>4. PICK c : Walking(iter', contexts', c)
  BY <1>3, WalkSetOrExtend, WalkSkipEmptyOr, WalkBranch, WalkEndBranch, Zenon
<1>5. Walking(iter, contexts, c)'
  BY <1>1, <1>4, Zenon DEF Walking, Has
<1>6. DigestsExact'
  BY <1>1, <1>2, Zenon DEF DigestsExact
<1> QED BY <1>1, <1>2, <1>5, <1>6, Zenon DEF EInv

\* An instruction that needs a TPM fails without one.
LEMMA EInvStuck ==
  ASSUME IInv, EInv, SetOrExtend, phase' # "walk"
  PROVE  EInv'
<1>1. /\ HasInstr /\ Instr.op = "tpm" /\ ~ tpm /\ phase = "walk" /\ UNCHANGED <<profile, tpm, digests>>
      /\ phase' = "done" /\ result' = "error"
  BY Zenon DEF SetOrExtend, HasInstr
<1>2. /\ profile \in Profiles /\ tpm \in BOOLEAN
  BY Zenon DEF EInv
<1>3. PICK cont : Walking(iter, contexts, cont)
  BY <1>1, Zenon DEF EInv
<1>4. Stuck(profile, tpm)
  BY <1>1, <1>2, <1>3, ErrorMeans, Zenon
<1>5. DigestsExact'
  BY <1>1, <1>4, Zenon DEF DigestsExact
<1> QED BY <1>1, <1>2, <1>5, Zenon DEF EInv

\* The end of the root profile.
LEMMA EInvEndRoot ==
  ASSUME IInv, EInv, EndRoot
  PROVE  EInv'
<1>1. phase = "walk" /\ UNCHANGED <<profile, tpm, contexts, digests, result>> /\ phase' = "digests"
  BY Zenon DEF EndRoot
<1>2. /\ profile \in Profiles /\ tpm \in BOOLEAN /\ result = "none" /\ digests = <<>>
  BY <1>1, Zenon DEF EInv
<1>3. PICK cont : Walking(iter, contexts, cont)
  BY <1>1, Zenon DEF EInv
<1>4. Computed(Top.values)
  BY <1>3, WalkEndRoot, Zenon
<1>5. PICK S : Top.values \in Seq(S) /\ Top.values # <<>>
  BY <1>1, WalkFacts, Zenon
<1>6. Top' = Top
  BY <1>1, Zenon DEF Top
<1>7. Computed(Top.values)'
  BY <1>1, <1>4, <1>6, Zenon DEF Computed
<1>8. DigestsExact'
  BY <1>1, <1>2, Zenon DEF DigestsExact
<1> QED BY <1>1, <1>2, <1>5, <1>6, <1>7, <1>8, Zenon DEF EInv
\* The first loop of computePCRDigests.
LEMMA EInvCompute ==
  ASSUME EInv, ComputePCRDigests
  PROVE  EInv'
<1> DEFINE values == Top.values
<1>1. phase = "digests" /\ UNCHANGED <<profile, tpm, contexts, digests>> /\ Top' = Top
  BY Zenon DEF ComputePCRDigests, Top
<1>2. /\ profile \in Profiles /\ tpm \in BOOLEAN /\ result = "none" /\ digests = <<>>
      /\ values # <<>> /\ Computed(values)
  BY <1>1, Zenon DEF EInv
<1>3. PICK S : values \in Seq(S)
  BY <1>1, Zenon DEF EInv
<1>4. DOMAIN values = 1 .. Len(values) /\ 1 \in DOMAIN values
  BY <1>2, <1>3
<1>5. Computed(values)'
  BY <1>1, <1>2, Zenon DEF Computed
<1>6. CASE \E n \in DOMAIN values : DOMAIN values[n] # DOMAIN values[1]
  <2>1. phase' = "done" /\ result' = "error"
    BY <1>2, <1>6, Zenon DEF ComputePCRDigests
  <2>2. \A v : v \in Permitted(profile, tpm) <=> \E k \in 1 .. Len(values) : v = values[k]
    BY <1>2, <1>3, ComputedMeans, Zenon
  <2>3. \E v, w \in Permitted(profile, tpm) : DOMAIN v # DOMAIN w
    <3> HIDE DEF values
    <3>1. \A k \in 1 .. Len(values) : values[k] \in Permitted(profile, tpm)
      BY <2>2, Zenon
    <3> QED BY <1>4, <1>6, <3>1, Zenon
  <2>4. DigestsExact'
    BY <2>1, <2>3, <1>1, Zenon DEF DigestsExact
  <2> QED BY <2>1, <2>4, <1>1, <1>2, Zenon DEF EInv
<1>7. CASE \A n \in DOMAIN values : DOMAIN values[n] = DOMAIN values[1]
  <2>1. phase' = "unique" /\ pcrDigests' = values /\ result' = result
    BY <1>2, <1>7, Zenon DEF ComputePCRDigests
  <2>2. Uniquing(values, values, <<>>)
    <3> HIDE DEF values
    <3>1. <<>> \in Seq(S)
      OBVIOUS
    <3>2. Range(<<>>) = {} /\ IsInjective(<<>>)
      BY DEF Range, IsInjective
    <3> QED BY <3>1, <3>2, <1>3, <1>7, Zenon DEF Uniquing
  <2>3. Uniquing(Top.values, pcrDigests, digests)'
    BY <2>1, <2>2, <1>1, <1>2, Zenon
  <2>4. DigestsExact'
    BY <2>1, <1>2, Zenon DEF DigestsExact
  <2> QED BY <2>1, <2>3, <2>4, <1>1, <1>2, <1>3, <1>5, Zenon DEF EInv
<1> QED BY <1>6, <1>7, Zenon

\* One more digest has been looked at.
LEMMA OneMore ==
  ASSUME NEW S, NEW values, NEW ds \in Seq(S), NEW us \in Seq(S), ds # <<>>, Uniquing(values, ds, us),
         values \in Seq(S)
  PROVE  Uniquing(values, Tail(ds), IF Head(ds) \in Range(us) THEN us ELSE Append(us, Head(ds)))
<1> DEFINE d == Head(ds)
           t == Tail(ds)
           vs == IF d \in Range(us) THEN us ELSE Append(us, d)
<1>1. /\ \A n \in DOMAIN values : DOMAIN values[n] = DOMAIN values[1]
      /\ Range(us) \cup Range(ds) = Range(values) /\ IsInjective(us)
  BY Zenon DEF Uniquing
<1>2. d \in S /\ t \in Seq(S) /\ vs \in Seq(S)
  OBVIOUS
<1>3. Range(ds) = {d} \cup Range(t)
  <2>1. /\ DOMAIN ds = 1 .. Len(ds) /\ Len(ds) \in Nat /\ Len(ds) >= 1 /\ DOMAIN t = 1 .. Len(ds) - 1
        /\ ds[1] = d /\ \A i \in 1 .. Len(ds) - 1 : t[i] = ds[i + 1]
    OBVIOUS
  <2> HIDE DEF d, t
  <2>2. \A e : e \in Range(ds) <=> \E i \in 1 .. Len(ds) : e = ds[i]
    BY <2>1, Zenon DEF Range
  <2>3. \A e : e \in Range(t) <=> \E i \in 1 .. Len(ds) - 1 : e = t[i]
    BY <2>1, Zenon DEF Range
  <2>4. \A i \in 1 .. Len(ds) : i = 1 \/ (i - 1 \in 1 .. Len(ds) - 1 /\ i = i - 1 + 1)
    BY <2>1, SMT
  <2>5. 1 \in 1 .. Len(ds) /\ \A i \in 1 .. Len(ds) - 1 : i + 1 \in 1 .. Len(ds)
    BY <2>1, SMT
  <2>6. ASSUME NEW e \in Range(ds) PROVE e = d \/ e \in Range(t)
    <3>1. PICK i \in 1 .. Len(ds) : e = ds[i]
      BY <2>2, Zenon
    <3>2. CASE i = 1
      BY <3>1, <3>2, <2>1, Zenon
    <3>3. CASE i # 1
      <4>1. i - 1 \in 1 .. Len(ds) - 1 /\ t[i - 1] = ds[i]
        BY <3>3, <2>1, <2>4, Zenon
      <4> QED BY <4>1, <3>1, <2>3, Zenon
    <3> QED BY <3>2, <3>3, Zenon
  <2>7. ASSUME NEW e \in Range(t) PROVE e \in Range(ds)
    BY <2>1, <2>2, <2>3, <2>5, Zenon
  <2>8. d \in Range(ds)
    BY <2>1, <2>2, <2>5, Zenon
  <2> QED BY <2>6, <2>7, <2>8, Zenon
<1>4. CASE d \in Range(us)
  <2>1. vs = us
    BY <1>4, Zenon
  <2>2. Range(us) \cup Range(t) = Range(values)
    BY <1>1, <1>3, <1>4, Zenon
  <2> HIDE DEF vs, t
  <2> QED BY <1>1, <1>2, <2>1, <2>2, Zenon DEF Uniquing, vs, t, d
<1>5. CASE d \notin Range(us)
  <2> DEFINE a == Append(us, d)
             n == Len(us)
  <2>1. /\ DOMAIN us = 1 .. n /\ n \in Nat /\ DOMAIN a = 1 .. n + 1 /\ a[n + 1] = d
        /\ \A i \in 1 .. n : a[i] = us[i]
    BY <1>2
  <2>2. vs = a
    BY <1>5, Zenon
  <2> HIDE DEF d, t, a, vs, n
  <2>3. \A i \in 1 .. n + 1 : i \in 1 .. n \/ i = n + 1
    BY <2>1, SMT
  <2>4. n + 1 \in 1 .. n + 1 /\ \A i \in 1 .. n : i \in 1 .. n + 1
    BY <2>1, SMT
  <2>5. \A i \in 1 .. n : us[i] # d
    BY <1>5, <2>1, Zenon DEF Range
  <2>6. Range(a) = Range(us) \cup {d}
    BY <2>1, <2>3, <2>4, Zenon DEF Range
  <2>7. IsInjective(a)
    <3>1. \A i, j \in 1 .. n : us[i] = us[j] => i = j
      BY <1>1, <2>1, Zenon DEF IsInjective
    <3>2. \A i, j \in 1 .. n + 1 : a[i] = a[j] => i = j
      BY <2>1, <2>3, <2>5, <3>1, Zenon
    <3> QED BY <2>1, <3>2, Zenon DEF IsInjective
  <2>8. Range(a) \cup Range(t) = Range(values)
    BY <1>1, <1>3, <2>6, Zenon
  <2> QED BY <1>1, <1>2, <2>2, <2>7, <2>8, Zenon DEF Uniquing, vs, t, d
<1> QED BY <1>4, <1>5, Zenon

\* A turn of the second loop.
LEMMA EInvUnique ==
  ASSUME EInv, UniqueDigest
  PROVE  EInv'
<1> DEFINE values == Top.values
<1>1. phase = "unique" /\ UNCHANGED <<profile, tpm, contexts, phase, result>> /\ Top' = Top
  BY Zenon DEF UniqueDigest, Top
<1>2. /\ profile \in Profiles /\ tpm \in BOOLEAN /\ result = "none"
      /\ values # <<>> /\ Computed(values) /\ Uniquing(values, pcrDigests, digests)
  BY <1>1, Zenon DEF EInv
<1>3. PICK S : values \in Seq(S) /\ pcrDigests \in Seq(S) /\ digests \in Seq(S)
  BY <1>2, Zenon DEF Uniquing
<1>4. Computed(values)'
  BY <1>1, <1>2, Zenon DEF Computed
<1>5. /\ pcrDigests # <<>> /\ pcrDigests' = Tail(pcrDigests)
      /\ digests' = IF Head(pcrDigests) \in Range(digests) THEN digests ELSE Append(digests, Head(pcrDigests))
  BY Zenon DEF UniqueDigest
<1>6. Uniquing(values, pcrDigests', digests')
  <2> DEFINE us == IF Head(pcrDigests) \in Range(digests) THEN digests ELSE Append(digests, Head(pcrDigests))
  <2>1. Uniquing(values, Tail(pcrDigests), us)
    BY <1>2, <1>3, <1>5, OneMore, Zenon
  <2> HIDE DEF values
  <2> QED BY <1>5, <2>1, Zenon
<1>7. Uniquing(Top.values, pcrDigests, digests)'
  BY <1>1, <1>6, Zenon
<1>8. DigestsExact'
  BY <1>1, <1>2, Zenon DEF DigestsExact
<1> QED BY <1>1, <1>2, <1>3, <1>4, <1>7, <1>8, Zenon DEF EInv

\* The digests are returned.
LEMMA EInvReturn ==
  ASSUME EInv, ReturnDigests
  PROVE  EInv'
<1> DEFINE values == Top.values
<1>1. /\ phase = "unique" /\ pcrDigests = <<>> /\ phase' = "done" /\ result' = "ok"
      /\ UNCHANGED <<profile, tpm, digests>>
  BY Zenon DEF ReturnDigests
<1>2. /\ profile \in Profiles /\ tpm \in BOOLEAN
      /\ Computed(values) /\ Uniquing(values, pcrDigests, digests)
  BY <1>1, Zenon DEF EInv
<1>3. PICK S : values \in Seq(S)
  BY <1>1, Zenon DEF EInv
<1>4. DOMAIN values = 1 .. Len(values)
  BY <1>3
<1>5. /\ ~ Stuck(profile, tpm)
      /\ \A v : v \in Permitted(profile, tpm) <=> \E k \in 1 .. Len(values) : v = values[k]
  BY <1>2, <1>3, ComputedMeans, Zenon
<1> HIDE DEF values
<1>6. Range(values) = Permitted(profile, tpm)
  BY <1>4, <1>5, Zenon DEF Range
<1>7. Range(digests) = Permitted(profile, tpm) /\ IsInjective(digests)
  <2>1. Range(pcrDigests) = {}
    BY <1>1 DEF Range
  <2> QED BY <2>1, <1>2, <1>6, Zenon DEF Uniquing
<1>8. \A v, w \in Permitted(profile, tpm) : DOMAIN v = DOMAIN w
  BY <1>2, <1>4, <1>5, Zenon DEF Uniquing
<1>9. DigestsExact'
  BY <1>1, <1>5, <1>7, <1>8, Zenon DEF DigestsExact
<1> QED BY <1>1, <1>2, <1>9, Zenon DEF EInv

(***************************************************************************)
(* For every profile, with or without a TPM, computePCRDigests returns the *)
(* digests of the combinations of values that the ways through the profile *)
(* compute, all of them, nothing else and each once.  It fails only where  *)
(* a way needs a TPM that is not there or two ways set different PCRs, and *)
(* values[0] never panics.                                                 *)
(***************************************************************************)
THEOREM DigestsAreExact == Spec => []DigestsExact
<1>1. Init => IInv /\ EInv
  BY InitEstablishes, EInvInit, Zenon
<1>2. IInv /\ [Next]_vars => IInv'
  BY NextPreserves, Zenon
<1>3. IInv /\ EInv /\ [Next]_vars => EInv'
  <2> SUFFICES ASSUME IInv, EInv, [Next]_vars PROVE EInv'
    BY Zenon
  <2>1. CASE SetOrExtend \/ SkipEmptyOr \/ Branch \/ EndBranch
    <3>1. CASE phase' = "walk"
      BY <2>1, <3>1, EInvWalks, Zenon
    <3>2. CASE phase' # "walk"
      <4>1. SetOrExtend
        BY <2>1, <3>2, Zenon DEF SkipEmptyOr, Branch, EndBranch, HasInstr
      <4> QED BY <3>2, <4>1, EInvStuck, Zenon
    <3> QED BY <3>1, <3>2, Zenon
  <2>2. CASE EndRoot
    BY <2>2, EInvEndRoot, Zenon
  <2>3. CASE ComputePCRDigests
    BY <2>3, EInvCompute, Zenon
  <2>4. CASE UniqueDigest
    BY <2>4, EInvUnique, Zenon
  <2>5. CASE ReturnDigests
    BY <2>5, EInvReturn, Zenon
  <2>6. CASE UNCHANGED vars
    <3>1. UNCHANGED <<profile, tpm, iter, contexts, phase, pcrDigests, digests, result>>
      BY <2>6, Zenon DEF vars
    <3>2. Top' = Top /\ DigestsExact' = DigestsExact
      BY <3>1, Zenon DEF Top, DigestsExact
    <3>3. \A it, cs, c : Walking(it, cs, c)' <=> Walking(it, cs, c)
      BY <3>1, Zenon DEF Walking
    <3>4. \A vs : Computed(vs)' <=> Computed(vs)
      BY <3>1, Zenon DEF Computed
    <3> QED BY <3>1, <3>2, <3>3, <3>4, Zenon DEF EInv
  <2> QED BY <2>1, <2>2, <2>3, <2>4, <2>5, <2>6, Zenon DEF Next, Done
<1>4. EInv => DigestsExact
  BY Zenon DEF EInv
<1> QED BY <1>1, <1>2, <1>3, <1>4, PTL DEF Spec
=============================================================================
