--------------------------- MODULE Liveness_proofs ---------------------------
(***************************************************************************)
(* Proofs for Liveness: whatever the graph of the ops, the analysis stops  *)
(* only with the least solution of its equations, and a local is live in   *)
(* it exactly where control may reach a use of it before a definition.     *)
(***************************************************************************)
EXTENDS Liveness, FiniteSetTheorems, SequenceTheorems, TLAPS

Pending == Range(round) \cup Range(changed)

(* The sets never exceed any that are sufficient: a local is found live    *)
(* only when it has to be.                                                 *)
NeverTooMuch ==
  \A I \in [Op -> SUBSET Local] :
    Sufficient(I) =>
      \A n \in Op : liveIn[n] \subseteq I[n]

IInv == LivenessTypeOK /\ PendingCoverChanges /\ NeverTooMuch

-----------------------------------------------------------------------------
(* The equations                                                           *)

(* The sets of an op are sets of locals.                                   *)
LEMMA EquationTypes ==
  ASSUME NEW G, IsGraph(G), NEW I \in [Op -> SUBSET Local], NEW n \in Op
  PROVE  /\ OutOf(G, I, n) \in SUBSET Local
         /\ InFrom(G, OutOf(G, I, n), n) \in SUBSET Local
  BY DEF IsGraph, OutOf, InFrom

(* Larger sets at the successors of an op give larger sets at the op.      *)
LEMMA Monotone ==
  ASSUME NEW G, IsGraph(G), NEW n \in Op,
         NEW I \in [Op -> SUBSET Local], NEW J \in [Op -> SUBSET Local],
         \A s \in Op : I[s] \subseteq J[s]
  PROVE  InFrom(G, OutOf(G, I, n), n) \subseteq InFrom(G, OutOf(G, J, n), n)
<1>1. OutOf(G, I, n) \subseteq OutOf(G, J, n)
  BY DEF IsGraph, OutOf
<1> QED BY <1>1 DEF InFrom

(* An order of the predecessors has all of them and nothing else.          *)
LEMMA OrderHasAll ==
  ASSUME NEW S, IsFiniteSet(S), NEW p \in SetToSeqs(S)
  PROVE  p \in Seq(S) /\ Range(p) = S
<1> DEFINE D == 1..Cardinality(S)
<1>1. Cardinality(S) \in Nat
  BY FS_CardinalityType
<1>2. p \in Injection(D, S)
  BY DEF SetToSeqs, Injection, IsInjective
<1>3. Cardinality(D) = Cardinality(S)
  BY <1>1, FS_Interval
<1>4. p \in Surjection(D, S)
  BY <1>2, <1>3, FS_Injection
<1>5. p \in [D -> S]
  BY DEF SetToSeqs
<1> QED BY <1>1, <1>4, <1>5 DEF Surjection, Range

(* Head and Tail part the elements of a list.                              *)
LEMMA HeadTailRange ==
  ASSUME NEW S, NEW s \in Seq(S), s # <<>>
  PROVE  /\ Head(s) \in S
         /\ Tail(s) \in Seq(S)
         /\ Range(s) = {Head(s)} \cup Range(Tail(s))
<1>1. Len(s) \in Nat /\ Len(s) > 0 /\ DOMAIN s = 1..Len(s)
  BY EmptySeq, LenProperties
<1>2. Head(s) = s[1] /\ Head(s) \in S
  BY <1>1, HeadTailProperties
<1>3. /\ Tail(s) \in Seq(S)
      /\ DOMAIN Tail(s) = 1..Len(s) - 1
      /\ \A i \in 1..Len(s) - 1 : Tail(s)[i] = s[i + 1]
  BY <1>1, HeadTailProperties, LenProperties
<1>4. Range(s) \subseteq {Head(s)} \cup Range(Tail(s))
  <2>1. SUFFICES ASSUME NEW i \in 1..Len(s), i # 1
                 PROVE  s[i] \in Range(Tail(s))
    BY <1>1, <1>2 DEF Range
  <2>2. i - 1 \in 1..Len(s) - 1 /\ (i - 1) + 1 = i
    BY <1>1, <2>1
  <2> QED BY <1>3, <2>2 DEF Range
<1>5. {Head(s)} \cup Range(Tail(s)) \subseteq Range(s)
  <2>1. Head(s) \in Range(s)
    BY <1>1, <1>2 DEF Range
  <2>2. ASSUME NEW i \in 1..Len(s) - 1
        PROVE  Tail(s)[i] \in Range(s)
    <3>1. i + 1 \in 1..Len(s)
      BY <1>1
    <3> QED BY <1>1, <1>3, <3>1 DEF Range
  <2> QED BY <1>3, <2>1, <2>2 DEF Range
<1> QED BY <1>2, <1>3, <1>4, <1>5

(* The elements of two lists are those of the one appended to the other.   *)
LEMMA ConcatRange ==
  ASSUME NEW S, NEW s \in Seq(S), NEW t \in Seq(S)
  PROVE  s \o t \in Seq(S) /\ Range(s \o t) = Range(s) \cup Range(t)
<1>1. /\ s \o t \in Seq(S)
      /\ Len(s \o t) = Len(s) + Len(t)
      /\ \A i \in 1..Len(s) + Len(t) :
           (s \o t)[i] = IF i <= Len(s) THEN s[i] ELSE t[i - Len(s)]
  BY ConcatProperties
<1>2. Len(s) \in Nat /\ Len(t) \in Nat
  BY LenProperties
<1>3. /\ DOMAIN (s \o t) = 1..Len(s) + Len(t)
      /\ DOMAIN s = 1..Len(s)
      /\ DOMAIN t = 1..Len(t)
  BY <1>1, LenProperties
<1>4. ASSUME NEW i \in 1..Len(s) + Len(t)
      PROVE  (s \o t)[i] \in Range(s) \cup Range(t)
  <2>1. CASE i <= Len(s)
    <3>1. i \in 1..Len(s)
      BY <1>2, <2>1
    <3> QED BY <1>1, <1>3, <2>1, <3>1 DEF Range
  <2>2. CASE ~(i <= Len(s))
    <3>1. i - Len(s) \in 1..Len(t)
      BY <1>2, <2>2
    <3> QED BY <1>1, <1>3, <2>2, <3>1 DEF Range
  <2> QED BY <2>1, <2>2
<1>5. ASSUME NEW i \in 1..Len(s)
      PROVE  s[i] \in Range(s \o t)
  <2>1. i \in 1..Len(s) + Len(t) /\ i <= Len(s)
    BY <1>2
  <2> QED BY <1>1, <1>3, <2>1 DEF Range
<1>6. ASSUME NEW i \in 1..Len(t)
      PROVE  t[i] \in Range(s \o t)
  <2>1. /\ i + Len(s) \in 1..Len(s) + Len(t)
        /\ ~(i + Len(s) <= Len(s))
        /\ (i + Len(s)) - Len(s) = i
    BY <1>2
  <2> QED BY <1>1, <1>3, <2>1 DEF Range
<1>7. Range(s \o t) \subseteq Range(s) \cup Range(t)
  BY <1>3, <1>4 DEF Range
<1>8. Range(s) \cup Range(t) \subseteq Range(s \o t)
  BY <1>3, <1>5, <1>6 DEF Range
<1> QED BY <1>1, <1>7, <1>8

-----------------------------------------------------------------------------
(* The inductive invariant                                                 *)

(* The first round visits every op.                                        *)
LEMMA FirstRound == AllReversed \in Seq(Op) /\ Range(AllReversed) = Op
<1>1. NumOps \in Nat
  BY LivenessAssumption
<1>2. \A i \in 1..NumOps : NumOps + 1 - i \in 1..NumOps
  BY <1>1
<1>3. AllReversed \in [1..NumOps -> Op]
  BY <1>2 DEF AllReversed, Op
<1>4. ASSUME NEW n \in Op
      PROVE  n \in Range(AllReversed)
  <2>1. NumOps + 1 - n \in 1..NumOps /\ NumOps + 1 - (NumOps + 1 - n) = n
    BY <1>1 DEF Op
  <2> QED BY <2>1 DEF AllReversed, Range, Op
<1>5. AllReversed \in Seq(Op)
  BY <1>1, <1>3
<1> QED BY <1>3, <1>4, <1>5 DEF Range

LEMMA InitInv == Init => IInv
<1> SUFFICES ASSUME Init PROVE IInv
  OBVIOUS
<1>1. Nothing \in [Op -> SUBSET Local]
  BY DEF Nothing
<1>2. LivenessTypeOK
  BY <1>1, FirstRound DEF Init, LivenessTypeOK
<1>3. PendingCoverChanges
  BY FirstRound DEF Init, PendingCoverChanges
<1>4. NeverTooMuch
  BY DEF Init, NeverTooMuch, Nothing
<1> QED BY <1>2, <1>3, <1>4 DEF IInv

LEMMA OpIsFinite == \A S \in SUBSET Op : IsFiniteSet(S)
<1>1. NumOps \in Int /\ 1 \in Int
  BY LivenessAssumption
<1>2. IsFiniteSet(Op)
  BY <1>1, FS_Interval DEF Op
<1> QED BY <1>2, FS_Subset

(* A visit that finds other sets than the op had.                          *)
LEMMA VisitChanges ==
  ASSUME IInv, NEW n \in Op,
         round # <<>>, n = Head(round),
         NEW p \in SetToSeqs(Revisited(n)),
         liveOut' = [liveOut EXCEPT ![n] = OutOf(graph, liveIn, n)],
         liveIn' = [liveIn EXCEPT
                      ![n] = InFrom(graph, OutOf(graph, liveIn, n), n)],
         changed' = changed \o p,
         round' = Tail(round),
         UNCHANGED graph
  PROVE  IInv'
<1> USE DEF IInv
<1>1. /\ IsGraph(graph)
      /\ liveIn \in [Op -> SUBSET Local]
      /\ liveOut \in [Op -> SUBSET Local]
      /\ round \in Seq(Op)
      /\ changed \in Seq(Op)
  BY DEF LivenessTypeOK
<1>2. p \in Seq(Op) /\ Range(p) = Revisited(n)
  <2>1. Revisited(n) \in SUBSET Op
    BY DEF Revisited
  <2>2. p \in Seq(Revisited(n)) /\ Range(p) = Revisited(n)
    BY <2>1, OpIsFinite, OrderHasAll
  <2> QED BY <2>1, <2>2
<1>3. /\ changed' \in Seq(Op)
      /\ Range(changed') = Range(changed) \cup Revisited(n)
  BY <1>1, <1>2, ConcatRange
<1>4. round' \in Seq(Op) /\ Range(round) = {n} \cup Range(round')
  BY <1>1, HeadTailRange
<1>5. LivenessTypeOK'
  BY <1>1, <1>3, <1>4, EquationTypes DEF LivenessTypeOK
<1>6. PendingCoverChanges'
  <2> SUFFICES ASSUME NEW m \in Op,
                      m \notin Range(round'), m \notin Range(changed')
               PROVE  /\ liveOut'[m] = OutOf(graph, liveIn', m)
                      /\ liveIn'[m] = InFrom(graph, liveOut'[m], m)
    BY DEF PendingCoverChanges
  <2>1. n \notin graph.succ[m]
    BY <1>3 DEF Revisited
  <2>2. \A s \in graph.succ[m] : liveIn'[s] = liveIn[s]
    BY <1>1, <2>1 DEF IsGraph
  <2>3. OutOf(graph, liveIn', m) = OutOf(graph, liveIn, m)
    BY <2>2 DEF OutOf
  <2>4. CASE m = n
    BY <1>1, <2>3, <2>4
  <2>5. CASE m # n
    <3>1. m \in Op \ (Range(round) \cup Range(changed))
      BY <1>3, <1>4, <2>5
    <3>2. /\ liveOut[m] = OutOf(graph, liveIn, m)
          /\ liveIn[m] = InFrom(graph, liveOut[m], m)
      BY <3>1 DEF PendingCoverChanges
    <3>3. liveOut'[m] = liveOut[m] /\ liveIn'[m] = liveIn[m]
      BY <1>1, <2>5
    <3> QED BY <2>3, <3>2, <3>3
  <2> QED BY <2>4, <2>5
<1>7. NeverTooMuch'
  <2> SUFFICES ASSUME NEW I \in [Op -> SUBSET Local], Sufficient(I),
                      NEW m \in Op
               PROVE  liveIn'[m] \subseteq I[m]
    BY DEF NeverTooMuch, Sufficient
  <2>1. \A s \in Op : liveIn[s] \subseteq I[s]
    BY DEF NeverTooMuch
  <2>2. InFrom(graph, OutOf(graph, liveIn, n), n) \subseteq I[n]
    <3>1. InFrom(graph, OutOf(graph, liveIn, n), n)
            \subseteq InFrom(graph, OutOf(graph, I, n), n)
      BY <1>1, <2>1, Monotone
    <3>2. InFrom(graph, OutOf(graph, I, n), n) \subseteq I[n]
      BY DEF Sufficient
    <3> QED BY <3>1, <3>2
  <2>3. CASE m = n
    BY <1>1, <2>2, <2>3
  <2>4. CASE m # n
    BY <1>1, <2>1, <2>4
  <2> QED BY <2>3, <2>4
<1> QED BY <1>5, <1>6, <1>7

(* A visit that finds the sets the op has already.                         *)
LEMMA VisitKeeps ==
  ASSUME IInv, NEW n \in Op,
         round # <<>>, n = Head(round),
         SameSets(n, InFrom(graph, OutOf(graph, liveIn, n), n),
                  OutOf(graph, liveIn, n)),
         round' = Tail(round),
         UNCHANGED <<graph, liveIn, liveOut, changed>>
  PROVE  IInv'
<1> USE DEF IInv
<1>1. round \in Seq(Op)
  BY DEF LivenessTypeOK
<1>2. round' \in Seq(Op) /\ Range(round) = {n} \cup Range(round')
  BY <1>1, HeadTailRange
<1>3. LivenessTypeOK'
  BY <1>2 DEF LivenessTypeOK
<1>4. PendingCoverChanges'
  <2> SUFFICES ASSUME NEW m \in Op,
                      m \notin Range(round'), m \notin Range(changed)
               PROVE  /\ liveOut[m] = OutOf(graph, liveIn, m)
                      /\ liveIn[m] = InFrom(graph, liveOut[m], m)
    BY DEF PendingCoverChanges
  <2>1. CASE m = n
    BY <2>1 DEF SameSets
  <2>2. CASE m # n
    BY <1>2, <2>2 DEF PendingCoverChanges
  <2> QED BY <2>1, <2>2
<1>5. NeverTooMuch'
  BY DEF NeverTooMuch, Sufficient
<1> QED BY <1>3, <1>4, <1>5

LEMMA StepInv == IInv /\ [Next]_vars => IInv'
<1> SUFFICES ASSUME IInv, [Next]_vars PROVE IInv'
  OBVIOUS
<1>1. CASE Visit
  <2>1. round \in Seq(Op) /\ round # <<>>
    BY <1>1 DEF IInv, LivenessTypeOK, Visit
  <2>2. Head(round) \in Op
    BY <2>1, HeadTailRange
  <2> DEFINE n == Head(round)
             out == OutOf(graph, liveIn, n)
             in == InFrom(graph, out, n)
  <2>3. CASE SameSets(n, in, out) /\ UNCHANGED <<liveIn, liveOut, changed>>
    BY <1>1, <2>1, <2>2, <2>3, VisitKeeps DEF Visit
  <2>4. CASE /\ liveIn' = [liveIn EXCEPT ![n] = in]
             /\ liveOut' = [liveOut EXCEPT ![n] = out]
             /\ \E p \in SetToSeqs(Revisited(n)) : changed' = changed \o p
    BY <1>1, <2>1, <2>2, <2>4, VisitChanges DEF Visit
  <2> QED BY <1>1, <2>3, <2>4 DEF Visit
<1>2. CASE NextRound
  <2>1. Range(round) = {}
    BY <1>2 DEF NextRound, Range
  <2>2. Range(changed') = {}
    BY <1>2 DEF NextRound, Range
  <2>3. LivenessTypeOK'
    BY <1>2 DEF IInv, LivenessTypeOK, NextRound
  <2>4. PendingCoverChanges'
    BY <1>2, <2>1, <2>2 DEF IInv, PendingCoverChanges, NextRound
  <2>5. NeverTooMuch'
    BY <1>2 DEF IInv, NeverTooMuch, Sufficient, NextRound
  <2> QED BY <2>3, <2>4, <2>5 DEF IInv
<1>3. CASE UNCHANGED vars
  BY <1>3 DEF IInv, LivenessTypeOK, PendingCoverChanges, NeverTooMuch,
              Sufficient, vars
<1> QED BY <1>1, <1>2, <1>3 DEF Next

-----------------------------------------------------------------------------
(* Theorems                                                                *)

(* The sets and the two lists are what they should be in every state.      *)
THEOREM LivenessTypes == Spec => []LivenessTypeOK
<1>1. IInv => LivenessTypeOK
  BY DEF IInv
<1> QED BY InitInv, StepInv, <1>1, PTL DEF Spec

(* An op whose sets may be out of date is on one of the two lists: no      *)
(* change is lost, whatever the order of the visits and the cycles.        *)
THEOREM NoChangeIsLost == Spec => []PendingCoverChanges
<1>1. IInv => PendingCoverChanges
  BY DEF IInv
<1> QED BY InitInv, StepInv, <1>1, PTL DEF Spec

(* When the analysis stops, the sets are the least that satisfy the        *)
(* equations: every local that may be needed is live, and no other.        *)
THEOREM AnalysisIsLeast == Spec => []LeastSolution
<1>1. IInv => LeastSolution
  <2> SUFFICES ASSUME IInv, Analysed PROVE
         /\ \A n \in Op : /\ liveOut[n] = OutOf(graph, liveIn, n)
                          /\ liveIn[n] = InFrom(graph, liveOut[n], n)
         /\ \A I \in [Op -> SUBSET Local] :
              Sufficient(I) => \A n \in Op : liveIn[n] \subseteq I[n]
    BY DEF LeastSolution
  <2>1. Range(round) = {} /\ Range(changed) = {}
    BY DEF Analysed, Range
  <2> QED BY <2>1 DEF IInv, PendingCoverChanges, NeverTooMuch
<1> QED BY InitInv, StepInv, <1>1, PTL DEF Spec

-----------------------------------------------------------------------------
(* Induction                                                               *)

(* The induction theorems of the library take the predicate as an operator; *)
(* here it is a set.  The numbers up to t that are not in S would be as    *)
(* many as those below t that are not.                                     *)
LEMMA SetInduction ==
  ASSUME NEW S, 0 \in S, \A k \in Nat : k \in S => k + 1 \in S
  PROVE  \A k \in Nat : k \in S
<1> SUFFICES ASSUME NEW t \in Nat, t \notin S PROVE FALSE
  OBVIOUS
<1> DEFINE D == {u \in 0..t : u \notin S}
           f == [u \in D |-> u - 1]
<1>1. t \in D /\ IsFiniteSet(0..t)
  BY FS_Interval
<1>2. IsFiniteSet(D)
  BY <1>1, FS_Subset
<1>3. \A u \in D : u - 1 \in D \ {t} /\ u \in Int
  OBVIOUS
<1>4. f \in [D -> D \ {t}] /\ \A u, v \in D : f[u] = f[v] => u = v
  BY <1>3
<1> HIDE DEF f, D
<1>5. f \in Injection(D, D \ {t})
  BY <1>4 DEF Injection, IsInjective
<1>6. IsFiniteSet(D \ {t}) /\ Cardinality(D \ {t}) = Cardinality(D) - 1
  BY <1>1, <1>2, FS_RemoveElement
<1>7. Cardinality(D) <= Cardinality(D \ {t})
  BY <1>5, <1>6, FS_Injection
<1>8. Cardinality(D) \in Nat
  BY <1>2, FS_CardinalityType
<1> QED
  BY <1>6, <1>7, <1>8

-----------------------------------------------------------------------------
(* The paths to a use                                                      *)

(* What is live one step before what is live by I.                         *)
Before(G, I) == [n \in Nodes(G) |-> InFrom(G, OutOf(G, I, n), n)]

LEMMA BeforeTypes ==
  ASSUME NEW G, IsGraph(G), NEW I \in [Op -> SUBSET Local]
  PROVE  /\ Nodes(G) = Op
         /\ Before(G, I) \in [Op -> SUBSET Local]
         /\ \A n \in Op : Before(G, I)[n] = InFrom(G, OutOf(G, I, n), n)
<1>1. Nodes(G) = Op
  BY DEF IsGraph, Nodes
<1> QED
  BY <1>1, EquationTypes DEF Before

(* The paths of at most k ops, for each k up to m.                         *)
IsWithin(G, w, m) ==
  /\ w \in [0..m -> [Op -> SUBSET Local]]
  /\ w[0] = [n \in Op |-> {}]
  /\ \A k \in 1..m : w[k] = Before(G, w[k - 1])

LEMMA WithinExists ==
  ASSUME NEW G, IsGraph(G), NEW N \in Nat
  PROVE  \E w : IsWithin(G, w, N)
<1> DEFINE S == {m \in Nat : \E w : IsWithin(G, w, m)}
<1>1. 0 \in S
  <2>1. IsWithin(G, [k \in 0..0 |-> [n \in Op |-> {}]], 0)
    BY DEF IsWithin
  <2> QED
    BY <2>1
<1>2. ASSUME NEW m \in Nat, m \in S PROVE m + 1 \in S
  <2>1. PICK w : IsWithin(G, w, m)
    BY <1>2
  <2> DEFINE v == [k \in 0..(m + 1) |-> IF k <= m THEN w[k] ELSE Before(G, w[m])]
  <2>2. /\ \A k \in 0..m : v[k] = w[k] /\ w[k] \in [Op -> SUBSET Local]
        /\ v[m + 1] = Before(G, w[m])
    BY <2>1 DEF IsWithin
  <2>3. Before(G, w[m]) \in [Op -> SUBSET Local]
    BY <2>2, BeforeTypes
  <2>4. v \in [0..(m + 1) -> [Op -> SUBSET Local]]
    BY <2>2, <2>3
  <2> HIDE DEF v
  <2>5. ASSUME NEW k \in 1..(m + 1) PROVE v[k] = Before(G, v[k - 1])
    <3>1. CASE k = m + 1
      <4>1. k - 1 = m /\ m \in 0..m
        BY <3>1
      <4> QED
        BY <2>2, <3>1, <4>1
    <3>2. CASE k \in 1..m
      <4>1. k - 1 \in 0..m /\ k \in 0..m
        BY <3>2
      <4> QED
        BY <2>1, <2>2, <3>2, <4>1 DEF IsWithin
    <3> QED
      BY <3>1, <3>2
  <2>6. v[0] = [n \in Op |-> {}]
    <3>1. 0 \in 0..m
      OBVIOUS
    <3> QED
      BY <2>1, <2>2, <3>1 DEF IsWithin
  <2> QED
    BY <2>4, <2>5, <2>6 DEF IsWithin
<1> HIDE DEF S
<1>3. N \in S
  BY <1>1, <1>2, SetInduction
<1> QED
  BY <1>3 DEF S

(* So LiveIn is what its recursive definition says.                        *)
LEMMA LiveInIsWithin ==
  ASSUME NEW G, IsGraph(G)
  PROVE  \E w : IsWithin(G, w, NumOps) /\ LiveIn(G) = w[NumOps]
<1> DEFINE body(w) == [k \in 0..Cardinality(Nodes(G)) |->
                         IF k = 0 THEN [n \in Nodes(G) |-> {}]
                         ELSE Before(G, w[k - 1])]
           within == CHOOSE w : w = body(w)
<1>1. Nodes(G) = Op /\ NumOps \in Nat /\ Cardinality(Nodes(G)) = NumOps
  <2>1. NumOps \in Nat
    BY LivenessAssumption
  <2>2. Nodes(G) = Op
    BY DEF IsGraph, Nodes
  <2>3. Cardinality(1..NumOps) = NumOps
    BY <2>1, FS_Interval
  <2> QED
    BY <2>1, <2>2, <2>3 DEF Op
<1>2. LiveIn(G) = within[Cardinality(Nodes(G))]
  BY DEF LiveIn, Before
<1>3. PICK v : IsWithin(G, v, NumOps)
  BY <1>1, WithinExists
<1>4. v = body(v)
  <2>1. v \in [0..NumOps -> [Op -> SUBSET Local]] /\ DOMAIN v = 0..NumOps
    BY <1>3 DEF IsWithin
  <2>2. ASSUME NEW k \in 0..NumOps
        PROVE  v[k] = IF k = 0 THEN [n \in Op |-> {}] ELSE Before(G, v[k - 1])
    BY <1>1, <1>3 DEF IsWithin
  <2>3. body(v) = [k \in 0..NumOps |->
                     IF k = 0 THEN [n \in Op |-> {}] ELSE Before(G, v[k - 1])]
    BY <1>1
  <2> HIDE DEF body
  <2> QED
    BY <2>1, <2>2, <2>3
<1>5. within = body(within)
  BY <1>4
<1> HIDE DEF within
<1>6. /\ within[0] = [n \in Op |-> {}]
      /\ \A k \in 1..NumOps : within[k] = Before(G, within[k - 1])
  <2>1. within = [k \in 0..NumOps |->
                    IF k = 0 THEN [n \in Op |-> {}] ELSE Before(G, within[k - 1])]
    BY <1>1, <1>5
  <2>2. ASSUME NEW k \in 0..NumOps
        PROVE  within[k] = IF k = 0 THEN [n \in Op |-> {}]
                           ELSE Before(G, within[k - 1])
    BY <2>1
  <2> HIDE DEF body
  <2> QED
    BY <1>1, <2>2
<1>7. \A k \in 0..NumOps : within[k] = v[k]
  <2> DEFINE S == {k \in Nat : k <= NumOps => within[k] = v[k]}
  <2>1. 0 \in S
    BY <1>3, <1>6 DEF IsWithin
  <2>2. ASSUME NEW k \in Nat, k \in S PROVE k + 1 \in S
    <3>1. CASE k + 1 <= NumOps
      <4>1. k + 1 \in 1..NumOps /\ (k + 1) - 1 = k /\ k <= NumOps
        BY <1>1, <3>1
      <4>2. within[k + 1] = Before(G, within[k]) /\ v[k + 1] = Before(G, v[k])
        BY <1>3, <1>6, <4>1 DEF IsWithin
      <4> QED
        BY <2>2, <4>1, <4>2
    <3> QED
      BY <3>1
  <2> HIDE DEF S
  <2>3. \A k \in Nat : k \in S
    BY <2>1, <2>2, SetInduction
  <2> QED
    BY <1>1, <2>3 DEF S
<1> QED
  BY <1>1, <1>2, <1>3, <1>7

(* Longer paths find more.                                                 *)
LEMMA LongerFindsMore ==
  ASSUME NEW G, IsGraph(G), NEW N \in Nat, NEW w, IsWithin(G, w, N)
  PROVE  \A k \in 0..(N - 1) : \A n \in Op : w[k][n] \subseteq w[k + 1][n]
<1> DEFINE S == {k \in Nat : k < N => \A n \in Op : w[k][n] \subseteq w[k + 1][n]}
<1>1. 0 \in S
  <2>1. w[0] = [n \in Op |-> {}]
    BY DEF IsWithin
  <2> QED
    BY <2>1
<1>2. ASSUME NEW k \in Nat, k \in S PROVE k + 1 \in S
  <2> SUFFICES ASSUME k + 1 < N, NEW n \in Op
               PROVE  w[k + 1][n] \subseteq w[k + 2][n]
    BY <1>2
  <2>1. k < N /\ k \in 0..N /\ k + 1 \in 1..N /\ k + 1 \in 0..N /\ k + 2 \in 1..N
    OBVIOUS
  <2>2. /\ w[k] \in [Op -> SUBSET Local]
        /\ w[k + 1] \in [Op -> SUBSET Local]
    BY <2>1 DEF IsWithin
  <2>3. (k + 1) - 1 = k /\ (k + 2) - 1 = k + 1
    OBVIOUS
  <2>4. w[k + 1] = Before(G, w[k]) /\ w[k + 2] = Before(G, w[k + 1])
    BY <2>1, <2>3 DEF IsWithin
  <2>5. \A s \in Op : w[k][s] \subseteq w[k + 1][s]
    BY <1>2, <2>1
  <2>6. /\ w[k + 1][n] = InFrom(G, OutOf(G, w[k], n), n)
        /\ w[k + 2][n] = InFrom(G, OutOf(G, w[k + 1], n), n)
    BY <2>2, <2>4, BeforeTypes
  <2> QED
    BY <2>2, <2>5, <2>6, Monotone
<1> HIDE DEF S
<1>3. \A k \in Nat : k \in S
  BY <1>1, <1>2, SetInduction
<1> QED
  BY <1>3 DEF S

(* The ops at which x is live one step before those of L.                  *)
StepBefore(G, x, L) ==
  {n \in Op : \/ x \in G.used[n]
             \/ (x \notin G.defined[n] /\ G.succ[n] \cap L # {})}

LEMMA StepBeforeIsBefore ==
  ASSUME NEW G, IsGraph(G), NEW I \in [Op -> SUBSET Local], NEW x
  PROVE  {n \in Op : x \in Before(G, I)[n]}
           = StepBefore(G, x, {n \in Op : x \in I[n]})
<1>1. G.succ \in [Op -> SUBSET Op]
  BY DEF IsGraph
<1>2. ASSUME NEW n \in Op
      PROVE  x \in OutOf(G, I, n) <=> G.succ[n] \cap {m \in Op : x \in I[m]} # {}
  BY <1>1 DEF OutOf
<1>3. ASSUME NEW n \in Op
      PROVE  x \in Before(G, I)[n]
               <=> \/ x \in G.used[n]
                   \/ (x \notin G.defined[n] /\ x \in OutOf(G, I, n))
  BY BeforeTypes DEF InFrom
<1> QED
  BY <1>2, <1>3 DEF StepBefore

(* While the paths to a use of x still find ops they find one more at each *)
(* step, so that NumOps steps find all of them.                            *)
LEMMA AllAreFound ==
  ASSUME NEW G, IsGraph(G), NEW w, IsWithin(G, w, NumOps), NEW x
  PROVE  \A n \in Op : x \in Before(G, w[NumOps])[n] => x \in w[NumOps][n]
<1> DEFINE L(k) == {n \in Op : x \in w[k][n]}
           Full(k) == StepBefore(G, x, L(k)) \subseteq L(k)
           S == {k \in Nat : k <= NumOps => Cardinality(L(k)) >= k \/ Full(k)}
<1>1. NumOps \in Nat
  BY LivenessAssumption
<1>2. \A k \in 0..NumOps : w[k] \in [Op -> SUBSET Local]
  BY DEF IsWithin
<1>3. \A k \in Nat : L(k) \subseteq Op /\ IsFiniteSet(L(k)) /\ Cardinality(L(k)) \in Nat
  <2>1. \A k \in Nat : L(k) \in SUBSET Op
    OBVIOUS
  <2> HIDE DEF L
  <2> QED
    BY <2>1, OpIsFinite, FS_CardinalityType
<1>4. \A k \in 0..(NumOps - 1) :
        /\ L(k) \subseteq L(k + 1)
        /\ L(k + 1) = StepBefore(G, x, L(k))
  <2> SUFFICES ASSUME NEW k \in 0..(NumOps - 1)
               PROVE  /\ L(k) \subseteq L(k + 1)
                      /\ L(k + 1) = StepBefore(G, x, L(k))
    OBVIOUS
  <2>1. \A n \in Op : w[k][n] \subseteq w[k + 1][n]
    BY <1>1, LongerFindsMore
  <2>2. k \in 0..NumOps /\ k + 1 \in 1..NumOps /\ (k + 1) - 1 = k
    BY <1>1
  <2>3. w[k + 1] = Before(G, w[k]) /\ w[k] \in [Op -> SUBSET Local]
    BY <1>2, <2>2 DEF IsWithin
  <2>4. L(k + 1) = StepBefore(G, x, L(k))
    BY <2>3, StepBeforeIsBefore
  <2> QED
    BY <2>1, <2>4
<1> HIDE DEF L
<1>5. 0 \in S
  BY <1>3
<1>6. ASSUME NEW k \in Nat, k \in S PROVE k + 1 \in S
  <2> SUFFICES ASSUME k + 1 <= NumOps
               PROVE  Cardinality(L(k + 1)) >= k + 1 \/ Full(k + 1)
    OBVIOUS
  <2>1. /\ L(k) \subseteq L(k + 1)
        /\ L(k + 1) = StepBefore(G, x, L(k))
    BY <1>1, <1>4
  <2>2. CASE Full(k)
    <3>1. L(k + 1) = L(k)
      BY <2>1, <2>2
    <3> QED
      BY <2>2, <3>1
  <2>3. CASE ~Full(k)
    <3>1. L(k) # L(k + 1)
      BY <2>1, <2>3
    <3>2. Cardinality(L(k)) >= k
      BY <1>1, <1>6, <2>3
    <3>3. Cardinality(L(k)) < Cardinality(L(k + 1))
      BY <1>3, <2>1, <3>1, FS_Subset
    <3> QED
      BY <1>3, <3>2, <3>3
  <2> QED
    BY <2>2, <2>3
<1> HIDE DEF S
<1>7. NumOps \in S
  BY <1>1, <1>5, <1>6, SetInduction
<1>8. Full(NumOps)
  <2>1. CASE Cardinality(L(NumOps)) >= NumOps
    <3>1. IsFiniteSet(Op) /\ Cardinality(Op) = NumOps
      BY <1>1, FS_Interval DEF Op
    <3>2. L(NumOps) = Op
      BY <1>1, <1>3, <2>1, <3>1, FS_Subset
    <3> QED
      BY <3>2 DEF StepBefore
  <2> QED
    BY <1>1, <1>7, <2>1 DEF S
<1> QED
  <2>1. w[NumOps] \in [Op -> SUBSET Local]
    BY <1>1, <1>2
  <2>2. {n \in Op : x \in Before(G, w[NumOps])[n]} = StepBefore(G, x, L(NumOps))
    BY <2>1, StepBeforeIsBefore DEF L
  <2> QED
    BY <1>8, <2>2 DEF L

-----------------------------------------------------------------------------
(* The result                                                              *)

LEMMA LeastIsLiveIn ==
  ASSUME IInv, LeastSolution, Analysed
  PROVE  liveIn = LiveIn(graph) /\ liveOut = LiveOut(graph)
<1>1. /\ IsGraph(graph)
      /\ liveIn \in [Op -> SUBSET Local]
      /\ liveOut \in [Op -> SUBSET Local]
      /\ NumOps \in Nat
  BY LivenessAssumption DEF IInv, LivenessTypeOK
<1>2. PICK w : IsWithin(graph, w, NumOps) /\ LiveIn(graph) = w[NumOps]
  BY <1>1, LiveInIsWithin
<1>3. \A k \in 0..NumOps : w[k] \in [Op -> SUBSET Local]
  BY <1>2 DEF IsWithin
<1>4. w[NumOps] \in [Op -> SUBSET Local]
  BY <1>1, <1>3
<1>5. \A n \in Op : liveIn[n] \subseteq w[NumOps][n]
  <2>1. ASSUME NEW n \in Op
        PROVE  InFrom(graph, OutOf(graph, w[NumOps], n), n) \subseteq w[NumOps][n]
    <3>1. Before(graph, w[NumOps])[n] = InFrom(graph, OutOf(graph, w[NumOps], n), n)
      BY <1>1, <1>4, BeforeTypes
    <3> QED
      BY <1>1, <1>2, <3>1, AllAreFound
  <2>2. Sufficient(w[NumOps])
    BY <2>1 DEF Sufficient
  <2> QED
    BY <1>4, <2>2 DEF IInv, NeverTooMuch
<1>6. \A n \in Op : /\ liveOut[n] = OutOf(graph, liveIn, n)
                   /\ liveIn[n] = InFrom(graph, liveOut[n], n)
  BY DEF LeastSolution
<1>7. \A n \in Op : w[NumOps][n] \subseteq liveIn[n]
  <2> DEFINE S == {k \in Nat : k <= NumOps => \A n \in Op : w[k][n] \subseteq liveIn[n]}
  <2>1. 0 \in S
    BY <1>2 DEF IsWithin
  <2>2. ASSUME NEW k \in Nat, k \in S PROVE k + 1 \in S
    <3> SUFFICES ASSUME k + 1 <= NumOps, NEW n \in Op
                 PROVE  w[k + 1][n] \subseteq liveIn[n]
      OBVIOUS
    <3>1. k \in 0..NumOps /\ k + 1 \in 1..NumOps /\ (k + 1) - 1 = k /\ k <= NumOps
      BY <1>1
    <3>2. w[k + 1] = Before(graph, w[k])
      BY <1>2, <3>1 DEF IsWithin
    <3>3. w[k + 1][n] = InFrom(graph, OutOf(graph, w[k], n), n)
      BY <1>1, <1>3, <3>1, <3>2, BeforeTypes
    <3>4. \A s \in Op : w[k][s] \subseteq liveIn[s]
      BY <2>2, <3>1
    <3>5. w[k] \in [Op -> SUBSET Local]
      BY <1>3, <3>1
    <3>6. w[k + 1][n] \subseteq InFrom(graph, OutOf(graph, liveIn, n), n)
      BY <1>1, <3>3, <3>4, <3>5, Monotone
    <3> QED
      BY <1>6, <3>6
  <2> HIDE DEF S
  <2>3. NumOps \in S
    BY <1>1, <2>1, <2>2, SetInduction
  <2> QED
    BY <1>1, <2>3 DEF S
<1>8. liveIn = LiveIn(graph)
  <2>1. \A n \in Op : liveIn[n] = w[NumOps][n]
    BY <1>5, <1>7
  <2> QED
    BY <1>1, <1>2, <1>4, <2>1
<1>9. liveOut = LiveOut(graph)
  <2>1. Nodes(graph) = Op
    BY <1>1 DEF IsGraph, Nodes
  <2>2. LiveOut(graph) = [n \in Op |-> OutOf(graph, liveIn, n)]
    BY <1>8, <2>1 DEF LiveOut
  <2> QED
    BY <1>1, <1>6, <2>2
<1> QED
  BY <1>8, <1>9

(* When the analysis stops, a local is live exactly where control may      *)
(* reach a use of it before a definition: the paths of LiveIn, however     *)
(* long, are all found, and nothing is live that no path needs.            *)
THEOREM LiveExactlyOnPaths == Spec => []LiveOnSomePath
<1>1. IInv /\ LeastSolution => LiveOnSomePath
  BY LeastIsLiveIn DEF LiveOnSomePath
<1>2. Spec => []IInv
  BY InitInv, StepInv, PTL DEF Spec
<1> QED
  BY AnalysisIsLeast, <1>1, <1>2, PTL
=============================================================================
