------------------------- MODULE ParallelCopy_proofs -------------------------
(***************************************************************************)
(* Proofs for ParallelCopy: the copies of every assignment, of any number  *)
(* of pairs, have the effect of the assignment.                            *)
(***************************************************************************)
EXTENDS ParallelCopy, FiniteSetTheorems, SequenceTheorems, TLAPS

Waiting == Range(toDo)
Free == Range(ready)

-----------------------------------------------------------------------------
(* The inductive invariant                                                 *)

(* pred holds the last source of each target among the pairs read so far,  *)
(* and to_do is a list without repetition.                                 *)
PairsTaken == IF pc = "dict" THEN next ELSE Len(requested)

LastSources ==
  /\ Targets = {requested[i][1] : i \in 1..PairsTaken}
  /\ \A b \in Targets : \E i \in 1..PairsTaken :
       /\ requested[i] = <<b, pred[b]>>
       /\ \A j \in 1..PairsTaken : requested[j][1] = b => j <= i

ListsAreSets ==
  /\ IsInjective(toDo)
  /\ IsInjective(ready)
  /\ Len(toDo) <= PairsTaken

(* Until the first copy.                                                   *)
Unchanged == \A x \in Value : memory[x] = before[x]

BeforeCopies ==
  /\ pc = "dict" => Unchanged /\ Waiting = Targets /\ ready = <<>>
  /\ pc = "ready" =>
       /\ Unchanged
       /\ Waiting = Targets
       /\ next <= Len(toDo)
       /\ Free = {toDo[i] : i \in 1..next} \ Sources
       /\ \A x \in Value : loc[x] = IF x \in Sources THEN x ELSE None

(* A source is in its place, in a temporary of its own or in one of its    *)
(* targets, and no two are in the same place.                              *)
Located ==
  /\ \A a \in Sources :
       \/ loc[a] = a
       \/ loc[a] \in used
       \/ loc[a] \in Targets /\ pred[loc[a]] = a
  /\ \A a1, a2 \in Sources : loc[a1] = loc[a2] => a1 = a2

(* What ready holds is not the place of any source.                        *)
FreeIsUnused == \A a \in Sources : loc[a] \notin Free

(* A source that waits for its own copy has not been moved, and neither    *)
(* have the copies from it been made.                                      *)
WaitingIsKept ==
  \A a \in Sources \cap Waiting :
    loc[a] = a /\ \A b \in Targets : pred[b] = a => b \in Free \cup Waiting

(* A target that waits and cannot be overwritten yet is itself a source,   *)
(* or has its value.                                                       *)
WaitingIsUsed ==
  \A b \in Waiting : b \in Free \/ loc[pred[b]] = b \/ b \in Sources

(* A target that neither waits nor is free has its value; nothing else     *)
(* changes.                                                                *)
OthersDone ==
  /\ \A b \in Targets \ (Free \cup Waiting) : memory[b] = before[pred[b]]
  /\ \A x \in Value \ Targets : memory[x] = before[x]

Copying ==
  pc \in {"copy", "done"} =>
    /\ Located
    /\ FreeIsUnused
    /\ WaitingIsKept
    /\ WaitingIsUsed
    /\ OthersDone

InductiveCopy ==
  /\ TypeOK
  /\ LastSources
  /\ ListsAreSets
  /\ BeforeCopies
  /\ SourcesKept
  /\ Copying
  /\ pc = "done" => toDo = <<>> /\ ready = <<>>

-----------------------------------------------------------------------------
(* The lists                                                               *)

(* pop takes an element out of a list without repetition.                  *)
LEMMA PopProperties ==
  ASSUME NEW S, NEW s \in Seq(S), s # <<>>, IsInjective(s)
  PROVE  /\ Last(s) \in S
         /\ Last(s) \in Range(s)
         /\ Front(s) \in Seq(S)
         /\ IsInjective(Front(s))
         /\ Range(Front(s)) = Range(s) \ {Last(s)}
         /\ Len(Front(s)) = Len(s) - 1
<1>1. /\ Len(s) \in Nat \ {0}
      /\ DOMAIN s = 1..Len(s)
      /\ \A i \in 1..Len(s) : s[i] \in S
  BY EmptySeq, LenProperties
<1>2. Last(s) = s[Len(s)]
  BY DEF Last
<1>3. /\ Front(s) \in Seq(S)
      /\ Len(Front(s)) = Len(s) - 1
      /\ \A i \in 1..Len(s) - 1 : Front(s)[i] = s[i]
  BY <1>1, SubSeqProperties DEF Front
<1>4. DOMAIN Front(s) = 1..Len(s) - 1
  BY <1>3, LenProperties
<1>5. \A i \in 1..Len(s), j \in 1..Len(s) : s[i] = s[j] => i = j
  BY <1>1 DEF IsInjective
<1>6. IsInjective(Front(s))
  BY <1>1, <1>3, <1>4, <1>5 DEF IsInjective
<1>7. Range(Front(s)) = Range(s) \ {Last(s)}
  <2>1. Range(Front(s)) = {s[i] : i \in 1..Len(s) - 1}
    BY <1>3, <1>4 DEF Range
  <2>2. Range(s) = {s[i] : i \in 1..Len(s)}
    BY <1>1 DEF Range
  <2> QED
    BY <2>1, <2>2, <1>1, <1>2, <1>5
<1>8. Last(s) \in S /\ Last(s) \in Range(s)
  BY <1>1, <1>2 DEF Range
<1> QED
  BY <1>3, <1>6, <1>7, <1>8

(* append of what the list does not hold.                                  *)
LEMMA PushProperties ==
  ASSUME NEW S, NEW s \in Seq(S), IsInjective(s), NEW e \in S, e \notin Range(s)
  PROVE  /\ Append(s, e) \in Seq(S)
         /\ IsInjective(Append(s, e))
         /\ Range(Append(s, e)) = Range(s) \cup {e}
         /\ Len(Append(s, e)) = Len(s) + 1
<1>1. Len(s) \in Nat /\ DOMAIN s = 1..Len(s)
  BY LenProperties
<1> DEFINE t == Append(s, e)
<1>2. /\ t \in Seq(S)
      /\ Len(t) = Len(s) + 1
      /\ \A i \in 1..Len(s) : t[i] = s[i]
      /\ t[Len(s) + 1] = e
  BY AppendProperties
<1>3. DOMAIN t = 1..Len(s) + 1
  BY <1>2, LenProperties
<1> HIDE DEF t
<1>4. \A i \in 1..Len(s) : s[i] # e
  BY <1>1 DEF Range
<1>5. IsInjective(t)
  BY <1>1, <1>2, <1>3, <1>4 DEF IsInjective
<1>6. Range(t) = Range(s) \cup {e}
  <2>1. Range(t) = {t[i] : i \in 1..Len(s) + 1}
    BY <1>3 DEF Range
  <2>2. Range(s) = {s[i] : i \in 1..Len(s)}
    BY <1>1 DEF Range
  <2>3. ASSUME NEW i \in 1..Len(s) + 1 PROVE t[i] \in Range(s) \cup {e}
    BY <1>1, <1>2, <2>2
  <2>4. ASSUME NEW i \in 1..Len(s) PROVE s[i] \in Range(t)
    BY <1>1, <1>2, <2>1
  <2>5. e \in Range(t)
    BY <1>1, <1>2, <2>1
  <2> QED
    BY <2>1, <2>2, <2>3, <2>4, <2>5
<1> QED
  BY <1>2, <1>5, <1>6 DEF t

(* list.remove takes out its argument and nothing else.                    *)
LEMMA WithoutProperties ==
  ASSUME NEW S, NEW s \in Seq(S), IsInjective(s), NEW e
  PROVE  /\ Without(s, e) \in Seq(S)
         /\ IsInjective(Without(s, e))
         /\ Range(Without(s, e)) = Range(s) \ {e}
         /\ Len(Without(s, e)) <= Len(s)
<1>1. /\ Len(s) \in Nat
      /\ DOMAIN s = 1..Len(s)
      /\ \A i \in 1..Len(s) : s[i] \in S
  BY LenProperties
<1>2. CASE e \notin Range(s)
  BY <1>1, <1>2 DEF Without
<1>3. CASE e \in Range(s)
  <2> DEFINE k == CHOOSE i \in DOMAIN s : s[i] = e
  <2>1. k \in 1..Len(s) /\ s[k] = e
    BY <1>1, <1>3 DEF Range
  <2>2. Without(s, e) = RemoveAt(s, k)
    BY <1>3 DEF Without
  <2> HIDE DEF k
  <2> DEFINE u == SubSeq(s, 1, k - 1)
             v == SubSeq(s, k + 1, Len(s))
             t == u \o v
  <2>3. /\ u \in Seq(S)
        /\ Len(u) = k - 1
        /\ \A i \in 1..k - 1 : u[i] = s[i]
    BY <1>1, <2>1, SubSeqProperties
  <2>4. /\ v \in Seq(S)
        /\ Len(v) = Len(s) - k
        /\ \A i \in 1..Len(s) - k : v[i] = s[k + i]
    <3>1. \A i \in k + 1..Len(s) : s[i] \in S
      BY <1>1, <2>1
    <3>2. /\ v \in Seq(S)
          /\ Len(v) = IF k + 1 <= Len(s) THEN Len(s) - (k + 1) + 1 ELSE 0
          /\ \A i \in 1..Len(s) - (k + 1) + 1 : v[i] = s[k + 1 + i - 1]
      BY <1>1, <2>1, <3>1, SubSeqProperties
    <3> HIDE DEF v
    <3>3. Len(v) = Len(s) - k /\ Len(s) - (k + 1) + 1 = Len(s) - k
      <4>1. Len(s) - (k + 1) + 1 = Len(s) - k
        BY <1>1, <2>1
      <4>2. CASE k = Len(s)
        BY <1>1, <3>2, <4>2
      <4>3. CASE k + 1 <= Len(s)
        BY <3>2, <4>1, <4>3
      <4>4. k \in Int /\ Len(s) \in Int /\ k <= Len(s)
        BY <1>1, <2>1
      <4>5. k = Len(s) \/ k + 1 <= Len(s)
        BY <4>4
      <4> QED
        BY <4>1, <4>2, <4>3, <4>5
    <3>4. ASSUME NEW i \in 1..Len(s) - k PROVE v[i] = s[k + i]
      <4>1. k + 1 + i - 1 = k + i
        BY <2>1
      <4> QED
        BY <3>2, <3>3, <4>1
    <3> QED
      BY <3>2, <3>3, <3>4
  <2> HIDE DEF u, v
  <2>5. /\ t \in Seq(S)
        /\ Len(t) = Len(u) + Len(v)
        /\ \A i \in 1..Len(u) + Len(v) :
             t[i] = IF i <= Len(u) THEN u[i] ELSE v[i - Len(u)]
    BY <2>3, <2>4, ConcatProperties
  <2>6. DOMAIN t = 1..Len(t)
    BY <2>5, LenProperties
  <2>7. Without(s, e) = t
    BY <2>2 DEF RemoveAt, u, v
  <2> HIDE DEF t
  <2>8. /\ Len(t) = Len(s) - 1
        /\ \A i \in 1..Len(s) - 1 : t[i] = IF i < k THEN s[i] ELSE s[i + 1]
    <3>1. Len(u) + Len(v) = Len(s) - 1
      BY <1>1, <2>1, <2>3, <2>4
    <3>2. ASSUME NEW i \in 1..Len(s) - 1, i < k PROVE t[i] = s[i]
      BY <1>1, <2>1, <2>3, <2>5, <3>1, <3>2
    <3>3. ASSUME NEW i \in 1..Len(s) - 1, ~(i < k) PROVE t[i] = s[i + 1]
      <4>1. /\ ~(i <= k - 1)
            /\ i - (k - 1) \in 1..Len(s) - k
            /\ k + (i - (k - 1)) = i + 1
        BY <1>1, <2>1, <3>3
      <4> QED
        BY <2>3, <2>4, <2>5, <3>1, <4>1
    <3> QED
      BY <2>5, <3>1, <3>2, <3>3
  <2>9. DOMAIN t = 1..Len(s) - 1
    BY <2>6, <2>8
  <2>10. \A i \in 1..Len(s), j \in 1..Len(s) : s[i] = s[j] => i = j
    BY <1>1 DEF IsInjective
  <2>11. IsInjective(t)
    <3> SUFFICES ASSUME NEW i \in 1..Len(s) - 1, NEW j \in 1..Len(s) - 1,
                        t[i] = t[j]
                 PROVE  i = j
      BY <2>9 DEF IsInjective
    <3>1. s[IF i < k THEN i ELSE i + 1] = s[IF j < k THEN j ELSE j + 1]
      BY <2>8
    <3>2. /\ (IF i < k THEN i ELSE i + 1) \in 1..Len(s)
          /\ (IF j < k THEN j ELSE j + 1) \in 1..Len(s)
      BY <1>1, <2>1
    <3>3. (IF i < k THEN i ELSE i + 1) = (IF j < k THEN j ELSE j + 1)
      BY <2>10, <3>1, <3>2
    <3> QED
      BY <1>1, <2>1, <3>3
  <2>12. Range(t) = Range(s) \ {e}
    <3>1. Range(t) = {t[i] : i \in 1..Len(s) - 1}
      BY <2>9 DEF Range
    <3>2. Range(s) = {s[i] : i \in 1..Len(s)}
      BY <1>1 DEF Range
    <3>3. ASSUME NEW i \in 1..Len(s) - 1 PROVE t[i] \in Range(s) \ {e}
      BY <1>1, <2>1, <2>8, <2>10, <3>2
    <3>4. ASSUME NEW i \in 1..Len(s), s[i] # e PROVE s[i] \in Range(t)
      <4>1. CASE i < k
        BY <1>1, <2>1, <2>8, <3>1, <4>1
      <4>2. CASE i > k
        <5>1. i - 1 \in 1..Len(s) - 1 /\ ~(i - 1 < k) /\ i - 1 + 1 = i
          BY <1>1, <2>1, <4>2
        <5>2. t[i - 1] = s[i]
          BY <2>8, <5>1
        <5> QED
          BY <3>1, <5>1, <5>2
      <4> QED
        BY <1>1, <2>1, <3>4, <4>1, <4>2
    <3> QED
      BY <3>1, <3>2, <3>3, <3>4
  <2> QED
    BY <1>1, <2>5, <2>7, <2>8, <2>11, <2>12
<1> QED
  BY <1>2, <1>3

(* The empty list.                                                         *)
LEMMA EmptyProperties ==
  /\ \A S : <<>> \in Seq(S)
  /\ IsInjective(<<>>)
  /\ Range(<<>>) = {}
  /\ Len(<<>>) = 0
BY DEF IsInjective, Range

LEMMA NonEmptyRange ==
  ASSUME NEW S, NEW s \in Seq(S)
  PROVE  Range(s) = {} <=> s = <<>>
<1>1. Len(s) \in Nat /\ DOMAIN s = 1..Len(s)
  BY LenProperties
<1>2. CASE s = <<>>
  BY <1>2, EmptyProperties
<1>3. CASE s # <<>>
  <2>1. 1 \in 1..Len(s)
    BY <1>1, <1>3, EmptySeq
  <2> QED
    BY <1>1, <1>3, <2>1 DEF Range
<1> QED
  BY <1>2, <1>3

(* A pair of the assignment.                                               *)
LEMMA RequestPairs ==
  ASSUME NEW r, IsRequest(r)
  PROVE  /\ Len(r) \in Nat \ {0}
         /\ \A i \in 1..Len(r) : r[i] = <<r[i][1], r[i][2]>>
         /\ \A i \in 1..Len(r) : r[i][1] \in Target /\ r[i][2] \in Value
<1>1. PICK n \in 1..MaxPairs : r \in [1..n -> Target \X Value]
  BY DEF IsRequest, IsRequestUpTo
<1>2. n \in Nat \ {0}
  BY CopyAssumption
<1>3. Len(r) = n
  BY <1>1, <1>2
<1> QED
  BY <1>1, <1>2, <1>3

-----------------------------------------------------------------------------
(* What every step uses                                                    *)

LEMMA KindsOfPlaces ==
  ASSUME TypeOK
  PROVE  /\ Targets \subseteq Target
         /\ Target \subseteq Value
         /\ Sources \subseteq Value
         /\ \A b \in Targets : pred[b] \in Sources
         /\ used \subseteq Temp
         /\ Temp \cap Value = {}
         /\ None \notin Value \cup Temp
         /\ Place = Value \cup Temp
BY CopyAssumption DEF TypeOK, Sources, Place

(* Once the pairs have been read the targets and their sources stay.       *)
LEMMA PairsStay ==
  ASSUME InductiveCopy, UNCHANGED <<requested, pred>>,
         pc # "dict", pc' # "dict"
  PROVE  /\ Targets' = Targets
         /\ Sources' = Sources
         /\ PairsTaken = Len(requested)
         /\ PairsTaken' = Len(requested)
         /\ LastSources'
<1>1. Targets' = Targets /\ Sources' = Sources
  BY DEF Targets, Sources
<1>2. PairsTaken = Len(requested) /\ PairsTaken' = Len(requested)
  BY DEF PairsTaken
<1>3. LastSources'
  BY <1>1, <1>2 DEF InductiveCopy, LastSources
<1> QED
  BY <1>1, <1>2, <1>3

LEMMA CopyInit == Init => InductiveCopy
<1> SUFFICES ASSUME Init PROVE InductiveCopy
  OBVIOUS
<1> USE DEF Init
<1>1. Targets = {} /\ Sources = {}
  BY DEF Targets, Sources
<1>2. Len(requested) \in Nat
  BY RequestPairs
<1>3. TypeOK
  <2>1. memory \in [Place -> Value \cup {None}] /\ before \in [Value -> Value]
    BY DEF Place
  <2>2. toDo \in Seq(Targets) /\ ready \in Seq(Targets \cup Sources)
    BY EmptyProperties
  <2> QED
    BY <1>1, <1>2, <2>1, <2>2, CopyAssumption DEF TypeOK
<1>4. PairsTaken = 0
  BY DEF PairsTaken
<1>5. LastSources
  BY <1>1, <1>4 DEF LastSources
<1>6. ListsAreSets
  BY <1>4, EmptyProperties DEF ListsAreSets
<1>7. BeforeCopies
  BY <1>1, EmptyProperties DEF BeforeCopies, Unchanged, Waiting, Place
<1> QED
  BY <1>3, <1>5, <1>6, <1>7 DEF InductiveCopy, SourcesKept, Copying

-----------------------------------------------------------------------------
(* Before the copies                                                       *)

LEMMA ReadPairOK == InductiveCopy /\ ReadPair => InductiveCopy'
<1> SUFFICES ASSUME InductiveCopy, ReadPair PROVE InductiveCopy'
  OBVIOUS
<1> DEFINE b == requested[next + 1][1]
           a == requested[next + 1][2]
<1>1. /\ TypeOK
      /\ pc = "dict"
      /\ next < Len(requested)
      /\ next \in Nat
      /\ Len(requested) \in Nat
      /\ next + 1 \in 1..Len(requested)
  <2>1. IsRequest(requested) /\ next \in 0..Len(requested)
    BY DEF InductiveCopy, TypeOK
  <2>2. Len(requested) \in Nat
    BY <2>1, RequestPairs
  <2> QED
    BY <2>1, <2>2 DEF ReadPair, InductiveCopy
<1>2. /\ b \in Target
      /\ a \in Value
      /\ requested[next + 1] = <<b, a>>
  BY <1>1, RequestPairs DEF TypeOK
<1>3. /\ pred' = [d \in Targets \cup {b} |-> IF d = b THEN a ELSE pred[d]]
      /\ toDo' = IF b \in Targets THEN toDo ELSE Append(toDo, b)
      /\ next' = next + 1
      /\ UNCHANGED <<requested, before, memory, pc, ready, loc, used, fresh,
                     count>>
  BY DEF ReadPair
<1> HIDE DEF a, b
<1>4. /\ Targets' = Targets \cup {b}
      /\ \A d \in Targets' : pred'[d] = IF d = b THEN a ELSE pred[d]
  BY <1>3 DEF Targets
<1>5. /\ toDo \in Seq(Targets)
      /\ toDo \in Seq(Targets')
      /\ IsInjective(toDo)
      /\ Waiting = Targets
      /\ Len(toDo) \in Nat
      /\ Len(toDo) <= next
  <2>1. toDo \in Seq(Targets) /\ IsInjective(toDo) /\ Len(toDo) <= next
    BY <1>1 DEF InductiveCopy, TypeOK, ListsAreSets, PairsTaken
  <2>2. toDo \in Seq(Targets')
    BY <2>1, <1>4, SeqMonotonic
  <2> QED
    BY <1>1, <2>1, <2>2, LenProperties DEF InductiveCopy, BeforeCopies
<1>6. /\ toDo' \in Seq(Targets')
      /\ IsInjective(toDo')
      /\ Waiting' = Targets'
      /\ Len(toDo') <= next + 1
  <2>1. CASE b \in Targets
    BY <1>1, <1>3, <1>4, <1>5, <2>1 DEF Waiting
  <2>2. CASE b \notin Targets
    <3>1. toDo' = Append(toDo, b) /\ b \in Targets' /\ b \notin Range(toDo)
      BY <1>3, <1>4, <1>5, <2>2 DEF Waiting
    <3> QED
      BY <1>1, <1>4, <1>5, <3>1, PushProperties DEF Waiting
  <2> QED
    BY <2>1, <2>2
<1>7. ready = <<>> /\ ready' = <<>> /\ Unchanged
  BY <1>1, <1>3 DEF InductiveCopy, BeforeCopies
<1>8. PairsTaken = next /\ PairsTaken' = next + 1
  BY <1>1, <1>3 DEF PairsTaken
<1>9. LastSources'
  <2>1. /\ Targets = {requested[i][1] : i \in 1..next}
        /\ \A d \in Targets : \E i \in 1..next :
             /\ requested[i] = <<d, pred[d]>>
             /\ \A j \in 1..next : requested[j][1] = d => j <= i
    BY <1>8 DEF InductiveCopy, LastSources
  <2>2. 1..next + 1 = 1..next \cup {next + 1}
    BY <1>1
  <2>3. requested[next + 1][1] = b
    BY DEF b
  <2>4. Targets' = {requested'[i][1] : i \in 1..next + 1}
    BY <1>3, <1>4, <2>1, <2>2, <2>3
  <2>5. ASSUME NEW d \in Targets'
        PROVE  \E i \in 1..next + 1 :
                 /\ requested'[i] = <<d, pred'[d]>>
                 /\ \A j \in 1..next + 1 : requested'[j][1] = d => j <= i
    <3>1. CASE d = b
      <4>1. requested'[next + 1] = <<d, pred'[d]>>
        BY <1>2, <1>3, <1>4, <3>1
      <4>2. \A j \in 1..next + 1 : j <= next + 1
        BY <1>1
      <4> QED
        BY <2>2, <4>1, <4>2
    <3>2. CASE d # b
      <4>1. PICK i \in 1..next :
              /\ requested[i] = <<d, pred[d]>>
              /\ \A j \in 1..next : requested[j][1] = d => j <= i
        BY <1>4, <2>1, <3>2
      <4>2. requested'[i] = <<d, pred'[d]>>
        BY <1>3, <1>4, <3>2, <4>1
      <4>3. \A j \in 1..next + 1 : requested'[j][1] = d => j <= i
        BY <1>3, <2>2, <2>3, <3>2, <4>1
      <4> QED
        BY <2>2, <4>2, <4>3
    <3> QED
      BY <3>1, <3>2
  <2> QED
    BY <1>8, <2>4, <2>5 DEF LastSources
<1>10. TypeOK'
  <2>1. Targets' \subseteq Target
    BY <1>1, <1>2, <1>4, KindsOfPlaces
  <2>2. Sources' \subseteq Value
    BY <1>1, <1>2, <1>4, KindsOfPlaces DEF Sources
  <2>3. ready' \in Seq(Targets' \cup Sources')
    BY <1>7, EmptyProperties
  <2>4. next' \in 0..Len(requested')
    BY <1>1, <1>3
  <2> QED
    BY <1>1, <1>3, <1>6, <2>1, <2>2, <2>3, <2>4 DEF TypeOK, Place, IsRequest, IsRequestUpTo
<1>11. ListsAreSets'
  BY <1>6, <1>7, <1>8, EmptyProperties DEF ListsAreSets
<1>12. BeforeCopies'
  BY <1>1, <1>3, <1>6, <1>7 DEF BeforeCopies, Unchanged
<1> QED
  BY <1>1, <1>3, <1>9, <1>10, <1>11, <1>12
     DEF InductiveCopy, SourcesKept, Copying

LEMMA PairsReadOK == InductiveCopy /\ PairsRead => InductiveCopy'
<1> SUFFICES ASSUME InductiveCopy, PairsRead PROVE InductiveCopy'
  OBVIOUS
<1>1. /\ TypeOK
      /\ pc = "dict"
      /\ pc' = "ready"
      /\ next = Len(requested)
      /\ next' = 0
      /\ loc' = [x \in Value |-> IF x \in Sources THEN x ELSE None]
      /\ UNCHANGED <<requested, before, memory, pred, toDo, ready, used,
                     fresh, count>>
  BY DEF InductiveCopy, PairsRead
<1>2. /\ Targets' = Targets
      /\ Sources' = Sources
      /\ Waiting' = Waiting
      /\ Free' = Free
      /\ PairsTaken = Len(requested)
      /\ PairsTaken' = Len(requested)
  BY <1>1 DEF Targets, Sources, Waiting, Free, PairsTaken
<1>3. /\ Unchanged
      /\ Waiting = Targets
      /\ ready = <<>>
      /\ Free = {}
  BY <1>1, EmptyProperties DEF InductiveCopy, BeforeCopies, Free
<1>4. toDo \in Seq(Targets) /\ Len(toDo) \in Nat
  BY <1>1, LenProperties DEF TypeOK
<1>5. TypeOK'
  <2>1. next' \in 0..Len(requested')
    BY <1>1, RequestPairs DEF TypeOK
  <2>2. loc' \in [Value -> Place \cup {None}]
    BY <1>1 DEF Place
  <2> QED
    BY <1>1, <1>2, <2>1, <2>2 DEF TypeOK, Place, IsRequest, IsRequestUpTo
<1>6. LastSources' /\ ListsAreSets'
  BY <1>1, <1>2 DEF InductiveCopy, LastSources, ListsAreSets
<1>7. BeforeCopies'
  <2>1. {toDo[i] : i \in 1..0} = {}
    OBVIOUS
  <2>2. Free' = {toDo'[i] : i \in 1..next'} \ Sources'
    BY <1>1, <1>2, <1>3, <2>1
  <2> QED
    BY <1>1, <1>2, <1>3, <1>4, <2>2 DEF BeforeCopies, Unchanged
<1> QED
  BY <1>1, <1>5, <1>6, <1>7 DEF InductiveCopy, SourcesKept, Copying

LEMMA FindReadyOK == InductiveCopy /\ FindReady => InductiveCopy'
<1> SUFFICES ASSUME InductiveCopy, FindReady PROVE InductiveCopy'
  OBVIOUS
<1> DEFINE b == toDo[next + 1]
<1>1. /\ TypeOK
      /\ pc = "ready"
      /\ pc' = "ready"
      /\ next < Len(toDo)
      /\ next' = next + 1
      /\ ready' = IF loc[b] = None THEN Append(ready, b) ELSE ready
      /\ UNCHANGED <<requested, before, memory, pred, toDo, loc, used, fresh,
                     count>>
  BY DEF InductiveCopy, FindReady, IsFree
<1>2. /\ Targets' = Targets
      /\ Sources' = Sources
      /\ PairsTaken = Len(requested)
      /\ PairsTaken' = Len(requested)
      /\ LastSources'
  BY <1>1, PairsStay
<1>3. /\ toDo \in Seq(Targets)
      /\ Len(toDo) \in Nat
      /\ DOMAIN toDo = 1..Len(toDo)
      /\ IsInjective(toDo)
      /\ ready \in Seq(Targets \cup Sources)
      /\ IsInjective(ready)
      /\ next \in Nat
      /\ next + 1 \in 1..Len(toDo)
      /\ Len(requested) \in Nat
      /\ Len(toDo) <= Len(requested)
  <2>1. toDo \in Seq(Targets) /\ Len(requested) \in Nat
    BY <1>1, RequestPairs DEF TypeOK
  <2>2. Len(toDo) \in Nat /\ DOMAIN toDo = 1..Len(toDo)
    BY <2>1, LenProperties
  <2>3. next \in 0..Len(requested)
    BY <1>1 DEF TypeOK
  <2>4. next \in Nat /\ next + 1 \in 1..Len(toDo)
    BY <1>1, <2>1, <2>2, <2>3
  <2>5. Len(toDo) <= Len(requested) /\ IsInjective(toDo) /\ IsInjective(ready)
    BY <1>2 DEF InductiveCopy, ListsAreSets
  <2> QED
    BY <1>1, <2>1, <2>2, <2>4, <2>5 DEF TypeOK
<1>4. b \in Targets /\ b \in Value /\ b # None
  BY <1>1, <1>3, KindsOfPlaces, ElementOfSeq
<1>5. /\ Unchanged
      /\ Waiting = Targets
      /\ Free = {toDo[i] : i \in 1..next} \ Sources
      /\ \A x \in Value : loc[x] = IF x \in Sources THEN x ELSE None
  BY <1>1 DEF InductiveCopy, BeforeCopies
<1>6. loc[b] = None <=> b \notin Sources
  BY <1>4, <1>5
<1>7. {toDo[i] : i \in 1..next + 1} = {toDo[i] : i \in 1..next} \cup {b}
  <2>1. 1..next + 1 = 1..next \cup {next + 1}
    BY <1>3
  <2> QED
    BY <2>1
<1>8. b \notin Free
  <2>1. \A i \in 1..next : i \in 1..Len(toDo) /\ i # next + 1
    BY <1>1, <1>3
  <2>2. \A i \in 1..next : toDo[i] # b
    BY <2>1, <1>3 DEF IsInjective
  <2> QED
    BY <1>5, <2>2
<1> HIDE DEF b
<1>9. /\ ready' \in Seq(Targets \cup Sources)
      /\ IsInjective(ready')
      /\ Free' = {toDo[i] : i \in 1..next + 1} \ Sources
  <2>1. CASE b \in Sources
    BY <1>1, <1>3, <1>5, <1>6, <1>7, <2>1 DEF Free
  <2>2. CASE b \notin Sources
    <3>1. ready' = Append(ready, b) /\ b \notin Range(ready)
      BY <1>1, <1>6, <1>8, <2>2 DEF Free
    <3>2. /\ ready' \in Seq(Targets \cup Sources)
          /\ IsInjective(ready')
          /\ Range(ready') = Range(ready) \cup {b}
      BY <1>3, <1>4, <3>1, PushProperties
    <3> QED
      BY <1>5, <1>7, <2>2, <3>2 DEF Free
  <2> QED
    BY <2>1, <2>2
<1>10. TypeOK'
  <2>1. next' \in 0..Len(requested')
    BY <1>1, <1>3
  <2> QED
    BY <1>1, <1>2, <1>9, <2>1 DEF TypeOK, Place, IsRequest, IsRequestUpTo
<1>11. ListsAreSets'
  BY <1>1, <1>2, <1>3, <1>9 DEF ListsAreSets
<1>12. BeforeCopies'
  <2>1. Waiting' = Waiting
    BY <1>1 DEF Waiting
  <2>2. next' <= Len(toDo')
    BY <1>1, <1>3
  <2> QED
    BY <1>1, <1>2, <1>5, <1>9, <2>1, <2>2 DEF BeforeCopies, Unchanged
<1> QED
  BY <1>1, <1>2, <1>10, <1>11, <1>12 DEF InductiveCopy, SourcesKept, Copying

LEMMA ReadyFoundOK == InductiveCopy /\ ReadyFound => InductiveCopy'
<1> SUFFICES ASSUME InductiveCopy, ReadyFound PROVE InductiveCopy'
  OBVIOUS
<1>1. /\ TypeOK
      /\ pc = "ready"
      /\ pc' = "copy"
      /\ next = Len(toDo)
      /\ UNCHANGED <<requested, before, memory, next, pred, toDo, ready, loc,
                     used, fresh, count>>
  BY DEF InductiveCopy, ReadyFound
<1>2. /\ Targets' = Targets
      /\ Sources' = Sources
      /\ PairsTaken = Len(requested)
      /\ PairsTaken' = Len(requested)
      /\ LastSources'
      /\ Waiting' = Waiting
      /\ Free' = Free
  BY <1>1, PairsStay DEF Waiting, Free
<1>3. /\ \A x \in Value : memory[x] = before[x]
      /\ Waiting = Targets
      /\ Free = Targets \ Sources
      /\ \A x \in Value : loc[x] = IF x \in Sources THEN x ELSE None
  <2>1. toDo \in Seq(Targets)
    BY <1>1 DEF TypeOK
  <2>2. Waiting = {toDo[i] : i \in 1..Len(toDo)}
    BY <2>1, RangeEquality DEF Waiting
  <2> QED
    BY <1>1, <2>2 DEF InductiveCopy, BeforeCopies, Unchanged
<1>4. TypeOK' /\ ListsAreSets'
  BY <1>1, <1>2 DEF InductiveCopy, TypeOK, Place, IsRequest, IsRequestUpTo, ListsAreSets
<1>5. BeforeCopies'
  BY <1>1 DEF BeforeCopies
<1>6. SourcesKept'
  BY <1>1, <1>2, <1>3, KindsOfPlaces DEF SourcesKept
<1>7. Copying'
  <2>1. Located' /\ FreeIsUnused'
    BY <1>1, <1>2, <1>3, KindsOfPlaces DEF Located, FreeIsUnused
  <2>2. WaitingIsKept' /\ WaitingIsUsed'
    BY <1>1, <1>2, <1>3, KindsOfPlaces DEF WaitingIsKept, WaitingIsUsed
  <2>3. OthersDone'
    BY <1>1, <1>2, <1>3 DEF OthersDone
  <2> QED
    BY <2>1, <2>2, <2>3 DEF Copying
<1> QED
  BY <1>1, <1>2, <1>4, <1>5, <1>6, <1>7 DEF InductiveCopy

-----------------------------------------------------------------------------
(* The copies                                                              *)

(* What is known while copies are made.                                    *)
LEMMA WhileCopying ==
  ASSUME InductiveCopy, pc = "copy"
  PROVE  /\ TypeOK
         /\ toDo \in Seq(Targets)
         /\ IsInjective(toDo)
         /\ Waiting \subseteq Targets
         /\ Len(toDo) \in Nat
         /\ Len(toDo) <= Len(requested)
         /\ Len(requested) \in Nat
         /\ ready \in Seq(Targets \cup Sources)
         /\ IsInjective(ready)
         /\ Free \subseteq Targets \cup Sources
         /\ SourcesKept
         /\ Located
         /\ FreeIsUnused
         /\ WaitingIsKept
         /\ WaitingIsUsed
         /\ OthersDone
         /\ \A a \in Sources : loc[a] # None /\ memory[loc[a]] = before[a]
<1>1. /\ TypeOK
      /\ toDo \in Seq(Targets)
      /\ ready \in Seq(Targets \cup Sources)
      /\ Len(requested) \in Nat
  BY RequestPairs DEF InductiveCopy, TypeOK
<1>2. /\ Waiting \subseteq Targets
      /\ Len(toDo) \in Nat
      /\ Free \subseteq Targets \cup Sources
  BY <1>1, RangeOfSeq, LenProperties DEF Waiting, Free
<1>3. IsInjective(toDo) /\ IsInjective(ready) /\ Len(toDo) <= Len(requested)
  BY DEF InductiveCopy, ListsAreSets, PairsTaken
<1>4. /\ SourcesKept
      /\ Located
      /\ FreeIsUnused
      /\ WaitingIsKept
      /\ WaitingIsUsed
      /\ OthersDone
  BY DEF InductiveCopy, Copying
<1>5. \A a \in Sources : loc[a] # None /\ memory[loc[a]] = before[a]
  BY <1>4 DEF SourcesKept
<1> QED
  BY <1>1, <1>2, <1>3, <1>4, <1>5

LEMMA SkipReadyOK == InductiveCopy /\ SkipReady => InductiveCopy'
<1> SUFFICES ASSUME InductiveCopy, SkipReady PROVE InductiveCopy'
  OBVIOUS
<1>1. /\ pc = "copy"
      /\ pc' = "copy"
      /\ ready # <<>>
      /\ Last(ready) \notin Targets
      /\ ready' = Front(ready)
      /\ UNCHANGED <<requested, before, memory, next, pred, toDo, loc, used,
                     fresh, count>>
  BY DEF SkipReady
<1>2. /\ Targets' = Targets
      /\ Sources' = Sources
      /\ PairsTaken' = Len(requested)
      /\ LastSources'
      /\ Waiting' = Waiting
  BY <1>1, PairsStay DEF Waiting
<1>3. /\ ready' \in Seq(Targets \cup Sources)
      /\ IsInjective(ready')
      /\ Free' = Free \ {Last(ready)}
  BY <1>1, WhileCopying, PopProperties DEF Free
<1>4. TypeOK' /\ ListsAreSets' /\ BeforeCopies'
  BY <1>1, <1>2, <1>3, WhileCopying
     DEF TypeOK, Place, IsRequest, IsRequestUpTo, ListsAreSets, BeforeCopies
<1>5. SourcesKept'
  BY <1>1, <1>2, WhileCopying DEF SourcesKept
<1>6. Copying'
  <2>1. Located' /\ FreeIsUnused'
    BY <1>1, <1>2, <1>3, WhileCopying DEF Located, FreeIsUnused
  <2>2. WaitingIsKept' /\ WaitingIsUsed'
    BY <1>1, <1>2, <1>3, WhileCopying DEF WaitingIsKept, WaitingIsUsed
  <2>3. OthersDone'
    BY <1>1, <1>2, <1>3, WhileCopying DEF OthersDone
  <2> QED
    BY <2>1, <2>2, <2>3 DEF Copying
<1> QED
  BY <1>1, <1>2, <1>4, <1>5, <1>6 DEF InductiveCopy

(* The place of a source that is still its own holder is freed by a copy;  *)
(* otherwise the place is a target, which then has its value.              *)
LEMMA CopyReadyOK == InductiveCopy /\ CopyReady => InductiveCopy'
<1> SUFFICES ASSUME InductiveCopy, CopyReady PROVE InductiveCopy'
  OBVIOUS
<1> DEFINE b == Last(ready)
           a == pred[b]
           c == loc[a]
<1>1. /\ pc = "copy"
      /\ pc' = "copy"
      /\ ready # <<>>
      /\ b \in Targets
      /\ c # None
      /\ memory' = [memory EXCEPT ![b] = memory[c]]
      /\ toDo' = Without(toDo, c)
      /\ loc' = [loc EXCEPT ![a] = b]
      /\ ready' = IF a = c THEN Append(Front(ready), a) ELSE Front(ready)
      /\ UNCHANGED <<requested, before, next, pred, used, fresh, count>>
  BY DEF CopyReady, Emit, Holder, Moved
<1>2. /\ Targets' = Targets
      /\ Sources' = Sources
      /\ PairsTaken' = Len(requested)
      /\ LastSources'
  BY <1>1, PairsStay
<1>3. /\ b \in Value
      /\ a \in Sources
      /\ a \in Value
      /\ b \in Free
      /\ c \in Place
      /\ memory[c] = before[a]
      /\ memory[c] \in Value \cup {None}
  <2>1. b \in Free
    BY <1>1, WhileCopying, PopProperties DEF Free
  <2>2. b \in Value /\ a \in Sources /\ a \in Value
    BY <1>1, WhileCopying, KindsOfPlaces
  <2>3. c \in Place
    BY <1>1, <2>2, WhileCopying DEF TypeOK
  <2>4. memory[c] = before[a]
    BY <1>1, <2>2, WhileCopying
  <2> QED
    BY <1>1, <2>1, <2>2, <2>3, <2>4, WhileCopying DEF TypeOK
<1>4. \A x \in Sources : loc[x] # b
  BY <1>1, <1>3, WhileCopying DEF FreeIsUnused
<1>5. /\ toDo' \in Seq(Targets)
      /\ IsInjective(toDo')
      /\ Waiting' = Waiting \ {c}
      /\ Len(toDo') <= Len(toDo)
      /\ Len(toDo') \in Nat
  <2>1. /\ toDo' \in Seq(Targets)
        /\ IsInjective(toDo')
        /\ Range(toDo') = Range(toDo) \ {c}
        /\ Len(toDo') <= Len(toDo)
    BY <1>1, WhileCopying, WithoutProperties
  <2> QED
    BY <2>1, LenProperties DEF Waiting
<1>6. /\ ready' \in Seq(Targets \cup Sources)
      /\ IsInjective(ready')
      /\ Free' = (Free \ {b}) \cup (IF a = c THEN {a} ELSE {})
  <2>1. /\ Front(ready) \in Seq(Targets \cup Sources)
        /\ IsInjective(Front(ready))
        /\ Range(Front(ready)) = Range(ready) \ {b}
    BY <1>1, WhileCopying, PopProperties
  <2>2. CASE a = c
    <3>1. a \notin Range(Front(ready))
      BY <1>1, <1>3, <2>1, <2>2, WhileCopying DEF FreeIsUnused, Free
    <3>2. ready' = Append(Front(ready), a)
      BY <1>1, <2>2
    <3>3. /\ ready' \in Seq(Targets \cup Sources)
          /\ IsInjective(ready')
          /\ Range(ready') = Range(Front(ready)) \cup {a}
      BY <1>3, <2>1, <3>1, <3>2, PushProperties
    <3> QED
      BY <2>1, <2>2, <3>3 DEF Free
  <2>3. CASE a # c
    BY <1>1, <2>1, <2>3 DEF Free
  <2> QED
    BY <2>2, <2>3
<1>7. /\ loc' \in [Value -> Place \cup {None}]
      /\ loc'[a] = b
      /\ \A x \in Sources : x # a => loc'[x] = loc[x]
      /\ memory' \in [Place -> Value \cup {None}]
      /\ memory'[b] = before[a]
      /\ \A x \in Place : x # b => memory'[x] = memory[x]
  BY <1>1, <1>3, WhileCopying, KindsOfPlaces DEF TypeOK, Place
<1> HIDE DEF a, b, c
<1>8. /\ a = pred[b]
      /\ c = loc[a]
      /\ \A x \in Sources : loc[x] \in Place
  BY WhileCopying, <1>1, KindsOfPlaces DEF a, c, TypeOK
<1>9. a = c \/ c \in used \/ (c \in Targets /\ pred[c] = a)
  BY <1>1, <1>3, <1>8, WhileCopying DEF Located
<1>10. TypeOK' /\ ListsAreSets' /\ BeforeCopies'
  <2>1. TypeOK'
    BY <1>1, <1>2, <1>5, <1>6, <1>7, WhileCopying DEF TypeOK, Place, IsRequest, IsRequestUpTo
  <2>2. Len(toDo') <= Len(requested')
    BY <1>1, <1>5, WhileCopying
  <2> QED
    BY <1>1, <1>2, <1>5, <1>6, <2>1, <2>2 DEF ListsAreSets, BeforeCopies
<1>11. SourcesKept'
  <2>1. b # None
    BY <1>3, KindsOfPlaces, WhileCopying, <1>1
  <2>2. ASSUME NEW x \in Sources PROVE loc'[x] # None /\ memory'[loc'[x]] = before[x]
    <3>1. CASE x = a
      BY <1>7, <2>1, <3>1
    <3>2. CASE x # a
      BY <1>1, <1>4, <1>7, <1>8, <3>2, WhileCopying
    <3> QED
      BY <3>1, <3>2
  <2> QED
    BY <1>1, <1>2, <2>2 DEF SourcesKept
<1>12. Located'
  <2>1. ASSUME NEW x \in Sources
        PROVE  \/ loc'[x] = x
               \/ loc'[x] \in used
               \/ loc'[x] \in Targets /\ pred[loc'[x]] = x
    BY <1>1, <1>7, <1>8, WhileCopying DEF Located
  <2>2. ASSUME NEW x \in Sources, NEW y \in Sources, loc'[x] = loc'[y]
        PROVE  x = y
    BY <1>1, <1>4, <1>7, <2>2, WhileCopying DEF Located
  <2> QED
    BY <1>1, <1>2, <2>1, <2>2 DEF Located
<1>13. FreeIsUnused'
  <2> SUFFICES ASSUME NEW x \in Sources PROVE loc'[x] \notin Free'
    BY <1>2 DEF FreeIsUnused
  <2>1. CASE x = a
    <3>1. b # c
      BY <1>3, <1>4, <1>8
    <3> QED
      BY <1>6, <1>7, <2>1, <3>1
  <2>2. CASE x # a
    <3>1. loc'[x] = loc[x] /\ loc[x] \notin Free
      BY <1>1, <1>7, <2>2, WhileCopying DEF FreeIsUnused
    <3>2. a = c => loc[x] # a
      BY <1>1, <1>3, <1>8, <2>2, WhileCopying DEF Located
    <3> QED
      BY <1>6, <3>1, <3>2
  <2> QED
    BY <2>1, <2>2
<1>14. WaitingIsKept'
  <2> SUFFICES ASSUME NEW x \in Sources \cap Waiting'
               PROVE  /\ loc'[x] = x
                      /\ \A d \in Targets :
                           pred[d] = x => d \in Free' \cup Waiting'
    BY <1>1, <1>2 DEF WaitingIsKept
  <2>1. /\ x \in Waiting
        /\ x # c
        /\ loc[x] = x
        /\ \A d \in Targets : pred[d] = x => d \in Free \cup Waiting
    BY <1>1, <1>5, WhileCopying DEF WaitingIsKept
  <2>2. x # a
    BY <1>8, <2>1
  <2>3. loc'[x] = x
    BY <1>7, <2>1, <2>2
  <2>4. ASSUME NEW d \in Targets, pred[d] = x PROVE d \in Free' \cup Waiting'
    <3>1. d # b
      BY <1>8, <2>2, <2>4
    <3>2. d = c => a = c
      <4>1. d = c => c \notin used
        BY <1>1, WhileCopying, KindsOfPlaces
      <4> QED
        BY <1>9, <2>2, <2>4, <4>1
    <3> QED
      BY <1>5, <1>6, <2>1, <2>4, <3>1, <3>2
  <2> QED
    BY <2>3, <2>4
<1>15. WaitingIsUsed'
  <2> SUFFICES ASSUME NEW d \in Waiting'
               PROVE  d \in Free' \/ loc'[pred[d]] = d \/ d \in Sources
    BY <1>1, <1>2 DEF WaitingIsUsed
  <2>1. /\ d \in Waiting
        /\ d # c
        /\ d \in Targets
        /\ pred[d] \in Sources
        /\ d \in Free \/ loc[pred[d]] = d \/ d \in Sources
    BY <1>1, <1>5, WhileCopying, KindsOfPlaces DEF WaitingIsUsed
  <2>2. CASE d = b
    BY <1>7, <1>8, <2>2
  <2>3. CASE d # b
    BY <1>6, <1>7, <1>8, <2>1, <2>3
  <2> QED
    BY <2>2, <2>3
<1>16. OthersDone'
  <2>1. ASSUME NEW d \in Targets \ (Free' \cup Waiting')
        PROVE  memory'[d] = before[pred[d]]
    <3>1. CASE d = b
      BY <1>7, <1>8, <3>1
    <3>2. CASE d # b
      <4>1. d \in Place /\ d \notin Temp
        BY <1>1, WhileCopying, KindsOfPlaces
      <4>2. memory'[d] = memory[d]
        BY <1>7, <3>2, <4>1
      <4>3. CASE d \in Waiting
        <5>1. d = c /\ a # c
          BY <1>5, <1>6, <2>1, <4>3
        <5>2. pred[d] = a
          BY <1>1, <1>9, <4>1, <5>1, WhileCopying, KindsOfPlaces
        <5> QED
          BY <1>3, <4>2, <5>1, <5>2, <1>8, <1>1, WhileCopying
      <4>4. CASE d \notin Waiting
        <5>1. d \notin Free
          BY <1>6, <2>1, <3>2
        <5> QED
          BY <1>1, <4>2, <4>4, <5>1, WhileCopying DEF OthersDone
      <4> QED
        BY <4>3, <4>4
    <3> QED
      BY <3>1, <3>2
  <2>2. ASSUME NEW x \in Value \ Targets PROVE memory'[x] = before[x]
    BY <1>1, <1>7, WhileCopying, KindsOfPlaces DEF OthersDone, b
  <2> QED
    BY <1>1, <1>2, <2>1, <2>2 DEF OthersDone
<1> QED
  BY <1>1, <1>2, <1>10, <1>11, <1>12, <1>13, <1>14, <1>15, <1>16
     DEF InductiveCopy, Copying

LEMMA SkipToDoOK == InductiveCopy /\ SkipToDo => InductiveCopy'
<1> SUFFICES ASSUME InductiveCopy, SkipToDo PROVE InductiveCopy'
  OBVIOUS
<1> DEFINE b == Last(toDo)
<1>1. /\ pc = "copy"
      /\ pc' = IF toDo' = <<>> THEN "done" ELSE "copy"
      /\ pc' \in {"copy", "done"}
      /\ ready = <<>>
      /\ ready' = <<>>
      /\ toDo # <<>>
      /\ b = loc[pred[b]]
      /\ toDo' = Front(toDo)
      /\ UNCHANGED <<requested, before, memory, next, pred, loc, used, fresh,
                     count>>
  BY DEF SkipToDo, Outer, Popped
<1>2. /\ Targets' = Targets
      /\ Sources' = Sources
      /\ PairsTaken' = Len(requested)
      /\ LastSources'
      /\ Free = {}
      /\ Free' = {}
  BY <1>1, PairsStay, EmptyProperties DEF Free
<1>3. /\ toDo' \in Seq(Targets)
      /\ IsInjective(toDo')
      /\ Waiting' = Waiting \ {b}
      /\ b \in Waiting
      /\ b \in Targets
      /\ pred[b] \in Sources
      /\ Len(toDo') <= Len(requested)
  <2>1. /\ toDo' \in Seq(Targets)
        /\ IsInjective(toDo')
        /\ Range(toDo') = Range(toDo) \ {b}
        /\ Len(toDo') = Len(toDo) - 1
        /\ b \in Targets
        /\ b \in Range(toDo)
    BY <1>1, WhileCopying, PopProperties
  <2>2. Len(toDo) \in Nat /\ Len(requested) \in Nat /\ Len(toDo) <= Len(requested)
    BY <1>1, WhileCopying
  <2>3. Len(toDo') <= Len(requested)
    BY <2>1, <2>2
  <2> QED
    BY <1>1, <2>1, <2>3, WhileCopying, KindsOfPlaces DEF Waiting
<1> HIDE DEF b
<1>4. TypeOK' /\ ListsAreSets' /\ BeforeCopies'
  <2>1. TypeOK'
    BY <1>1, <1>2, <1>3, WhileCopying, EmptyProperties
       DEF TypeOK, Place, IsRequest, IsRequestUpTo
  <2> QED
    BY <1>1, <1>2, <1>3, <2>1, EmptyProperties DEF ListsAreSets, BeforeCopies
<1>5. SourcesKept'
  BY <1>1, <1>2, WhileCopying DEF SourcesKept
<1>6. Located' /\ FreeIsUnused'
  BY <1>1, <1>2, WhileCopying DEF Located, FreeIsUnused
<1>7. WaitingIsKept'
  <2> SUFFICES ASSUME NEW x \in Sources \cap Waiting'
               PROVE  /\ loc[x] = x
                      /\ \A d \in Targets : pred[d] = x => d \in Waiting'
    BY <1>1, <1>2 DEF WaitingIsKept
  <2>1. /\ loc[x] = x
        /\ x # b
        /\ \A d \in Targets : pred[d] = x => d \in Waiting
    BY <1>1, <1>2, <1>3, WhileCopying DEF WaitingIsKept
  <2> QED
    BY <1>1, <1>3, <2>1
<1>8. WaitingIsUsed'
  BY <1>1, <1>2, <1>3, WhileCopying DEF WaitingIsUsed
<1>9. OthersDone'
  <2>1. memory[b] = before[pred[b]]
    BY <1>1, <1>3, WhileCopying
  <2> QED
    BY <1>1, <1>2, <1>3, <2>1, WhileCopying DEF OthersDone
<1> QED
  BY <1>1, <1>2, <1>4, <1>5, <1>6, <1>7, <1>8, <1>9 DEF InductiveCopy, Copying

(* The target taken from to_do is a source that waits; its own targets     *)
(* wait too and differ from it, so the loop does not end here.             *)
LEMMA BreakCycleOK == InductiveCopy /\ BreakCycle => InductiveCopy'
<1> SUFFICES ASSUME InductiveCopy, BreakCycle PROVE InductiveCopy'
  OBVIOUS
<1> DEFINE b == Last(toDo)
<1>1. /\ pc = "copy"
      /\ pc' = IF toDo' = <<>> THEN "done" ELSE "copy"
      /\ pc' \in {"copy", "done"}
      /\ ready = <<>>
      /\ ready' = <<b>>
      /\ toDo # <<>>
      /\ b # loc[pred[b]]
      /\ toDo' = Front(toDo)
      /\ UNCHANGED <<requested, before, next, pred, count>>
  BY DEF BreakCycle, Outer, Popped
<1>2. PICK t \in Temp \ used :
        /\ memory' = [memory EXCEPT ![t] = memory[b]]
        /\ loc' = [loc EXCEPT ![b] = t]
        /\ used' = used \cup {t}
        /\ fresh' = fresh \cup {t}
  BY DEF BreakCycle, Emit
<1>3. /\ Targets' = Targets
      /\ Sources' = Sources
      /\ PairsTaken' = Len(requested)
      /\ LastSources'
      /\ Free = {}
      /\ Free' = {b}
  <2>1. Range(<<b>>) = {b}
    BY DEF Range
  <2> QED
    BY <1>1, <2>1, PairsStay, EmptyProperties DEF Free
<1>4. /\ toDo' \in Seq(Targets)
      /\ IsInjective(toDo')
      /\ Waiting' = Waiting \ {b}
      /\ b \in Waiting
      /\ b \in Targets
      /\ b \in Value
      /\ pred[b] \in Sources
      /\ Len(toDo') <= Len(requested)
  <2>1. /\ toDo' \in Seq(Targets)
        /\ IsInjective(toDo')
        /\ Range(toDo') = Range(toDo) \ {b}
        /\ Len(toDo') = Len(toDo) - 1
        /\ b \in Targets
        /\ b \in Range(toDo)
    BY <1>1, WhileCopying, PopProperties
  <2>2. Len(toDo) \in Nat /\ Len(requested) \in Nat /\ Len(toDo) <= Len(requested)
    BY <1>1, WhileCopying
  <2>3. Len(toDo') <= Len(requested)
    BY <2>1, <2>2
  <2> QED
    BY <1>1, <2>1, <2>3, WhileCopying, KindsOfPlaces DEF Waiting
<1>5. ready' \in Seq(Targets \cup Sources) /\ IsInjective(ready')
  BY <1>1, <1>4 DEF IsInjective
<1> HIDE DEF b
<1>6. b \in Sources /\ loc[b] = b /\ memory[b] = before[b]
  <2>1. b \in Sources
    BY <1>1, <1>3, <1>4, WhileCopying DEF WaitingIsUsed
  <2>2. loc[b] = b
    BY <1>1, <1>4, <2>1, WhileCopying DEF WaitingIsKept
  <2>3. memory[loc[b]] = before[b]
    BY <1>1, <2>1, WhileCopying
  <2> QED
    BY <2>1, <2>2, <2>3
<1>7. /\ loc' \in [Value -> Place \cup {None}]
      /\ loc'[b] = t
      /\ \A x \in Sources : x # b => loc'[x] = loc[x]
      /\ memory' \in [Place -> Value \cup {None}]
      /\ memory'[t] = before[b]
      /\ \A x \in Place : x # t => memory'[x] = memory[x]
      /\ t \notin Value
      /\ t # None
      /\ t \in Place
  <2>1. /\ loc \in [Value -> Place \cup {None}]
        /\ memory \in [Place -> Value \cup {None}]
        /\ Place = Value \cup Temp
        /\ Temp \cap Value = {}
        /\ None \notin Value \cup Temp
        /\ Sources \subseteq Value
    BY <1>1, WhileCopying, KindsOfPlaces DEF TypeOK
  <2> QED
    BY <1>2, <1>4, <1>6, <2>1
<1>8. \A x \in Sources : /\ loc[x] \in Place
                        /\ loc[x] # t
                        /\ (loc[x] # b \/ x = b)
  <2> SUFFICES ASSUME NEW x \in Sources
               PROVE  loc[x] \in Place /\ loc[x] # t /\ (loc[x] # b \/ x = b)
    OBVIOUS
  <2>1. /\ x \in Value
        /\ loc[x] \in Place
        /\ loc[x] \in Value \cup used
    BY <1>1, WhileCopying, KindsOfPlaces DEF TypeOK, Located
  <2>2. loc[x] # t
    BY <1>2, <1>7, <2>1
  <2> QED
    BY <1>1, <1>6, <2>1, <2>2, WhileCopying DEF Located
<1>9. toDo' # <<>> /\ pc' = "copy"
  <2>1. PICK d \in Targets : pred[d] = b
    BY <1>6 DEF Sources
  <2>2. d # b
    BY <1>1, <1>6, <2>1
  <2>3. d \in Waiting
    BY <1>1, <1>3, <1>4, <1>6, <2>1, WhileCopying DEF WaitingIsKept
  <2>4. Waiting' # {}
    BY <1>4, <2>2, <2>3
  <2>5. toDo' # <<>>
    BY <1>4, <2>4, NonEmptyRange DEF Waiting
  <2> QED
    BY <1>1, <2>5
<1>10. TypeOK' /\ ListsAreSets' /\ BeforeCopies'
  <2>1. TypeOK'
    <3>1. used' \subseteq Temp /\ fresh' \subseteq used'
      BY <1>1, <1>2, WhileCopying DEF TypeOK
    <3> QED
      BY <1>1, <1>3, <1>4, <1>5, <1>7, <1>9, <3>1, WhileCopying
         DEF TypeOK, Place, IsRequest, IsRequestUpTo
  <2> QED
    BY <1>1, <1>3, <1>4, <1>5, <1>9, <2>1 DEF ListsAreSets, BeforeCopies
<1>11. SourcesKept'
  <2>1. ASSUME NEW x \in Sources PROVE loc'[x] # None /\ memory'[loc'[x]] = before[x]
    <3>1. CASE x = b
      BY <1>7, <3>1
    <3>2. CASE x # b
      BY <1>1, <1>7, <1>8, <3>2, WhileCopying
    <3> QED
      BY <3>1, <3>2
  <2> QED
    BY <1>1, <1>3, <2>1 DEF SourcesKept
<1>12. Located'
  <2>1. ASSUME NEW x \in Sources
        PROVE  \/ loc'[x] = x
               \/ loc'[x] \in used'
               \/ loc'[x] \in Targets /\ pred[loc'[x]] = x
    BY <1>1, <1>2, <1>7, WhileCopying DEF Located
  <2>2. ASSUME NEW x \in Sources, NEW y \in Sources, loc'[x] = loc'[y]
        PROVE  x = y
    BY <1>1, <1>7, <1>8, <2>2, WhileCopying DEF Located
  <2> QED
    BY <1>1, <1>3, <2>1, <2>2 DEF Located
<1>13. FreeIsUnused'
  <2>1. ASSUME NEW x \in Sources PROVE loc'[x] # b
    BY <1>4, <1>7, <1>8
  <2> QED
    BY <1>3, <2>1 DEF FreeIsUnused
<1>14. WaitingIsKept'
  <2> SUFFICES ASSUME NEW x \in Sources \cap Waiting'
               PROVE  /\ loc'[x] = x
                      /\ \A d \in Targets :
                           pred[d] = x => d \in {b} \cup Waiting'
    BY <1>1, <1>3 DEF WaitingIsKept
  <2>1. /\ loc[x] = x
        /\ x # b
        /\ \A d \in Targets : pred[d] = x => d \in Waiting
    BY <1>1, <1>3, <1>4, WhileCopying DEF WaitingIsKept
  <2> QED
    BY <1>4, <1>7, <2>1
<1>15. WaitingIsUsed'
  <2> SUFFICES ASSUME NEW d \in Waiting'
               PROVE  loc'[pred[d]] = d \/ d \in Sources
    BY <1>1, <1>3 DEF WaitingIsUsed
  <2>1. /\ d # b
        /\ pred[d] \in Sources
        /\ loc[pred[d]] = d \/ d \in Sources
    BY <1>1, <1>3, <1>4, WhileCopying, KindsOfPlaces DEF WaitingIsUsed
  <2> QED
    BY <1>6, <1>7, <2>1
<1>16. OthersDone'
  <2>1. \A x \in Value : memory'[x] = memory[x]
    BY <1>1, <1>7, WhileCopying, KindsOfPlaces
  <2>2. Targets \subseteq Value
    BY <1>1, WhileCopying, KindsOfPlaces
  <2> QED
    BY <1>1, <1>3, <1>4, <2>1, <2>2, WhileCopying DEF OthersDone
<1> QED
  BY <1>1, <1>3, <1>9, <1>10, <1>11, <1>12, <1>13, <1>14, <1>15, <1>16
     DEF InductiveCopy, Copying

LEMMA AllCopiedOK == InductiveCopy /\ AllCopied => InductiveCopy'
<1> SUFFICES ASSUME InductiveCopy, AllCopied PROVE InductiveCopy'
  OBVIOUS
<1>1. /\ pc = "copy"
      /\ pc' = "done"
      /\ ready = <<>>
      /\ toDo = <<>>
      /\ UNCHANGED <<requested, before, memory, next, pred, toDo, ready, loc,
                     used, fresh, count>>
  BY DEF AllCopied
<1>2. /\ Targets' = Targets
      /\ Sources' = Sources
      /\ PairsTaken' = Len(requested)
      /\ LastSources'
      /\ Waiting' = Waiting
      /\ Free' = Free
  BY <1>1, PairsStay DEF Waiting, Free
<1>3. TypeOK' /\ ListsAreSets' /\ BeforeCopies' /\ SourcesKept'
  BY <1>1, <1>2, WhileCopying
     DEF TypeOK, Place, IsRequest, IsRequestUpTo, ListsAreSets, BeforeCopies, SourcesKept
<1>4. Copying'
  <2>1. Located' /\ FreeIsUnused'
    BY <1>1, <1>2, WhileCopying DEF Located, FreeIsUnused
  <2>2. WaitingIsKept' /\ WaitingIsUsed' /\ OthersDone'
    BY <1>1, <1>2, WhileCopying DEF WaitingIsKept, WaitingIsUsed, OthersDone
  <2> QED
    BY <2>1, <2>2 DEF Copying
<1> QED
  BY <1>1, <1>2, <1>3, <1>4 DEF InductiveCopy

-----------------------------------------------------------------------------
(* The end of an assignment                                                *)

(* What the registers hold when the copies are done.                       *)
LEMMA CopiesMade ==
  ASSUME InductiveCopy, pc = "done"
  PROVE  /\ TypeOK
         /\ \A b \in Targets : memory[b] = before[pred[b]]
         /\ \A x \in Value \ Targets : memory[x] = before[x]
         /\ \A x \in Value : memory[x] \in Value
<1>1. TypeOK /\ OthersDone /\ toDo = <<>> /\ ready = <<>>
  BY DEF InductiveCopy, Copying
<1>2. Free = {} /\ Waiting = {}
  BY <1>1, EmptyProperties DEF Free, Waiting
<1>3. /\ \A b \in Targets : memory[b] = before[pred[b]]
      /\ \A x \in Value \ Targets : memory[x] = before[x]
  BY <1>1, <1>2 DEF OthersDone
<1>4. \A x \in Value : memory[x] \in Value
  BY <1>1, <1>3, KindsOfPlaces DEF TypeOK
<1> QED
  BY <1>1, <1>3, <1>4

(* The bound on two assignments in a row keeps to that of one.             *)
LEMMA NextIsRequest ==
  ASSUME TypeOK, NextAssignment
  PROVE  IsRequest(requested')
<1>1. Len(requested) \in Nat
  BY RequestPairs DEF TypeOK
<1>2. PICK n \in 1..(MaxPairs - Len(requested)) :
        requested' \in [1..n -> Target \X Value]
  BY DEF NextAssignment, IsRequestUpTo
<1>3. n \in 1..MaxPairs
  BY <1>1, CopyAssumption
<1> QED
  BY <1>2, <1>3 DEF IsRequest, IsRequestUpTo

LEMMA NextAssignmentOK == InductiveCopy /\ NextAssignment => InductiveCopy'
<1> SUFFICES ASSUME InductiveCopy, NextAssignment PROVE InductiveCopy'
  OBVIOUS
<1>1. /\ TypeOK
      /\ pc = "done"
      /\ count < MaxAssign
      /\ count' = count + 1
      /\ before' = [x \in Value |-> memory[x]]
      /\ IsRequest(requested')
      /\ pc' = "dict"
      /\ next' = 0
      /\ pred' = [d \in {} |-> None]
      /\ toDo' = <<>>
      /\ ready' = <<>>
      /\ loc' = [x \in Value |-> None]
      /\ fresh' = {}
      /\ UNCHANGED <<memory, used>>
  BY NextIsRequest DEF InductiveCopy, NextAssignment, Begin, FirstPair
<1>2. Targets' = {} /\ Sources' = {}
  BY <1>1 DEF Targets, Sources
<1>3. Len(requested') \in Nat
  BY <1>1, RequestPairs
<1>4. TypeOK'
  <2>1. before' \in [Value -> Value]
    BY <1>1, CopiesMade
  <2>2. count' \in 0..MaxAssign
    BY <1>1, CopyAssumption DEF TypeOK
  <2>3. toDo' \in Seq(Targets') /\ ready' \in Seq(Targets' \cup Sources')
    BY <1>1, EmptyProperties
  <2>4. IsRequest(requested)'
    BY <1>1 DEF IsRequest, IsRequestUpTo
  <2>5. next' \in 0..Len(requested')
    BY <1>1, <1>3
  <2>6. loc' \in [Value -> Place \cup {None}]
    BY <1>1
  <2>7. memory' \in [Place -> Value \cup {None}] /\ used' \subseteq Temp
    BY <1>1 DEF TypeOK
  <2> QED
    BY <1>1, <1>2, <2>1, <2>2, <2>3, <2>4, <2>5, <2>6, <2>7 DEF TypeOK, Place
<1>5. PairsTaken' = 0
  BY <1>1 DEF PairsTaken
<1>6. LastSources'
  BY <1>2, <1>5 DEF LastSources
<1>7. ListsAreSets'
  BY <1>1, <1>5, EmptyProperties DEF ListsAreSets
<1>8. BeforeCopies'
  <2>1. Waiting' = {}
    BY <1>1, EmptyProperties DEF Waiting
  <2> QED
    BY <1>1, <1>2, <2>1 DEF BeforeCopies, Unchanged
<1> QED
  BY <1>1, <1>4, <1>6, <1>7, <1>8 DEF InductiveCopy, SourcesKept, Copying

LEMMA CopyStutter == InductiveCopy /\ UNCHANGED vars => InductiveCopy'
<1> SUFFICES ASSUME InductiveCopy, UNCHANGED vars PROVE InductiveCopy'
  OBVIOUS
<1>1. UNCHANGED <<requested, before, memory, pc, next, pred, toDo, ready, loc,
                  used, fresh, count>>
  BY DEF vars
<1>2. /\ Targets' = Targets
      /\ Sources' = Sources
      /\ Waiting' = Waiting
      /\ Free' = Free
      /\ PairsTaken' = PairsTaken
  BY <1>1 DEF Targets, Sources, Waiting, Free, PairsTaken
<1>3. TypeOK'
  BY <1>1, <1>2 DEF InductiveCopy, TypeOK, IsRequest, IsRequestUpTo, Place
<1>4. LastSources' /\ ListsAreSets' /\ BeforeCopies' /\ SourcesKept'
  <2>1. LastSources'
    BY <1>1, <1>2 DEF InductiveCopy, LastSources
  <2>2. ListsAreSets'
    BY <1>1, <1>2 DEF InductiveCopy, ListsAreSets
  <2>3. BeforeCopies'
    BY <1>1, <1>2 DEF InductiveCopy, BeforeCopies, Unchanged
  <2>4. SourcesKept'
    BY <1>1, <1>2 DEF InductiveCopy, SourcesKept
  <2> QED
    BY <2>1, <2>2, <2>3, <2>4
<1>5. Copying'
  BY <1>1, <1>2 DEF InductiveCopy, Copying, Located, FreeIsUnused,
                    WaitingIsKept, WaitingIsUsed, OthersDone
<1> QED
  BY <1>1, <1>3, <1>4, <1>5 DEF InductiveCopy

LEMMA InductiveCopyHolds == Spec => []InductiveCopy
<1>1. InductiveCopy /\ [Next]_vars => InductiveCopy'
  BY ReadPairOK, PairsReadOK, FindReadyOK, ReadyFoundOK, SkipReadyOK,
     CopyReadyOK, SkipToDoOK, BreakCycleOK, AllCopiedOK, NextAssignmentOK,
     CopyStutter
     DEF Next
<1> QED
  BY CopyInit, <1>1, PTL DEF Spec

-----------------------------------------------------------------------------
(* Theorems                                                                *)

(* The lists of _sequentialize hold targets and sources, and the loops stay *)
(* within the pairs of the assignment.                                     *)
THEOREM CopyTypes == Spec => []TypeOK
<1>1. InductiveCopy => TypeOK
  BY DEF InductiveCopy
<1> QED
  BY InductiveCopyHolds, <1>1, PTL

(* The initial value of each source is where loc says for as long as copies *)
(* are made; the assertion that loc is not None never fails.               *)
THEOREM SourcesSurvive == Spec => []SourcesKept
<1>1. InductiveCopy => SourcesKept
  BY DEF InductiveCopy
<1> QED
  BY InductiveCopyHolds, <1>1, PTL

-----------------------------------------------------------------------------
(* The refinement                                                          *)

Abstract == IF pc = "done" THEN [x \in Value |-> memory[x]] ELSE before

(* The source that the algorithm has found for a target is the one the     *)
(* assignment gives it.                                                    *)
LEMMA SourceFound ==
  ASSUME InductiveCopy, pc # "dict"
  PROVE  /\ Parallel!Targets(requested) = Targets
         /\ \A b \in Targets : Parallel!SourceOf(requested, b) = pred[b]
<1>1. /\ Targets = {requested[i][1] : i \in 1..Len(requested)}
      /\ \A b \in Targets : \E i \in 1..Len(requested) :
           /\ requested[i] = <<b, pred[b]>>
           /\ \A j \in 1..Len(requested) : requested[j][1] = b => j <= i
  BY DEF InductiveCopy, LastSources, PairsTaken
<1>2. /\ DOMAIN requested = 1..Len(requested)
      /\ Len(requested) \in Nat
  BY RequestPairs DEF InductiveCopy, TypeOK, IsRequest, IsRequestUpTo
<1>3. Parallel!Targets(requested) = Targets
  BY <1>1, <1>2 DEF Parallel!Targets
<1>4. ASSUME NEW b \in Targets
      PROVE  Parallel!SourceOf(requested, b) = pred[b]
  <2> DEFINE Latest(i) == /\ requested[i][1] = b
                          /\ \A j \in DOMAIN requested :
                               requested[j][1] = b => j <= i
             k == CHOOSE i \in DOMAIN requested : Latest(i)
  <2>1. PICK i \in 1..Len(requested) :
          /\ requested[i] = <<b, pred[b]>>
          /\ \A j \in 1..Len(requested) : requested[j][1] = b => j <= i
    BY <1>1
  <2>2. i \in DOMAIN requested /\ Latest(i)
    BY <1>2, <2>1
  <2>3. k \in DOMAIN requested /\ Latest(k)
    BY <2>2
  <2>4. i <= k /\ k <= i
    BY <2>2, <2>3
  <2>5. k = i
    BY <1>2, <2>2, <2>3, <2>4
  <2>6. Parallel!SourceOf(requested, b) = requested[k][2]
    BY DEF Parallel!SourceOf
  <2> QED
    BY <2>1, <2>5, <2>6
<1> QED
  BY <1>3, <1>4

(* The step that ends the copies is the assignment.                        *)
LEMMA EndAssigns ==
  ASSUME InductiveCopy, InductiveCopy', pc \notin {"dict", "done"},
         pc' = "done", UNCHANGED <<requested, before, pred>>
  PROVE  Parallel!Assign
<1>1. /\ \A b \in Targets : memory'[b] = before[pred[b]]
      /\ \A x \in Value \ Targets : memory'[x] = before[x]
  <2>1. toDo' = <<>> /\ ready' = <<>> /\ OthersDone'
    BY DEF InductiveCopy, Copying
  <2>2. Free' = {} /\ Waiting' = {} /\ Targets' = Targets
    BY <2>1, EmptyProperties DEF Free, Waiting, Targets
  <2> QED
    BY <2>1, <2>2 DEF OthersDone
<1>2. [x \in Value |-> memory'[x]] = Parallel!Assigned(requested, before)
  BY <1>1, SourceFound DEF Parallel!Assigned
<1> QED
  BY <1>2 DEF Parallel!Assign

(* The copies run one after the other have the effect of the assignment,   *)
(* for any number of registers, pairs and assignments.                     *)
THEOREM CopiesImplementAssignment == Spec => CopiesAreParallel
<1>1. Init => Parallel!ParallelInit
  BY DEF Init, Parallel!ParallelInit, IsRequest, IsRequestUpTo, Parallel!IsRequest
<1>2. ASSUME InductiveCopy, InductiveCopy', [Next]_vars
      PROVE  [Parallel!Assign \/ Parallel!Request]_
               <<requested, pc # "done", Abstract>>
  <2> SUFFICES \/ Parallel!Assign \/ Parallel!Request
               \/ UNCHANGED <<requested, pc # "done", Abstract>>
    OBVIOUS
  <2>1. CASE pc # "done" /\ pc' # "done" /\ UNCHANGED <<requested, before>>
    BY <2>1 DEF Abstract
  <2>2. CASE ReadPair \/ PairsRead \/ FindReady \/ ReadyFound \/ SkipReady
             \/ CopyReady
    BY <2>1, <2>2 DEF ReadPair, PairsRead, FindReady, ReadyFound, SkipReady,
                      CopyReady
  <2>3. CASE SkipToDo \/ BreakCycle \/ AllCopied
    <3>1. /\ pc = "copy"
          /\ pc' \in {"copy", "done"}
          /\ UNCHANGED <<requested, before, pred>>
      BY <2>3 DEF SkipToDo, BreakCycle, AllCopied, Outer
    <3> QED
      BY <1>2, <2>1, <3>1, EndAssigns
  <2>4. CASE NextAssignment
    <3>1. IsRequest(requested')
      BY <1>2, <2>4, NextIsRequest DEF InductiveCopy
    <3> QED
      BY <2>4, <3>1 DEF NextAssignment, Begin, Parallel!Request, IsRequest,
                        IsRequestUpTo, Parallel!IsRequest
  <2>5. CASE UNCHANGED vars
    BY <2>5 DEF vars, Abstract
  <2> QED
    BY <1>2, <2>2, <2>3, <2>4, <2>5 DEF Next
<1>3. CopiesAreParallel <=>
        /\ Parallel!ParallelInit
        /\ [][Parallel!Assign \/ Parallel!Request]_
              <<requested, pc # "done", Abstract>>
  BY DEF CopiesAreParallel, Parallel!ParallelSpec, Abstract
<1> QED
  BY InductiveCopyHolds, <1>1, <1>2, <1>3, PTL DEF Spec

-----------------------------------------------------------------------------
(* The temporaries                                                         *)

(* The cycles that have been broken: not all of their targets wait.        *)
Broken == {C \in SUBSET Targets : IsolatedCycle(C) /\ ~(C \subseteq Waiting)}

(* Each of them has taken one temporary; nothing has been made free in the *)
(* others.                                                                 *)
TempsAreCycles ==
  /\ IsFiniteSet(fresh)
  /\ pc \in {"dict", "ready"} => fresh = {}
  /\ pc \in {"copy", "done"} =>
       /\ \A C \in SUBSET Targets :
            IsolatedCycle(C) /\ C \subseteq Waiting => C \cap Free = {}
       /\ Cardinality(fresh) = Cardinality(Broken)

LEMMA TargetsAreFinite ==
  ASSUME InductiveCopy
  PROVE  IsFiniteSet(Targets)
<1>1. PairsTaken \in Nat
  BY RequestPairs DEF InductiveCopy, TypeOK, PairsTaken
<1> DEFINE I == 1..PairsTaken
           f == [i \in I |-> requested[i][1]]
<1>2. IsFiniteSet(I)
  BY <1>1, FS_Interval
<1>3. f \in Surjection(I, Targets)
  BY DEF InductiveCopy, LastSources, Surjection
<1> HIDE DEF f, I
<1> QED
  BY <1>2, <1>3, FS_Surjection

LEMMA InClosed ==
  ASSUME NEW C, Closed(C)
  PROVE  /\ \A x \in C : pred[x] \in C
         /\ \A y \in C : \E x \in C : pred[x] = y
BY DEF Closed

(* Two isolated cycles have no target in common.                           *)
LEMMA CyclesAreDisjoint ==
  ASSUME NEW C \in SUBSET Targets, NEW D \in SUBSET Targets,
         IsolatedCycle(C), IsolatedCycle(D), NEW x \in C, x \in D
  PROVE  C = D
<1> DEFINE S == C \cap D
<1>1. Closed(C) /\ Closed(D)
  BY DEF IsolatedCycle
<1>2. \A y \in S : pred[y] \in S
  BY <1>1, InClosed
<1>3. ASSUME NEW y \in S PROVE \E z \in S : pred[z] = y
  <2>1. PICK z \in C : pred[z] = y
    BY <1>1, <1>3, InClosed
  <2>2. z \in D
    BY <1>3, <2>1 DEF IsolatedCycle
  <2> QED
    BY <2>1, <2>2
<1>4. Closed(S)
  BY <1>2, <1>3 DEF Closed
<1>5. S = C
  BY <1>4 DEF IsolatedCycle
<1>6. S = D
  BY <1>4 DEF IsolatedCycle
<1> QED
  BY <1>5, <1>6

(* Among targets that are a permutation of their sources, the one of b     *)
(* that is as small as can be.                                             *)
LEMMA CycleThrough ==
  ASSUME NEW W \in SUBSET Targets, IsFiniteSet(W),
         \A x \in W : pred[x] \in W,
         \A y \in W : \E x \in W : pred[x] = y,
         \A x, y \in W : pred[x] = pred[y] => x = y,
         \A e \in Targets : pred[e] \in W => e \in W,
         NEW b \in W, pred[b] # b
  PROVE  \E C \in SUBSET W : b \in C /\ IsolatedCycle(C)
<1> DEFINE C == {x \in W : \A S \in SUBSET W : b \in S /\ Closed(S) => x \in S}
<1>1. C \subseteq W /\ b \in C
  OBVIOUS
<1>2. \A S \in SUBSET W : b \in S /\ Closed(S) => C \subseteq S
  OBVIOUS
<1>3. ASSUME NEW x \in C PROVE pred[x] \in C
  <2>1. ASSUME NEW S \in SUBSET W, b \in S, Closed(S) PROVE pred[x] \in S
    BY <1>2, <1>3, <2>1, InClosed
  <2> QED
    BY <1>1, <1>3, <2>1
<1>4. ASSUME NEW y \in C PROVE \E x \in C : pred[x] = y
  <2>1. PICK x \in W : pred[x] = y
    BY <1>1, <1>4
  <2>2. ASSUME NEW S \in SUBSET W, b \in S, Closed(S) PROVE x \in S
    <3>1. y \in S
      BY <1>2, <1>4, <2>2
    <3>2. PICK z \in S : pred[z] = y
      BY <2>2, <3>1, InClosed
    <3> QED
      BY <2>1, <3>2
  <2> QED
    BY <2>1, <2>2
<1> HIDE DEF C
<1>5. Closed(C)
  BY <1>3, <1>4 DEF Closed
<1>6. ASSUME NEW S \in SUBSET C, Closed(S) PROVE S \in {{}, C}
  <2>1. CASE b \in S
    BY <1>1, <1>2, <1>6, <2>1
  <2>2. CASE b \notin S
    <3> DEFINE R == C \ S
    <3>1. ASSUME NEW x \in R PROVE pred[x] \in R
      <4>1. pred[x] \in C
        BY <1>3
      <4>2. ASSUME pred[x] \in S PROVE FALSE
        <5>1. PICK z \in S : pred[z] = pred[x]
          BY <1>6, <4>2, InClosed
        <5>2. z = x
          BY <1>1, <5>1
        <5> QED
          BY <5>1, <5>2
      <4> QED
        BY <4>1, <4>2
    <3>2. ASSUME NEW y \in R PROVE \E x \in R : pred[x] = y
      <4>1. PICK x \in C : pred[x] = y
        BY <1>4
      <4>2. x \notin S
        BY <1>6, <4>1, <3>2, InClosed
      <4> QED
        BY <4>1, <4>2
    <3>3. Closed(R)
      BY <3>1, <3>2 DEF Closed
    <3>4. R \in SUBSET W /\ b \in R
      BY <1>1, <2>2
    <3> QED
      BY <1>2, <3>3, <3>4
  <2> QED
    BY <2>1, <2>2
<1>7. ASSUME NEW e \in Targets \ C PROVE pred[e] \notin C
  <2> SUFFICES ASSUME pred[e] \in C PROVE FALSE
    OBVIOUS
  <2>1. e \in W
    BY <1>1
  <2>2. PICK x \in C : pred[x] = pred[e]
    BY <1>4
  <2>3. x = e
    BY <1>1, <2>1, <2>2
  <2> QED
    BY <2>2, <2>3
<1>8. Cardinality(C) > 1
  <2>1. IsFiniteSet(C) /\ Cardinality(C) \in Nat
    BY <1>1, FS_Subset, FS_CardinalityType
  <2>2. C # {}
    BY <1>1
  <2>3. Cardinality(C) # 0
    BY <2>1, <2>2, FS_EmptySet
  <2>4. Cardinality(C) # 1
    <3>1. b \in C /\ pred[b] \in C
      BY <1>1, <1>3
    <3>2. ~(\E x : C = {x})
      BY <3>1
    <3> QED
      BY <2>1, <3>2, FS_Singleton
  <2> QED
    BY <2>1, <2>3, <2>4
<1> QED
  BY <1>1, <1>5, <1>6, <1>7, <1>8 DEF IsolatedCycle

(* A temporary is made only for a target of an isolated cycle that waits   *)
(* as a whole.                                                             *)
LEMMA WaitingCycle ==
  ASSUME InductiveCopy, pc = "copy", ready = <<>>,
         NEW b \in Waiting, b # loc[pred[b]]
  PROVE  \E C \in SUBSET Targets :
           b \in C /\ IsolatedCycle(C) /\ C \subseteq Waiting
<1>1. Free = {}
  BY EmptyProperties DEF Free
<1> DEFINE W == {d \in Waiting : d # loc[pred[d]]}
<1>2. /\ W \subseteq Waiting /\ Waiting \subseteq Targets /\ b \in W
      /\ Targets \subseteq Value
  BY WhileCopying, KindsOfPlaces
<1>3. \A d \in W : /\ d \in Sources /\ loc[d] = d
                   /\ \A e \in Targets : pred[e] = d => e \in Waiting
  BY <1>1, <1>2, WhileCopying DEF WaitingIsUsed, WaitingIsKept
<1>4. ASSUME NEW d \in W, NEW e \in Targets, pred[e] = d
      PROVE  e \in W
  <2>1. e \in Waiting /\ loc[pred[e]] = d /\ d # loc[pred[d]]
    BY <1>3, <1>4
  <2> QED
    BY <1>4, <2>1
<1>5. ASSUME NEW d \in W PROVE \E e \in W : pred[e] = d
  <2>1. PICK e \in Targets : pred[e] = d
    BY <1>3 DEF Sources
  <2> QED
    BY <1>4, <2>1
<1> DEFINE V == {pred[d] : d \in W}
           f == [d \in W |-> pred[d]]
<1>6. IsFiniteSet(W)
  BY <1>2, TargetsAreFinite, FS_Subset
<1>7. f \in Surjection(W, V)
  BY DEF Surjection
<1>8. W \subseteq V /\ \A d \in W : f[d] = pred[d] /\ pred[d] \in V
  BY <1>5
<1> HIDE DEF W, V, f
<1>9. /\ IsFiniteSet(V)
      /\ Cardinality(V) <= Cardinality(W)
      /\ Cardinality(V) = Cardinality(W) => f \in Injection(W, V)
  BY <1>6, <1>7, FS_Surjection
<1>10. /\ Cardinality(W) <= Cardinality(V)
       /\ Cardinality(V) = Cardinality(W) => V = W
  BY <1>8, <1>9, FS_Subset
<1>11. Cardinality(V) = Cardinality(W)
  BY <1>6, <1>9, <1>10, FS_CardinalityType
<1>12. V = W /\ f \in Injection(W, V)
  BY <1>9, <1>10, <1>11
<1>13. \A x, y \in W : pred[x] = pred[y] => x = y
  BY <1>8, <1>12 DEF Injection, IsInjective
<1>14. pred[b] # b
  BY <1>2, <1>3
<1>15. \E C \in SUBSET W : b \in C /\ IsolatedCycle(C)
  BY <1>2, <1>4, <1>5, <1>6, <1>8, <1>12, <1>13, <1>14, CycleThrough
<1> QED
  BY <1>2, <1>15

LEMMA CyclesStay ==
  ASSUME pred' = pred
  PROVE  /\ Targets' = Targets /\ Sources' = Sources
         /\ \A C : IsolatedCycle(C)' <=> IsolatedCycle(C)
BY DEF Targets, Sources, IsolatedCycle, Closed

(* A step that breaks no cycle and frees nothing in one.                   *)
LEMMA NoneBroken ==
  ASSUME InductiveCopy, TempsAreCycles, pc = "copy",
         pc' \in {"copy", "done"}, UNCHANGED <<pred, fresh>>,
         Waiting' \subseteq Waiting,
         \A C \in SUBSET Targets : IsolatedCycle(C) /\ C \subseteq Waiting
           => /\ C \subseteq Waiting'
              /\ C \cap Free' \subseteq C \cap Free
  PROVE  TempsAreCycles'
<1>1. /\ Targets' = Targets
      /\ \A C : IsolatedCycle(C)' <=> IsolatedCycle(C)
  BY CyclesStay
<1>2. Broken' = Broken
  <2>1. \A C \in SUBSET Targets :
          IsolatedCycle(C) => (C \subseteq Waiting' <=> C \subseteq Waiting)
    OBVIOUS
  <2> QED
    BY <1>1, <2>1 DEF Broken
<1>3. \A C \in SUBSET Targets :
        IsolatedCycle(C) /\ C \subseteq Waiting' => C \cap Free' = {}
  BY DEF TempsAreCycles
<1> QED
  BY <1>1, <1>2, <1>3 DEF TempsAreCycles

(* A target of a cycle that waits as a whole is a source, in its place.    *)
LEMMA UnbrokenIsKept ==
  ASSUME InductiveCopy, pc = "copy", NEW C \in SUBSET Targets,
         IsolatedCycle(C), C \subseteq Waiting, NEW x \in C
  PROVE  x \in Sources /\ loc[x] = x
<1>1. x \in Sources
  <2>1. PICK y \in C : pred[y] = x
    BY InClosed DEF IsolatedCycle
  <2> QED
    BY <2>1 DEF Sources
<1> QED
  BY <1>1, WhileCopying DEF WaitingIsKept

LEMMA TempsSkipReady ==
  InductiveCopy /\ TempsAreCycles /\ SkipReady => TempsAreCycles'
<1> SUFFICES ASSUME InductiveCopy, TempsAreCycles, SkipReady
             PROVE  TempsAreCycles'
  OBVIOUS
<1>1. /\ pc = "copy" /\ pc' = "copy" /\ ready # <<>>
      /\ ready' = Front(ready) /\ UNCHANGED <<pred, fresh, toDo>>
  BY DEF SkipReady
<1>2. Free' \subseteq Free
  BY <1>1, WhileCopying, PopProperties DEF Free
<1>3. Waiting' = Waiting
  BY <1>1 DEF Waiting
<1> QED
  BY <1>1, <1>2, <1>3, NoneBroken

LEMMA TempsCopyReady ==
  InductiveCopy /\ TempsAreCycles /\ CopyReady => TempsAreCycles'
<1> SUFFICES ASSUME InductiveCopy, TempsAreCycles, CopyReady
             PROVE  TempsAreCycles'
  OBVIOUS
<1> DEFINE b == Last(ready)
           a == pred[b]
           c == loc[a]
<1>1. /\ pc = "copy"
      /\ pc' = "copy"
      /\ ready # <<>>
      /\ b \in Targets
      /\ toDo' = Without(toDo, c)
      /\ ready' = IF a = c THEN Append(Front(ready), a) ELSE Front(ready)
      /\ UNCHANGED <<pred, fresh>>
  BY DEF CopyReady, Emit, Holder, Moved
<1>2. b \in Free /\ a \in Sources
  BY <1>1, WhileCopying, PopProperties, KindsOfPlaces DEF Free
<1>3. Waiting' = Waiting \ {c}
  BY <1>1, WhileCopying, WithoutProperties DEF Waiting
<1>4. Free' \subseteq Free \cup {a} /\ (a \in Free' => a = c \/ a \in Free)
  <2>1. /\ Front(ready) \in Seq(Targets \cup Sources)
        /\ Range(Front(ready)) \subseteq Range(ready)
    BY <1>1, WhileCopying, PopProperties
  <2>2. CASE a = c
    <3>1. a \notin Range(Front(ready))
      BY <1>1, <1>2, <2>1, <2>2, WhileCopying DEF FreeIsUnused, Free
    <3>2. Range(ready') = Range(Front(ready)) \cup {a}
      BY <1>1, <1>2, <2>1, <2>2, <3>1, WhileCopying, PopProperties,
         PushProperties
    <3> QED
      BY <2>1, <2>2, <3>2 DEF Free
  <2>3. CASE a # c
    BY <1>1, <2>1, <2>3 DEF Free
  <2> QED
    BY <2>2, <2>3
<1> HIDE DEF a, b, c
<1>5. a = pred[b] /\ c = loc[a]
  BY DEF a, b, c
<1>6. ASSUME NEW C \in SUBSET Targets, IsolatedCycle(C), C \subseteq Waiting
      PROVE  c \notin C
  <2> SUFFICES ASSUME c \in C PROVE FALSE
    OBVIOUS
  <2>1. c \in Sources /\ loc[c] = c
    BY <1>1, <1>6, UnbrokenIsKept
  <2>2. a = c
    BY <1>1, <1>2, <1>5, <2>1, WhileCopying DEF Located
  <2>3. b \in C
    BY <1>1, <1>5, <1>6, <2>2 DEF IsolatedCycle
  <2> QED
    BY <1>1, <1>2, <1>6, <2>3 DEF TempsAreCycles
<1>7. ASSUME NEW C \in SUBSET Targets, IsolatedCycle(C), C \subseteq Waiting
      PROVE  C \subseteq Waiting' /\ C \cap Free' \subseteq C \cap Free
  BY <1>3, <1>4, <1>6, <1>7
<1> QED
  BY <1>1, <1>3, <1>7, NoneBroken

LEMMA TempsSkipToDo ==
  InductiveCopy /\ TempsAreCycles /\ SkipToDo => TempsAreCycles'
<1> SUFFICES ASSUME InductiveCopy, TempsAreCycles, SkipToDo
             PROVE  TempsAreCycles'
  OBVIOUS
<1> DEFINE b == Last(toDo)
<1>1. /\ pc = "copy"
      /\ pc' \in {"copy", "done"}
      /\ toDo # <<>>
      /\ b = loc[pred[b]]
      /\ toDo' = Front(toDo)
      /\ UNCHANGED <<pred, ready, fresh>>
  BY DEF SkipToDo, Outer, Popped
<1>2. /\ Waiting' = Waiting \ {b} /\ b \in Targets /\ pred[b] \in Sources
      /\ Free' = Free
  BY <1>1, WhileCopying, PopProperties, KindsOfPlaces DEF Waiting, Free
<1> HIDE DEF b
<1>3. ASSUME NEW C \in SUBSET Targets, IsolatedCycle(C), C \subseteq Waiting
      PROVE  b \notin C
  <2> SUFFICES ASSUME b \in C PROVE FALSE
    OBVIOUS
  <2>1. b \in Sources /\ loc[b] = b
    BY <1>1, <1>3, UnbrokenIsKept
  <2>2. pred[b] = b
    BY <1>1, <1>2, <2>1, WhileCopying DEF Located
  <2>3. Closed({b})
    BY <2>2 DEF Closed
  <2>4. C = {b}
    BY <1>3, <2>3 DEF IsolatedCycle
  <2>5. Cardinality(C) = 1
    BY <2>4, FS_Singleton
  <2> QED
    BY <1>3, <2>5 DEF IsolatedCycle
<1> QED
  BY <1>1, <1>2, <1>3, NoneBroken

LEMMA TempsBreakCycle ==
  InductiveCopy /\ TempsAreCycles /\ BreakCycle => TempsAreCycles'
<1> SUFFICES ASSUME InductiveCopy, TempsAreCycles, BreakCycle
             PROVE  TempsAreCycles'
  OBVIOUS
<1> DEFINE b == Last(toDo)
<1>1. /\ pc = "copy"
      /\ pc' \in {"copy", "done"}
      /\ ready = <<>>
      /\ ready' = <<b>>
      /\ toDo # <<>>
      /\ b # loc[pred[b]]
      /\ toDo' = Front(toDo)
      /\ pred' = pred
  BY DEF BreakCycle, Outer, Popped
<1>2. PICK t \in Temp \ used : fresh' = fresh \cup {t}
  BY DEF BreakCycle
<1>3. Waiting' = Waiting \ {b} /\ b \in Waiting /\ Free' = {b}
  <2>1. Waiting' = Waiting \ {b} /\ b \in Waiting
    BY <1>1, WhileCopying, PopProperties DEF Waiting
  <2>2. Free' = {b}
    BY <1>1 DEF Free, Range
  <2> QED
    BY <2>1, <2>2
<1> HIDE DEF b
<1>4. PICK B \in SUBSET Targets :
        b \in B /\ IsolatedCycle(B) /\ B \subseteq Waiting
  BY <1>1, <1>3, WaitingCycle
<1>5. /\ Targets' = Targets
      /\ \A C : IsolatedCycle(C)' <=> IsolatedCycle(C)
  BY <1>1, CyclesStay
<1>6. Broken' = Broken \cup {B} /\ B \notin Broken
  <2>1. ASSUME NEW C \in SUBSET Targets, IsolatedCycle(C)
        PROVE  ~(C \subseteq Waiting') <=> ~(C \subseteq Waiting) \/ C = B
    BY <1>3, <1>4, <2>1, CyclesAreDisjoint
  <2> QED
    BY <1>4, <1>5, <2>1 DEF Broken
<1>7. t \notin fresh /\ IsFiniteSet(fresh)
  BY <1>1, <1>2, WhileCopying DEF TypeOK, TempsAreCycles
<1>8. IsFiniteSet(Broken)
  <2>1. IsFiniteSet(SUBSET Targets)
    BY TargetsAreFinite, FS_SUBSET
  <2> QED
    BY <2>1, FS_Subset DEF Broken
<1>9. IsFiniteSet(fresh') /\ Cardinality(fresh') = Cardinality(fresh) + 1
  BY <1>2, <1>7, FS_AddElement
<1>10. Cardinality(Broken') = Cardinality(Broken) + 1
  BY <1>6, <1>8, FS_AddElement
<1>11. Cardinality(fresh) = Cardinality(Broken)
  BY <1>1 DEF TempsAreCycles
<1>12. \A C \in SUBSET Targets : C \subseteq Waiting' => C \cap Free' = {}
  BY <1>3
<1> QED
  BY <1>1, <1>5, <1>9, <1>10, <1>11, <1>12 DEF TempsAreCycles

(* At first all the targets wait, and no source is free.                   *)
LEMMA TempsReadyFound ==
  InductiveCopy /\ TempsAreCycles /\ ReadyFound => TempsAreCycles'
<1> SUFFICES ASSUME InductiveCopy, TempsAreCycles, ReadyFound
             PROVE  TempsAreCycles'
  OBVIOUS
<1>1. /\ pc = "ready" /\ pc' = "copy" /\ UNCHANGED <<pred, toDo, ready, fresh>>
  BY DEF ReadyFound
<1>2. /\ Targets' = Targets /\ Waiting' = Waiting /\ Free' = Free
      /\ \A C : IsolatedCycle(C)' <=> IsolatedCycle(C)
  BY <1>1, CyclesStay DEF Waiting, Free
<1>3. Waiting = Targets /\ Free \cap Sources = {} /\ fresh = {}
  BY <1>1 DEF InductiveCopy, BeforeCopies, TempsAreCycles
<1>4. Broken' = {}
  BY <1>2, <1>3 DEF Broken
<1>5. ASSUME NEW C \in SUBSET Targets, IsolatedCycle(C)
      PROVE  C \subseteq Sources
  BY <1>5 DEF IsolatedCycle, Closed, Sources
<1>6. \A C \in SUBSET Targets : IsolatedCycle(C) => C \cap Free = {}
  BY <1>3, <1>5
<1> QED
  BY <1>1, <1>2, <1>3, <1>4, <1>6, FS_EmptySet DEF TempsAreCycles

LEMMA TempsNext ==
  InductiveCopy /\ TempsAreCycles /\ [Next]_vars => TempsAreCycles'
<1> SUFFICES ASSUME InductiveCopy, TempsAreCycles, [Next]_vars
             PROVE  TempsAreCycles'
  OBVIOUS
<1>1. CASE ReadPair \/ PairsRead \/ FindReady
  <2>1. pc' \in {"dict", "ready"} /\ fresh' = fresh /\ pc \in {"dict", "ready"}
    BY <1>1 DEF ReadPair, PairsRead, FindReady
  <2> QED
    BY <2>1 DEF TempsAreCycles
<1>2. CASE AllCopied
  <2>1. /\ pc = "copy" /\ pc' = "done"
        /\ UNCHANGED <<pred, toDo, ready, fresh>>
    BY <1>2 DEF AllCopied
  <2>2. Waiting' = Waiting /\ Free' = Free
    BY <2>1 DEF Waiting, Free
  <2> QED
    BY <2>1, <2>2, NoneBroken
<1>3. CASE NextAssignment
  <2>1. pc' = "dict" /\ fresh' = {}
    BY <1>3 DEF NextAssignment, Begin
  <2> QED
    BY <2>1, FS_EmptySet DEF TempsAreCycles
<1>4. CASE UNCHANGED vars
  <2>1. UNCHANGED <<pc, pred, toDo, ready, fresh>>
    BY <1>4 DEF vars
  <2>2. /\ Targets' = Targets /\ Waiting' = Waiting /\ Free' = Free
        /\ \A C : IsolatedCycle(C)' <=> IsolatedCycle(C)
    BY <2>1, CyclesStay DEF Waiting, Free
  <2>3. Broken' = Broken
    BY <2>2 DEF Broken
  <2> QED
    BY <2>1, <2>2, <2>3 DEF TempsAreCycles
<1> QED
  BY <1>1, <1>2, <1>3, <1>4, TempsReadyFound, TempsSkipReady, TempsCopyReady,
     TempsSkipToDo, TempsBreakCycle DEF Next

(* A temporary is made for each isolated cycle of the assignment, and for  *)
(* nothing else, whatever the number of pairs.                             *)
THEOREM TemporariesAreNeeded == Spec => []OneTempPerCycle
<1>1. Init => InductiveCopy /\ TempsAreCycles
  BY CopyInit, FS_EmptySet DEF Init, TempsAreCycles
<1>2. InductiveCopy /\ TempsAreCycles /\ [Next]_vars => TempsAreCycles'
  BY TempsNext
<1>3. InductiveCopy /\ TempsAreCycles => OneTempPerCycle
  <2> SUFFICES ASSUME InductiveCopy, TempsAreCycles, pc = "done"
               PROVE  Broken = {C \in SUBSET Targets : IsolatedCycle(C)}
    BY DEF OneTempPerCycle, TempsAreCycles
  <2>1. Waiting = {}
    BY EmptyProperties DEF InductiveCopy, Waiting
  <2>2. ~IsolatedCycle({})
    BY FS_EmptySet DEF IsolatedCycle
  <2> QED
    BY <2>1, <2>2 DEF Broken
<1> QED
  BY <1>1, <1>2, <1>3, InductiveCopyHolds, PTL DEF Spec
=============================================================================
