------------------------- MODULE Coalescing_proofs -------------------------
(***************************************************************************)
(* Proofs for Coalescing: whatever is live where, and whatever the keys,   *)
(* registers are grouped only with registers they do not interfere with.   *)
(***************************************************************************)
EXTENDS Coalescing, SequenceTheorems, TLAPS

(* A group's liveOut has what is live after the definitions of its         *)
(* members, which is what CanShare goes by.                                *)
LiveOutHasAll ==
  \A i \in DOMAIN groups : \A r \in groups[i].members :
    liveAt[r] \subseteq groups[i].liveOut

(* No register is waiting twice, or after it was put in a group.           *)
WaitingAreNew ==
  /\ IsInjective(waiting)
  /\ \A i \in DOMAIN groups : Range(waiting) \cap groups[i].members = {}

IInv == CoalescingTypeOK /\ LiveOutHasAll /\ GroupsDoNotInterfere
DisjointInv == WaitingAreNew /\ GroupsAreDisjoint

-----------------------------------------------------------------------------

(* The register that is placed, and those that wait after it.              *)
LEMMA HeadOfWaiting ==
  ASSUME NEW s \in Seq(Reg), s # <<>>
  PROVE  /\ Head(s) \in Reg
         /\ Tail(s) \in Seq(Reg)
         /\ Head(s) \in Range(s)
         /\ Range(Tail(s)) \subseteq Range(s)
         /\ IsInjective(s) => IsInjective(Tail(s)) /\ Head(s) \notin Range(Tail(s))
<1>1. Len(s) \in Nat /\ Len(s) > 0 /\ Head(s) = s[1] /\ Head(s) \in Reg
  BY EmptySeq, HeadTailProperties
<1>2. Tail(s) \in Seq(Reg) /\ Len(Tail(s)) = Len(s) - 1
      /\ \A i \in 1..Len(Tail(s)) : Tail(s)[i] = s[i + 1]
  BY HeadTailProperties
<1>3. DOMAIN s = 1..Len(s) /\ DOMAIN Tail(s) = 1..Len(Tail(s))
  BY <1>2
<1>4. 1 \in DOMAIN s /\ \A i \in DOMAIN Tail(s) : i + 1 \in DOMAIN s /\ i + 1 # 1
  BY <1>1, <1>2, <1>3
<1>5. Head(s) \in Range(s) /\ Range(Tail(s)) \subseteq Range(s)
  BY <1>1, <1>2, <1>3, <1>4 DEF Range
<1>6. ASSUME IsInjective(s)
      PROVE  IsInjective(Tail(s)) /\ Head(s) \notin Range(Tail(s))
  <2>1. \A i, j \in DOMAIN Tail(s) : Tail(s)[i] = Tail(s)[j] => i = j
    <3> SUFFICES ASSUME NEW i \in DOMAIN Tail(s), NEW j \in DOMAIN Tail(s),
                        Tail(s)[i] = Tail(s)[j]
                 PROVE  i = j
      OBVIOUS
    <3>1. s[i + 1] = s[j + 1]
      BY <1>2, <1>3
    <3>2. i + 1 = j + 1
      BY <1>4, <1>6, <3>1 DEF IsInjective
    <3> QED BY <1>2, <1>3, <3>2
  <2>2. \A i \in DOMAIN Tail(s) : Tail(s)[i] # s[1]
    BY <1>2, <1>3, <1>4, <1>6 DEF IsInjective
  <2> QED BY <1>1, <2>1, <2>2 DEF IsInjective, Range
<1> QED BY <1>1, <1>2, <1>5, <1>6

(* A group of one register.                                                *)
Single(r) == [key |-> keyOf[r], members |-> {r}, liveOut |-> liveAt[r]]

(* A step of Place with its two cases named.                               *)
LEMMA PlaceCases ==
  ASSUME IInv, Place
  PROVE  /\ waiting \in Seq(Reg) /\ waiting # <<>>
         /\ waiting' = Tail(waiting) /\ liveAt' = liveAt /\ keyOf' = keyOf
         /\ \/ \E i \in DOMAIN groups :
                 /\ CanShare(groups[i], Head(waiting))
                 /\ groups' = [groups EXCEPT ![i] = Joined(groups[i], Head(waiting))]
            \/ groups' = Append(groups, Single(Head(waiting)))
BY DEF IInv, CoalescingTypeOK, Place, Single

(* What is added at the end of the groups is the only change.              *)
LEMMA AppendedGroup ==
  ASSUME NEW gs \in Seq(Group), NEW g \in Group
  PROVE  /\ Append(gs, g) \in Seq(Group)
         /\ \A i \in DOMAIN Append(gs, g) :
              \/ i \in DOMAIN gs /\ Append(gs, g)[i] = gs[i]
              \/ i = Len(gs) + 1 /\ i \notin DOMAIN gs /\ Append(gs, g)[i] = g
<1>1. Append(gs, g) \in Seq(Group) /\ Len(Append(gs, g)) = Len(gs) + 1
      /\ (\A i \in 1..Len(gs) : Append(gs, g)[i] = gs[i])
      /\ Append(gs, g)[Len(gs) + 1] = g
  BY AppendProperties
<1>2. Len(gs) \in Nat /\ DOMAIN gs = 1..Len(gs)
      /\ DOMAIN Append(gs, g) = 1..(Len(gs) + 1)
  BY <1>1
<1> QED BY <1>1, <1>2

LEMMA InitIInv == GroupingInit => IInv
BY DEF GroupingInit, IInv, CoalescingTypeOK, LiveOutHasAll, GroupsDoNotInterfere

LEMMA PlaceKeepsIInv ==
  ASSUME IInv, Place
  PROVE  IInv'
<1> DEFINE r == Head(waiting)
<1>1. r \in Reg /\ Tail(waiting) \in Seq(Reg)
  BY PlaceCases, HeadOfWaiting
<1>2. groups \in Seq(Group) /\ liveAt \in [Reg -> SUBSET Reg] /\ keyOf \in [Reg -> Key]
  BY DEF IInv, CoalescingTypeOK
<1>3. \A i \in DOMAIN groups : groups[i] \in Group
  BY <1>2
<1>4. CASE groups' = Append(groups, Single(r))
  <2>1. Single(r) \in Group
    BY <1>1, <1>2 DEF Single, Group
  <2>2. groups' \in Seq(Group)
        /\ \A i \in DOMAIN groups' : \/ i \in DOMAIN groups /\ groups'[i] = groups[i]
                                     \/ groups'[i] = Single(r)
    BY <1>2, <1>4, <2>1, AppendedGroup
  <2>3. LiveOutHasAll'
    BY <2>2, PlaceCases DEF IInv, LiveOutHasAll, Single
  <2>4. GroupsDoNotInterfere'
    BY <2>2, PlaceCases DEF IInv, GroupsDoNotInterfere, Single
  <2> QED BY <1>1, <1>2, <2>2, <2>3, <2>4, PlaceCases DEF IInv, CoalescingTypeOK
<1>5. ASSUME NEW i \in DOMAIN groups, CanShare(groups[i], r),
             groups' = [groups EXCEPT ![i] = Joined(groups[i], r)]
      PROVE  IInv'
  <2>2. Joined(groups[i], r) \in Group
    BY <1>1, <1>2, <1>3 DEF Joined, Group
  <2>3. groups' \in Seq(Group) /\ DOMAIN groups' = DOMAIN groups
        /\ groups'[i] = Joined(groups[i], r)
        /\ \A j \in DOMAIN groups : j # i => groups'[j] = groups[j]
    BY <1>2, <1>5, <2>2
  <2>4. LiveOutHasAll'
    BY <2>3, PlaceCases DEF IInv, LiveOutHasAll, Joined
  <2>5. \A s \in groups[i].members : s \notin liveAt[r] /\ r \notin liveAt[s]
    BY <1>5 DEF IInv, LiveOutHasAll, CanShare
  <2>6. GroupsDoNotInterfere'
    BY <2>3, <2>5, PlaceCases DEF IInv, GroupsDoNotInterfere, Joined
  <2> QED BY <1>1, <1>2, <2>3, <2>4, <2>6, PlaceCases DEF IInv, CoalescingTypeOK
<1> QED BY <1>4, <1>5, PlaceCases

LEMMA StutterKeepsIInv == IInv /\ UNCHANGED grouping => IInv'
BY DEF IInv, grouping, CoalescingTypeOK, LiveOutHasAll, GroupsDoNotInterfere

(* In no order of the registers does coalesce_registers group two of which *)
(* one is live after a definition of the other: the comment in its loop.   *)
THEOREM NoInterference == GroupingSpec => []GroupsDoNotInterfere
<1>1. IInv /\ [Place]_grouping => IInv'
  BY PlaceKeepsIInv, StutterKeepsIInv
<1>2. IInv => GroupsDoNotInterfere
  BY DEF IInv
<1> QED BY InitIInv, <1>1, <1>2, PTL DEF GroupingSpec

-----------------------------------------------------------------------------

LEMMA InitDisjoint == GroupingInit => DisjointInv
BY DEF GroupingInit, DisjointInv, WaitingAreNew, GroupsAreDisjoint

LEMMA PlaceKeepsDisjoint ==
  ASSUME IInv, DisjointInv, Place
  PROVE  DisjointInv'
<1> DEFINE r == Head(waiting)
<1>1. r \in Reg /\ r \in Range(waiting) /\ Range(waiting') \subseteq Range(waiting)
      /\ IsInjective(waiting') /\ r \notin Range(waiting')
  BY PlaceCases, HeadOfWaiting DEF DisjointInv, WaitingAreNew
<1>2. groups \in Seq(Group) /\ liveAt \in [Reg -> SUBSET Reg] /\ keyOf \in [Reg -> Key]
  BY DEF IInv, CoalescingTypeOK
<1>3. \A i \in DOMAIN groups : groups[i] \in Group
  BY <1>2
<1>4. \A i \in DOMAIN groups : r \notin groups[i].members
  BY <1>1 DEF DisjointInv, WaitingAreNew
<1>5. ASSUME NEW n, n \in DOMAIN groups',
             groups'[n].members \subseteq
               {r} \cup (IF n \in DOMAIN groups THEN groups[n].members ELSE {}),
             \A j \in DOMAIN groups' :
               j # n => j \in DOMAIN groups /\ groups'[j] = groups[j]
      PROVE  DisjointInv'
  <2>1. \A j \in DOMAIN groups' : Range(waiting') \cap groups'[j].members = {}
    BY <1>1, <1>5 DEF DisjointInv, WaitingAreNew
  <2>2. \A j \in DOMAIN groups' : j # n => groups'[j].members \cap groups'[n].members = {}
    BY <1>4, <1>5 DEF DisjointInv, GroupsAreDisjoint
  <2>3. \A j, k \in DOMAIN groups' :
          j # k /\ j # n /\ k # n => groups'[j].members \cap groups'[k].members = {}
    BY <1>5 DEF DisjointInv, GroupsAreDisjoint
  <2>4. \A j, k \in DOMAIN groups' : j # k => groups'[j].members \cap groups'[k].members = {}
    BY <2>2, <2>3
  <2> QED BY <1>1, <2>1, <2>4 DEF DisjointInv, WaitingAreNew, GroupsAreDisjoint
<1>6. CASE groups' = Append(groups, Single(r))
  <2>1. Single(r) \in Group /\ Single(r).members = {r}
    BY <1>1, <1>2 DEF Single, Group
  <2>2. \A i \in DOMAIN groups' :
          \/ i \in DOMAIN groups /\ groups'[i] = groups[i]
          \/ i = Len(groups) + 1 /\ i \notin DOMAIN groups /\ groups'[i] = Single(r)
    BY <1>2, <1>6, <2>1, AppendedGroup
  <2>3. Len(groups) + 1 \in DOMAIN groups' /\ groups'[Len(groups) + 1] = Single(r)
    BY <1>2, <1>6, <2>1, AppendProperties
  <2> QED BY <1>5, <2>1, <2>2, <2>3
<1>7. ASSUME NEW i \in DOMAIN groups,
             groups' = [groups EXCEPT ![i] = Joined(groups[i], r)]
      PROVE  DisjointInv'
  <2>1. DOMAIN groups' = DOMAIN groups /\ groups'[i] = Joined(groups[i], r)
        /\ \A j \in DOMAIN groups : j # i => groups'[j] = groups[j]
    BY <1>2, <1>7
  <2>2. Joined(groups[i], r).members = groups[i].members \cup {r}
    BY <1>3 DEF Joined, Group
  <2> QED BY <1>5, <2>1, <2>2
<1> QED BY <1>6, <1>7, PlaceCases

(* A register is given one replacement: it is grouped once.                *)
THEOREM OneGroup == GroupingSpec => []GroupsAreDisjoint
<1> DEFINE Inv == IInv /\ DisjointInv
<1>1. GroupingInit => Inv
  BY InitIInv, InitDisjoint
<1>2. ASSUME Inv, [Place]_grouping
      PROVE  Inv'
  <2>1. CASE Place
    BY <1>2, <2>1, PlaceKeepsIInv, PlaceKeepsDisjoint
  <2>2. CASE UNCHANGED grouping
    BY <1>2, <2>2, StutterKeepsIInv
       DEF grouping, DisjointInv, WaitingAreNew, GroupsAreDisjoint
  <2> QED BY <1>2, <2>1, <2>2
<1>3. Inv => GroupsAreDisjoint
  BY DEF DisjointInv
<1> QED BY <1>1, <1>2, <1>3, PTL DEF GroupingSpec
=============================================================================
