------------------------ MODULE BraunSSA_phi_proofs ------------------------
(***************************************************************************)
(* The other layers of the invariant of BraunSSA_invariant: the operands   *)
(* of the phis, the definitions of what is read, the phis still to be      *)
(* tried.  With them it is inductive, and the safety properties of the     *)
(* construction follow.                                                    *)
(***************************************************************************)
EXTENDS BraunSSA_proofs, FiniteSetTheorems

-----------------------------------------------------------------------------
(* What a step keeps of the frames                                         *)

(* A fix-up goes on: that it does is a consequence of the later layers.    *)
NoFixupFault == FixupDefinitions => calls' = calls

LEMMA FramesAreTyped ==
  ASSUME InductiveSSA
  PROVE  /\ calls \in Seq(Frame) /\ Frames \subseteq Frame
         /\ calls = <<>> => Frames = {}
         /\ Frames # {} => calls # <<>>
  BY RangeType DEF InductiveSSA, TypeOK, Frames, Range

LEMMA BelowKept ==
  ASSUME InductiveSSA, Shape, [Next]_vars, NoFixupFault, NEW f \in Frames
  PROVE  f \in Frames' \/ (Step /\ f = top) \/ f.at = "finalise"
<1>1. CASE Step
  <2>1. calls \in Seq(Frame) /\ calls # <<>>
    BY <1>1, RunningStep DEF InductiveSSA, TypeOK
  <2>2. Frames = {top} \cup Below
    BY <2>1, ShapeFacts
  <2>3. CASE Below \subseteq Frames'
    BY <1>1, <2>2, <2>3
  <2>4. CASE StartSeal
    <3>1. top.at = "seal"
      BY <2>4, TopFields DEF StartSeal
    <3>2. \A h \in Below : h.at = "finalise"
      BY <2>1, <3>1, ShapeFacts
    <3> QED
      BY <1>1, <2>2, <3>2
  <2>5. CASE FinaliseComplete
    <3>1. top.at = "finalise"
      BY <2>5, TopFields DEF FinaliseComplete
    <3>2. Tail(calls) = <<>>
      BY <2>1, <3>1, ShapeFacts
    <3>3. Below = {}
      BY <3>2 DEF Below, Range
    <3> QED
      BY <1>1, <2>2, <3>3
  <2>6. CASE FixupDefinitions
    BY <2>6 DEF NoFixupFault, Frames
  <2>7. CASE TryUsers
    <3>1. Below \subseteq Frames'
      BY <2>7, TryUsersMoves
    <3> QED
      BY <2>3, <3>1
  <2>8. CASE FinaliseSeal
    <3>1. Below \subseteq Frames'
      BY <2>8, FinaliseSealMoves
    <3> QED
      BY <2>3, <3>1
  <2>9. CASE CollectResult
    <3>1. Below \subseteq Frames'
      BY <2>9, CollectResultMoves
    <3> QED
      BY <2>3, <3>1
  <2>10. CASE \/ ReadSinglePredecessor \/ ReadJoin \/ ReadOperand
              \/ AppendOperand \/ OperandsComplete \/ TryTrivial
              \/ CompletePhi
    <3>1. Below \subseteq Frames'
      BY <2>10, ReadSinglePredecessorMoves, ReadJoinMoves, ReadOperandMoves,
         AppendOperandMoves, OperandsCompleteMoves, TryTrivialMoves,
         CompletePhiMoves
    <3> QED
      BY <2>3, <3>1
  <2> QED
    BY <1>1, <2>3, <2>4, <2>5, <2>6, <2>7, <2>8, <2>9, <2>10, ReturnMoves
    DEF Step
<1>2. CASE Client
  BY <1>2, ClientMoves
<1>3. CASE UNCHANGED vars
  BY <1>3 DEF vars, callVars, Frames
<1> QED
  BY <1>1, <1>2, <1>3 DEF Next

(* Where the frames of reads and of removals come from.                    *)
LEMMA NewReads ==
  ASSUME InductiveSSA, Shape, [Next]_vars, NEW f \in Frames', f.at = "read"
  PROVE  \/ f \in Frames
         \/ /\ ReadSinglePredecessor
            /\ f = ReadFrame(top.var, Head(preds[top.block]))
         \/ ReadOperand /\ f = ReadFrame(VarOf(top.phi), Head(top.todo))
         \/ Client /\ f.block = active
<1>1. CASE Step
  <2>1. calls # <<>> /\ calls \in Seq(Frame)
    BY <1>1, RunningStep DEF InductiveSSA, TypeOK
  <2>2. Below \subseteq Frames
    BY <2>1, ShapeFacts
  <2>3. CASE ReadSinglePredecessor
    BY <2>2, <2>3, ReadSinglePredecessorMoves, FrameKinds
  <2>4. CASE ReadJoin
    BY <2>2, <2>4, ReadJoinMoves, FrameKinds
  <2>5. CASE ReadOperand
    BY <2>2, <2>5, ReadOperandMoves, FrameKinds
  <2>6. CASE AppendOperand
    BY <2>2, <2>6, AppendOperandMoves, FrameKinds
  <2>7. CASE OperandsComplete
    BY <2>2, <2>7, OperandsCompleteMoves, FrameKinds
  <2>8. CASE CollectResult
    BY <2>2, <2>8, CollectResultMoves, FrameKinds
  <2>9. CASE TryTrivial
    BY <2>2, <2>9, TryTrivialMoves, FrameKinds
  <2>10. CASE TryUsers
    <3>1. \A h \in Frames' : h \in Below \/ h.at \in {"try", "users"}
      <4>1. CASE Frames' = Below
        BY <4>1
      <4>2. CASE Frames' # Below
        <5>1. PICK u \in top.users :
                Frames' = {PhiFrame("try", u), UsersFrame(top.users \ {u})}
                          \cup Below
          BY <2>10, <4>2, TryUsersMoves
        <5> QED
          BY <5>1, FrameKinds
      <4> QED
        BY <4>1, <4>2
    <3> QED
      BY <2>2, <3>1
  <2>11. CASE CompletePhi
    BY <2>2, <2>11, CompletePhiMoves, FrameKinds
  <2>12. CASE StartSeal
    BY <2>2, <2>12, StartSealMoves, FrameKinds
  <2>13. CASE FinaliseSeal
    <3>1. PICK b \in top.blocks :
            Frames' = {SealFrame(b), FinaliseFrame(top.blocks \ {b})}
                      \cup Below
      BY <2>13, FinaliseSealMoves
    <3> QED
      BY <2>2, <3>1, FrameKinds
  <2>14. CASE FixupDefinitions
    BY <2>14, FixupDefinitionsMoves DEF Frames
  <2> QED
    BY <1>1, <2>2, <2>3, <2>4, <2>5, <2>6, <2>7, <2>8, <2>9, <2>10, <2>11,
       <2>12, <2>13, <2>14, ReturnMoves, FinaliseCompleteMoves DEF Step
<1>2. CASE Client
  <2>1. f.block = active
    <3>1. CASE \E v \in Var : Frames' \in {{ReadFrame(v, active)},
                                          {ReadFrame(v, active), UseFrame}}
      <4>1. PICK v \in Var : f \in {ReadFrame(v, active), UseFrame}
        BY <3>1
      <4>2. f = ReadFrame(v, active)
        BY <4>1, FrameKinds
      <4> QED
        BY <4>2 DEF ReadFrame
    <3>2. CASE \E b \in Block : Frames' = {SealFrame(b)}
      BY <3>2, FrameKinds
    <3>3. CASE \E bs \in SUBSET Block : Frames' = {FinaliseFrame(bs)}
      BY <3>3, FrameKinds
    <3> QED
      BY <1>2, <3>1, <3>2, <3>3, ClientMoves
  <2> QED
    BY <1>2, <2>1
<1>3. CASE UNCHANGED vars
  BY <1>3 DEF vars, callVars, Frames
<1> QED
  BY <1>1, <1>2, <1>3 DEF Next

LEMMA NewTried ==
  ASSUME InductiveSSA, Shape, [Next]_vars,
         NEW f \in Frames', NEW x, IsTried(f, x)
  PROVE  \/ \E g \in Frames : IsTried(g, x)
         \/ OperandsComplete /\ x = top.phi
         \/ TryTrivial /\ x \in UsersOf(top.phi)
<1> DEFINE Old == \E g \in Frames : IsTried(g, x)
<1>0. f.at \in Tries
  BY DEF IsTried, Tries
<1>1. CASE Step
  <2>1. calls # <<>> /\ calls \in Seq(Frame)
    BY <1>1, RunningStep DEF InductiveSSA, TypeOK
  <2>2. Below \subseteq Frames /\ top \in Frames
    BY <2>1, ShapeFacts
  <2>3. CASE ReadSinglePredecessor
    BY <1>0, <2>2, <2>3, ReadSinglePredecessorMoves, FrameKinds DEF Tries
  <2>4. CASE ReadJoin
    BY <1>0, <2>2, <2>4, ReadJoinMoves, FrameKinds DEF Tries
  <2>5. CASE ReadOperand
    BY <1>0, <2>2, <2>5, ReadOperandMoves, FrameKinds DEF Tries
  <2>6. CASE AppendOperand
    BY <1>0, <2>2, <2>6, AppendOperandMoves, FrameKinds DEF Tries
  <2>7. CASE OperandsComplete
    <3>1. f \in Below \/ f = PhiFrame("try", top.phi)
      BY <1>0, <2>7, OperandsCompleteMoves, FrameKinds DEF Tries
    <3>2. ASSUME f = PhiFrame("try", top.phi) PROVE x = top.phi
      BY <3>2, FrameKinds DEF IsTried
    <3> QED
      BY <2>2, <2>7, <3>1, <3>2
  <2>8. CASE CollectResult
    BY <1>0, <2>2, <2>8, CollectResultMoves, FrameKinds DEF Tries
  <2>9. CASE TryTrivial
    <3>1. f \in Below \/ f = UsersFrame(UsersOf(top.phi))
      BY <1>0, <2>9, TryTrivialMoves
    <3>2. ASSUME f = UsersFrame(UsersOf(top.phi)) PROVE x \in UsersOf(top.phi)
      BY <3>2, FrameKinds DEF IsTried, UsersFrame
    <3> QED
      BY <2>2, <2>9, <3>1, <3>2
  <2>10. CASE TryUsers
    <3>1. top.at = "users"
      BY <2>10, TopFields DEF TryUsers
    <3>2. CASE Frames' = Below
      BY <2>2, <3>2
    <3>3. CASE Frames' # Below
      <4>1. PICK u \in top.users :
              Frames' = {PhiFrame("try", u), UsersFrame(top.users \ {u})}
                        \cup Below
        BY <2>10, <3>3, TryUsersMoves
      <4>2. ASSUME f = PhiFrame("try", u) \/ f = UsersFrame(top.users \ {u})
            PROVE  IsTried(top, x)
        BY <3>1, <4>2, FrameKinds DEF IsTried, UsersFrame
      <4> QED
        BY <2>2, <4>1, <4>2
    <3> QED
      BY <3>2, <3>3
  <2>11. CASE CompletePhi
    BY <1>0, <2>2, <2>11, CompletePhiMoves, FrameKinds DEF Tries
  <2>12. CASE StartSeal
    BY <1>0, <2>2, <2>12, StartSealMoves, FrameKinds DEF Tries
  <2>13. CASE FinaliseSeal
    <3>1. PICK b \in top.blocks :
            Frames' = {SealFrame(b), FinaliseFrame(top.blocks \ {b})}
                      \cup Below
      BY <2>13, FinaliseSealMoves
    <3> QED
      BY <1>0, <2>2, <3>1, FrameKinds DEF Tries
  <2>14. CASE FixupDefinitions
    BY <2>14, FixupDefinitionsMoves DEF Frames
  <2> QED
    BY <1>1, <2>2, <2>3, <2>4, <2>5, <2>6, <2>7, <2>8, <2>9, <2>10, <2>11,
       <2>12, <2>13, <2>14, ReturnMoves, FinaliseCompleteMoves DEF Step
<1>2. CASE Client
  <2>1. f.at \in {"read", "use", "seal", "finalise"}
    <3>1. CASE \E v \in Var : Frames' \in {{ReadFrame(v, active)},
                                          {ReadFrame(v, active), UseFrame}}
      BY <3>1, FrameKinds
    <3>2. CASE \E b \in Block : Frames' = {SealFrame(b)}
      BY <3>2, FrameKinds
    <3>3. CASE \E bs \in SUBSET Block : Frames' = {FinaliseFrame(bs)}
      BY <3>3, FrameKinds
    <3> QED
      BY <1>2, <3>1, <3>2, <3>3, ClientMoves
  <2> QED
    BY <1>0, <2>1 DEF Tries
<1>3. CASE UNCHANGED vars
  BY <1>3 DEF vars, callVars, Frames
<1> QED
  BY <1>1, <1>2, <1>3 DEF Next

-----------------------------------------------------------------------------
(* The phis and their operands                                             *)

LEMMA DistinctAppend ==
  ASSUME NEW S, NEW s \in Seq(S), NEW x \in S, Distinct(s), x \notin Range(s)
  PROVE  Distinct(Append(s, x))
<1>1. /\ DOMAIN Append(s, x) = 1..(Len(s) + 1)
      /\ DOMAIN s = 1..Len(s) /\ Len(s) \in Nat
      /\ \A i \in 1..Len(s) : Append(s, x)[i] = s[i]
      /\ Append(s, x)[Len(s) + 1] = x
  OBVIOUS
<1>2. \A i \in 1..Len(s) : s[i] # x
  BY <1>1 DEF Range
<1>3. ASSUME NEW i \in 1..(Len(s) + 1), NEW j \in 1..(Len(s) + 1),
             Append(s, x)[i] = Append(s, x)[j]
      PROVE  i = j
  <2>1. CASE i \in 1..Len(s) /\ j \in 1..Len(s)
    BY <1>1, <1>3, <2>1 DEF Distinct
  <2>2. CASE i \in 1..Len(s) /\ j = Len(s) + 1
    BY <1>1, <1>2, <1>3, <2>2
  <2>3. CASE i = Len(s) + 1 /\ j \in 1..Len(s)
    BY <1>1, <1>2, <1>3, <2>3
  <2>4. CASE i = Len(s) + 1 /\ j = Len(s) + 1
    BY <2>4
  <2> QED
    BY <1>1, <2>1, <2>2, <2>3, <2>4
<1> QED
  BY <1>1, <1>3 DEF Distinct

LEMMA DistinctTail ==
  ASSUME NEW S, NEW s \in Seq(S), s # <<>>, Distinct(s)
  PROVE  Distinct(Tail(s)) /\ Head(s) \notin Range(Tail(s))
<1>1. /\ DOMAIN s = 1..Len(s) /\ Len(s) \in Nat \ {0}
      /\ DOMAIN Tail(s) = 1..(Len(s) - 1)
      /\ \A i \in 1..(Len(s) - 1) : Tail(s)[i] = s[i + 1]
      /\ Head(s) = s[1]
  OBVIOUS
<1>2. ASSUME NEW i \in 1..(Len(s) - 1), NEW j \in 1..(Len(s) - 1),
             Tail(s)[i] = Tail(s)[j]
      PROVE  i = j
  <2>1. s[i + 1] = s[j + 1] /\ i + 1 \in DOMAIN s /\ j + 1 \in DOMAIN s
    BY <1>1, <1>2
  <2>2. i + 1 = j + 1
    BY <2>1 DEF Distinct
  <2> QED
    BY <2>2
<1>3. ASSUME Head(s) \in Range(Tail(s)) PROVE FALSE
  <2>1. PICK i \in 1..(Len(s) - 1) : Head(s) = Tail(s)[i]
    BY <1>1, <1>3 DEF Range
  <2>2. s[1] = s[i + 1] /\ 1 \in DOMAIN s /\ i + 1 \in DOMAIN s
    BY <1>1, <2>1
  <2>3. 1 = i + 1
    BY <2>2 DEF Distinct
  <2> QED
    BY <2>3
<1> QED
  BY <1>1, <1>2, <1>3 DEF Distinct

LEMMA BlocksGrow ==
  ASSUME InductiveSSA, [Next]_vars
  PROVE  Range(blocks) \subseteq Range(blocks')
<1>1. CASE blocks' = blocks
  BY <1>1
<1>2. ASSUME NEW b \in Block, Activate(b) \/ ActivateOpen(b)
      PROVE  Range(blocks) \subseteq Range(blocks')
  <2>1. blocks' = blocks \/ blocks' = Append(blocks, b)
    BY <1>2 DEF Activate, ActivateOpen, ActivateThen
  <2>2. Range(Append(blocks, b)) = Range(blocks) \cup {b}
    BY AppendRange DEF InductiveSSA, TypeOK
  <2> QED
    BY <2>1, <2>2
<1> QED
  BY <1>1, <1>2, Changes

LEMMA ActiveIsActivated ==
  ASSUME InductiveSSA
  PROVE  active \in Range(blocks)
<1>1. blocks \in Seq(Block) /\ blocks # <<>>
  BY DEF InductiveSSA, TypeOK
<1>2. Len(blocks) \in DOMAIN blocks
  BY <1>1
<1> QED
  BY <1>2 DEF active, Range

LEMMA PredecessorsActivatedNext ==
  ASSUME InductiveSSA, Shape, PredecessorsActivated, FillingOK, [Next]_vars
  PROVE  PredecessorsActivated'
<1>1. Range(blocks) \subseteq Range(blocks')
  BY BlocksGrow
<1>2. preds \in [Block -> Seq(Block)] /\ active \in Block
  BY QueryTypes DEF InductiveSSA, TypeOK
<1>3. ASSUME NEW b \in Block
      PROVE  Distinct(preds'[b]) /\ Range(preds'[b]) \subseteq Range(blocks')
  <2>1. CASE preds' = preds
    BY <1>1, <2>1 DEF PredecessorsActivated
  <2>2. ASSUME NEW ts \in SUBSET Block, Terminate(ts), preds' # preds
        PROVE  /\ Distinct(preds'[b])
               /\ Range(preds'[b]) \subseteq Range(blocks')
    <3>1. /\ blocks' = blocks
          /\ preds' = [c \in Block |-> IF c \in ts THEN AddPred(preds[c], active)
                                                   ELSE preds[c]]
      BY <2>2 DEF Terminate
    <3>2. preds[b] \in Seq(Block)
      BY <1>2
    <3>3. CASE preds'[b] = preds[b]
      BY <3>1, <3>3 DEF PredecessorsActivated
    <3>4. CASE preds'[b] = Append(preds[b], active)
               /\ active \notin Range(preds[b])
      <4>1. Range(preds'[b]) = Range(preds[b]) \cup {active}
        BY <1>2, <3>2, <3>4, AppendRange
      <4>2. Distinct(preds'[b])
        BY <1>2, <3>2, <3>4, DistinctAppend DEF PredecessorsActivated
      <4> QED
        BY <3>1, <4>1, <4>2, ActiveIsActivated DEF PredecessorsActivated
    <3> QED
      BY <3>1, <3>3, <3>4 DEF AddPred
  <2> QED
    BY <2>1, <2>2, Changes
<1>4. ASSUME NEW f \in Frames', f.at = "read"
      PROVE  f.block \in Range(blocks')
  <2>1. CASE f \in Frames
    BY <1>1, <1>4, <2>1 DEF PredecessorsActivated
  <2>2. CASE ReadSinglePredecessor
             /\ f = ReadFrame(top.var, Head(preds[top.block]))
    <3>1. top.block \in Block /\ f.block \in Range(preds[top.block])
      BY <2>2, ReadSinglePredecessorMoves, TopFields
      DEF ReadFrame, ReadSinglePredecessor, Missing, Reading
    <3> QED
      BY <1>1, <3>1 DEF PredecessorsActivated
  <2>3. CASE ReadOperand /\ f = ReadFrame(VarOf(top.phi), Head(top.todo))
    <3>1. /\ calls # <<>> /\ top.at = "operands" /\ top.todo \in Seq(Block)
          /\ top.todo # <<>> /\ top.block \in Block /\ calls \in Seq(Frame)
      BY <2>3, TopFields DEF ReadOperand
    <3>2. f.block \in Range(top.todo) /\ top \in Frames
      BY <2>3, <3>1, TailRange, ShapeFacts DEF ReadFrame
    <3>3. f.block \in Range(preds[top.block])
      BY <3>1, <3>2 DEF FillingOK, Gathers
    <3> QED
      BY <1>1, <3>1, <3>3 DEF PredecessorsActivated
  <2>4. CASE f.block = active
    BY <1>1, <2>4, ActiveIsActivated
  <2> QED
    BY <1>4, <2>1, <2>2, <2>3, <2>4, NewReads
<1> QED
  BY <1>3, <1>4 DEF PredecessorsActivated

(* A register that is about to be created is not in use yet.               *)
LEMMA NewPhiIsFresh ==
  ASSUME InductiveSSA, Issued, NEW v \in Var
  PROVE  LET p == NewRegister(v)
         IN /\ ~IsWaiting(p) /\ ~IsFilling(p) /\ p \notin DefinedRegs
            /\ \A a \in phiArgs : a.phi # p /\ a.value # p
            /\ \A b \in Block : p \notin Range(incomplete[b])
            /\ Through(p) = {}
<1> DEFINE p == NewRegister(v)
<1>1. versions[v] \in Nat /\ VarOf(p) = v /\ VersionOf(p) = versions[v]
  BY DEF InductiveSSA, TypeOK, NewRegister, VarOf, VersionOf
<1>2. ~IsIssued(p, versions)
  BY <1>1 DEF IsIssued
<1>3. p \notin DefinedRegs
  BY <1>1 DEF InductiveSSA, VersionsIssued
<1>4. \A a \in phiArgs : a.phi # p /\ a.value # p
  BY <1>2 DEF Issued
<1>5. \A b \in Block : p \notin Range(incomplete[b])
  BY <1>2 DEF Issued
<1>6. \A f \in Frames : f.at = "sealing" => p \notin Range(f.todo)
  BY <1>2 DEF Issued
<1>7. \A f \in Frames : f.at \in Gathers => f.phi # p
  BY <1>2 DEF Issued, Marks
<1>8. Through(p) = {}
  BY <1>4 DEF Through
<1> HIDE DEF p
<1>9. ~IsWaiting(p)
  BY <1>5, <1>6 DEF IsWaiting
<1>10. ~IsFilling(p)
  BY <1>7 DEF IsFilling
<1> QED
  BY <1>3, <1>4, <1>5, <1>8, <1>9, <1>10 DEF p

(* Which phis wait after a step.                                           *)
LEMMA WaitingBefore ==
  ASSUME InductiveSSA, Shape, [Next]_vars, NEW x, IsWaiting(x)'
  PROVE  IsWaiting(x) \/ (ReadUnsealed /\ x = NewRegister(top.var))
<1>1. incomplete \in [Block -> Seq(Reg)]
  BY DEF InductiveSSA, TypeOK
<1>2. ASSUME NEW b \in Block, x \in Range(incomplete'[b])
      PROVE  IsWaiting(x) \/ (ReadUnsealed /\ x = NewRegister(top.var))
  <2>1. CASE ReadUnsealed
    <3>1. incomplete' = [incomplete EXCEPT ![top.block] =
                           Append(@, NewRegister(top.var))]
      BY <2>1 DEF ReadUnsealed
    <3>2. NewRegister(top.var) \in Reg /\ top.block \in Block
      BY <2>1, TopFields, QueryTypes
      DEF InductiveSSA, ReadUnsealed, Missing, Found, Reading
    <3>3. x \in Range(incomplete[b]) \cup {NewRegister(top.var)}
      <4>1. CASE b = top.block
        <5>1. incomplete'[b] = Append(incomplete[b], NewRegister(top.var))
          BY <1>1, <3>1, <4>1
        <5>2. incomplete[b] \in Seq(Reg)
          BY <1>1
        <5>3. Range(incomplete'[b])
                = Range(incomplete[b]) \cup {NewRegister(top.var)}
          BY <3>2, <5>1, <5>2, AppendRange
        <5> QED
          BY <1>2, <5>3
      <4>2. CASE b # top.block
        BY <1>1, <1>2, <3>1, <4>2
      <4> QED
        BY <4>1, <4>2
    <3> QED
      BY <2>1, <3>3 DEF IsWaiting
  <2>2. CASE StartSeal
    <3>1. incomplete'[b] = incomplete[b] \/ incomplete'[b] = <<>>
      BY <1>1, <2>2, StartSealMoves
    <3>2. x \in Range(incomplete[b])
      BY <1>2, <3>1 DEF Range
    <3> QED
      BY <3>2 DEF IsWaiting
  <2>3. CASE incomplete' = incomplete
    BY <1>2, <2>3 DEF IsWaiting
  <2> QED
    BY <2>1, <2>2, <2>3, Changes
<1>3. ASSUME NEW f \in Frames', f.at = "sealing", x \in Range(f.todo)
      PROVE  IsWaiting(x)
  <2>1. CASE f \in Frames
    BY <1>3, <2>1 DEF IsWaiting
  <2>2. CASE CompletePhi /\ f = SealingFrame(top.block, Tail(top.todo))
    <3>1. /\ calls # <<>> /\ top.at = "sealing" /\ top.todo \in Seq(Reg)
          /\ top.todo # <<>> /\ calls \in Seq(Frame)
      BY <2>2, TopFields DEF CompletePhi
    <3>2. x \in Range(top.todo) /\ top \in Frames
      BY <1>3, <2>2, <3>1, TailRange, ShapeFacts DEF SealingFrame
    <3> QED
      BY <3>1, <3>2 DEF IsWaiting
  <2>3. CASE StartSeal /\ f = SealingFrame(top.block, incomplete[top.block])
    <3>1. top.block \in Block
      BY <2>3, TopFields DEF StartSeal
    <3> QED
      BY <1>3, <2>3, <3>1 DEF IsWaiting, SealingFrame
  <2> QED
    BY <1>3, <2>1, <2>2, <2>3, NewFrames, FrameKinds
<1>4. \/ \E b \in Block : x \in Range(incomplete'[b])
      \/ \E f \in Frames' : f.at = "sealing" /\ x \in Range(f.todo)
  BY DEF IsWaiting
<1> QED
  BY <1>2, <1>3, <1>4

(* What runs, by the frame on top.                                         *)
LEMMA StepOf ==
  ASSUME Step
  PROVE  /\ top.at = "read" => ReadLocal \/ ReadUnsealed
                               \/ ReadSinglePredecessor \/ ReadJoin
         /\ top.at = "operands" => ReadOperand \/ OperandsComplete
         /\ top.at = "operand" => AppendOperand
         /\ top.at = "sealing" => CompletePhi \/ SealComplete
         /\ top.at = "try" => TryUndefined \/ TryNotTrivial \/ TryTrivial
         /\ top.at = "users" => TryUsers
         /\ top.at = "result" => CollectResult
         /\ top.at = "fixup" => FixupDefinitions \/ FixupComplete
         /\ top.at = "write" => WriteBack
         /\ top.at = "use" => AddUse
         /\ top.at = "seal" => StartSeal
         /\ top.at = "finalise" => FinaliseSeal \/ FinaliseComplete
<1>1. /\ ReadLocal \/ ReadUnsealed \/ ReadSinglePredecessor \/ ReadJoin
           => top.at = "read"
      /\ WriteBack => top.at = "write"
      /\ ReadOperand \/ OperandsComplete => top.at = "operands"
      /\ AppendOperand => top.at = "operand"
      /\ CollectResult => top.at = "result"
      /\ FixupDefinitions \/ FixupComplete => top.at = "fixup"
      /\ TryUndefined \/ TryNotTrivial \/ TryTrivial => top.at = "try"
      /\ TryUsers => top.at = "users"
      /\ StartSeal => top.at = "seal"
      /\ CompletePhi \/ SealComplete => top.at = "sealing"
      /\ AddUse => top.at = "use"
      /\ FinaliseSeal \/ FinaliseComplete => top.at = "finalise"
  BY DEF ReadLocal, ReadUnsealed, ReadSinglePredecessor, ReadJoin, WriteBack,
         ReadOperand, AppendOperand, OperandsComplete, CollectResult,
         FixupDefinitions, FixupComplete, TryUndefined, TryNotTrivial,
         TryTrivial, TryUsers, StartSeal, CompletePhi, SealComplete, AddUse,
         FinaliseSeal, FinaliseComplete, Missing, Reading, Running, top
<1> QED
  BY <1>1 DEF Step

LEMMA WaitingAfter ==
  ASSUME InductiveSSA, Shape, [Next]_vars, NoFixupFault, NEW x, IsWaiting(x)
  PROVE  IsWaiting(x)' \/ (CompletePhi /\ x = Head(top.todo))
<1>1. incomplete \in [Block -> Seq(Reg)]
  BY DEF InductiveSSA, TypeOK
<1>2. ASSUME NEW b \in Block, x \in Range(incomplete[b])
      PROVE  IsWaiting(x)'
  <2>1. CASE ReadUnsealed
    <3>1. incomplete' = [incomplete EXCEPT ![top.block] =
                           Append(@, NewRegister(top.var))]
      BY <2>1 DEF ReadUnsealed
    <3>2. NewRegister(top.var) \in Reg /\ top.block \in Block
      BY <2>1, TopFields, QueryTypes
      DEF InductiveSSA, ReadUnsealed, Missing, Found, Reading
    <3>3. x \in Range(incomplete'[b])
      <4>1. CASE b = top.block
        <5>1. incomplete'[b] = Append(incomplete[b], NewRegister(top.var))
          BY <1>1, <3>1, <4>1
        <5>2. incomplete[b] \in Seq(Reg)
          BY <1>1
        <5>3. Range(incomplete'[b])
                = Range(incomplete[b]) \cup {NewRegister(top.var)}
          BY <3>2, <5>1, <5>2, AppendRange
        <5> QED
          BY <1>2, <5>3
      <4>2. CASE b # top.block
        BY <1>1, <1>2, <3>1, <4>2
      <4> QED
        BY <4>1, <4>2
    <3> QED
      BY <3>3 DEF IsWaiting
  <2>2. CASE StartSeal
    <3>1. CASE incomplete' = incomplete
      BY <1>2, <3>1 DEF IsWaiting
    <3>2. CASE incomplete' # incomplete
      <4> DEFINE f == SealingFrame(top.block, incomplete[top.block])
      <4>1. /\ f \in Frames'
            /\ incomplete' = [incomplete EXCEPT ![top.block] = <<>>]
        BY <2>2, <3>2, StartSealMoves
      <4>2. f.at = "sealing" /\ f.todo = incomplete[top.block]
        BY DEF SealingFrame
      <4>3. CASE b = top.block
        <5> HIDE DEF f
        <5> QED
          BY <1>2, <4>1, <4>2, <4>3 DEF IsWaiting
      <4>4. CASE b # top.block
        <5>1. incomplete'[b] = incomplete[b]
          BY <1>1, <4>1, <4>4
        <5> QED
          BY <1>2, <5>1 DEF IsWaiting
      <4> QED
        BY <4>3, <4>4
    <3> QED
      BY <3>1, <3>2
  <2>3. CASE incomplete' = incomplete
    BY <1>2, <2>3 DEF IsWaiting
  <2> QED
    BY <2>1, <2>2, <2>3, Changes
<1>3. ASSUME NEW f \in Frames, f.at = "sealing", x \in Range(f.todo)
      PROVE  IsWaiting(x)' \/ (CompletePhi /\ x = Head(top.todo))
  <2>1. CASE f \in Frames'
    BY <1>3, <2>1 DEF IsWaiting
  <2>2. CASE f = top /\ CompletePhi
    <3> DEFINE g == SealingFrame(top.block, Tail(top.todo))
    <3>1. top.todo \in Seq(Reg) /\ top.todo # <<>>
      BY <2>2, TopFields DEF CompletePhi
    <3>2. x = Head(top.todo) \/ x \in Range(Tail(top.todo))
      BY <1>3, <2>2, <3>1, TailRange
    <3>3. g \in Frames'
      BY <2>2, CompletePhiMoves
    <3>4. g.at = "sealing" /\ g.todo = Tail(top.todo)
      BY DEF SealingFrame
    <3> HIDE DEF g
    <3> QED
      BY <2>2, <3>2, <3>3, <3>4 DEF IsWaiting
  <2>3. CASE f = top /\ SealComplete
    BY <1>3, <2>3 DEF SealComplete, Range
  <2> QED
    BY <1>3, <2>1, <2>2, <2>3, BelowKept, StepOf
<1> QED
  BY <1>2, <1>3 DEF IsWaiting

LEMMA FillingAfter ==
  ASSUME InductiveSSA, Shape, [Next]_vars, NoFixupFault, NEW x, IsFilling(x)
  PROVE  IsFilling(x)' \/ (OperandsComplete /\ x = top.phi)
<1>1. PICK f \in Frames : f.at \in Gathers /\ f.phi = x
  BY DEF IsFilling
<1>2. CASE f \in Frames'
  BY <1>1, <1>2 DEF IsFilling
<1>3. CASE f = top /\ ReadOperand
  <2> DEFINE g == OperandFrame(top.phi, top.block, top.todo)
  <2>1. g \in Frames'
    BY <1>3, ReadOperandMoves
  <2>2. g.at \in Gathers /\ g.phi = x
    BY <1>1, <1>3 DEF OperandFrame, Gathers
  <2> HIDE DEF g
  <2> QED
    BY <2>1, <2>2 DEF IsFilling
<1>4. CASE f = top /\ AppendOperand
  <2> DEFINE g == OperandsFrame(top.phi, top.block, Tail(top.todo))
  <2>1. g \in Frames'
    BY <1>4, AppendOperandMoves
  <2>2. g.at \in Gathers /\ g.phi = x
    BY <1>1, <1>4 DEF OperandsFrame, Gathers
  <2> HIDE DEF g
  <2> QED
    BY <2>1, <2>2 DEF IsFilling
<1>5. f.at # "finalise"
  BY <1>1 DEF Gathers
<1> QED
  BY <1>1, <1>2, <1>3, <1>4, <1>5, BelowKept, StepOf DEF Gathers

LEMMA InThrough ==
  \A p, b : b \in Through(p) <=>
              \E a \in phiArgs : a.phi = p /\ a.through = b
<1> SUFFICES ASSUME NEW p, NEW b
             PROVE  b \in Through(p) <=>
                      \E a \in phiArgs : a.phi = p /\ a.through = b
  OBVIOUS
<1> DEFINE S == {x \in phiArgs : x.phi = p}
<1>1. \A a : a \in S <=> a \in phiArgs /\ a.phi = p
  OBVIOUS
<1>2. Through(p) = {a.through : a \in S}
  BY DEF Through
<1> HIDE DEF S
<1> QED
  BY <1>1, <1>2

LEMMA InThroughNext ==
  \A p, b : b \in Through(p)' <=>
              \E a \in phiArgs' : a.phi = p /\ a.through = b
<1>1. (\A p, b : b \in Through(p) <=>
                  \E a \in phiArgs : a.phi = p /\ a.through = b)'
  BY InThrough, PTL
<1> QED
  BY <1>1

LEMMA InNonSelfArgs ==
  \A p, x : x \in NonSelfArgs(p) <=>
              x # p /\ \E a \in phiArgs : a.phi = p /\ a.value = x
<1> SUFFICES ASSUME NEW p, NEW x
             PROVE  x \in NonSelfArgs(p) <=>
                      x # p /\ \E a \in phiArgs : a.phi = p /\ a.value = x
  OBVIOUS
<1> DEFINE S == {c \in phiArgs : c.phi = p}
<1>1. \A a : a \in S <=> a \in phiArgs /\ a.phi = p
  OBVIOUS
<1>2. NonSelfArgs(p) = {a.value : a \in S} \ {p}
  BY DEF NonSelfArgs
<1> HIDE DEF S
<1> QED
  BY <1>1, <1>2

(* What a replacement does to one argument.                                *)
Renamed(a, p, by) ==
  IF a.phi \in PhiRegs \ {p} THEN [a EXCEPT !.value = Replace(@, p, by)]
                             ELSE a

LEMMA RenamedFields ==
  ASSUME NEW a \in PhiArg, NEW p, NEW by
  PROVE  /\ Renamed(a, p, by).phi = a.phi
         /\ Renamed(a, p, by).through = a.through
         /\ a.phi \in PhiRegs \ {p} =>
              Renamed(a, p, by).value = Replace(a.value, p, by)
         /\ a.phi \notin PhiRegs \ {p} => Renamed(a, p, by).value = a.value
  BY DEF PhiArg, Renamed

LEMMA TryTrivialArgs ==
  ASSUME InductiveSSA, Shape, TryTrivial
  PROVE  \E by \in Reg :
           /\ by \in NonSelfArgs(top.phi) /\ NonSelfArgs(top.phi) = {by}
           /\ phis' = {q \in phis : q[2] # top.phi}
           /\ phiArgs' = {Renamed(a, top.phi, by) : a \in phiArgs}
           /\ removals' = Append(removals, [phi |-> top.phi, by |-> by])
           /\ removals' \in Seq(Removal)
           /\ ReplaceInOps(top.phi, by)
<1>1. top.phi \in Reg
  BY TopFields DEF TryTrivial
<1>2. PICK by \in NonSelfArgs(top.phi) :
        /\ NonSelfArgs(top.phi) = {by}
        /\ ReplacePhi(top.phi, by)
        /\ removals' = Append(removals, [phi |-> top.phi, by |-> by])
  BY DEF TryTrivial
<1>3. by \in Reg
  BY <1>1, QueryTypes DEF InductiveSSA
<1>4. removals' \in Seq(Removal)
  BY <1>1, <1>2, <1>3 DEF InductiveSSA, TypeOK, Removal
<1> QED
  BY <1>2, <1>3, <1>4 DEF ReplacePhi, Renamed

LEMMA ThroughNext ==
  ASSUME InductiveSSA, Shape, [Next]_vars, NEW p
  PROVE  \/ Through(p)' = Through(p)
         \/ /\ AppendOperand /\ p = top.phi
            /\ Through(p)' = Through(p) \cup {Head(top.todo)}
<1>0. phiArgs \subseteq PhiArg
  BY DEF InductiveSSA, TypeOK
<1>1. \A b : b \in Through(p)' <=>
               \E a \in phiArgs' : a.phi = p /\ a.through = b
  BY InThroughNext
<1>2. CASE phiArgs' = phiArgs
  BY <1>2 DEF Through
<1>3. CASE AppendOperand
  <2> DEFINE n == [phi |-> top.phi, through |-> Head(top.todo), value |-> ret]
  <2>1. phiArgs' = phiArgs \cup {n}
    BY <1>3 DEF AppendOperand
  <2>2. n.phi = top.phi /\ n.through = Head(top.todo)
    OBVIOUS
  <2> HIDE DEF n
  <2>3. \A b : b \in Through(p)' <=>
                 b \in Through(p) \/ (p = top.phi /\ b = Head(top.todo))
    BY <1>1, <2>1, <2>2, InThrough
  <2>4. CASE p = top.phi
    BY <1>3, <2>3, <2>4
  <2>5. CASE p # top.phi
    BY <2>3, <2>5
  <2> QED
    BY <2>4, <2>5
<1>4. CASE TryTrivial
  <2>1. PICK by \in Reg :
          phiArgs' = {Renamed(a, top.phi, by) : a \in phiArgs}
    BY <1>4, TryTrivialArgs
  <2>2. \A a \in phiArgs : /\ Renamed(a, top.phi, by).phi = a.phi
                           /\ Renamed(a, top.phi, by).through = a.through
    BY <1>0, RenamedFields
  <2>3. \A b : b \in Through(p)' <=> b \in Through(p)
    BY <1>1, <2>1, <2>2, InThrough
  <2> QED
    BY <2>3
<1> QED
  BY <1>2, <1>3, <1>4, Changes

LEMMA ArgsNext ==
  ASSUME InductiveSSA, Shape, [Next]_vars, NEW a \in phiArgs'
  PROVE  \/ \E c \in phiArgs : c.phi = a.phi /\ c.through = a.through
         \/ AppendOperand /\ a.phi = top.phi /\ a.through = Head(top.todo)
<1>0. phiArgs \subseteq PhiArg
  BY DEF InductiveSSA, TypeOK
<1>1. CASE phiArgs' = phiArgs
  BY <1>1
<1>2. CASE AppendOperand
  BY <1>2 DEF AppendOperand
<1>3. CASE TryTrivial
  <2>1. PICK by \in Reg :
          phiArgs' = {Renamed(c, top.phi, by) : c \in phiArgs}
    BY <1>3, TryTrivialArgs
  <2>2. PICK c \in phiArgs : a = Renamed(c, top.phi, by)
    BY <2>1
  <2> QED
    BY <1>0, <2>2, RenamedFields
<1> QED
  BY <1>1, <1>2, <1>3, Changes

LEMMA PhisNext ==
  ASSUME InductiveSSA, Shape, [Next]_vars
  PROVE  /\ \A p \in phis : p \in phis' \/ (TryTrivial /\ p[2] = top.phi)
         /\ \A p \in phis' :
              \/ p \in phis
              \/ /\ ReadUnsealed \/ ReadJoin
                 /\ p = <<top.block, NewRegister(top.var)>>
         /\ TryTrivial => \A p \in phis' : p[2] # top.phi
         /\ ReadUnsealed \/ ReadJoin =>
              <<top.block, NewRegister(top.var)>> \in phis'
<1>1. CASE phis' = phis /\ ~TryTrivial /\ ~ReadUnsealed /\ ~ReadJoin
  BY <1>1
<1>2. CASE ReadUnsealed \/ ReadJoin
  <2>1. ~TryTrivial
    BY <1>2 DEF ReadUnsealed, ReadJoin, Missing, Reading, TryTrivial, Running
  <2>2. phis' = phis \cup {<<top.block, NewRegister(top.var)>>}
    BY <1>2 DEF ReadUnsealed, ReadJoin, NewPhi
  <2> QED
    BY <1>2, <2>1, <2>2
<1>3. CASE TryTrivial
  <2>1. ~ReadUnsealed /\ ~ReadJoin
    BY <1>3 DEF ReadUnsealed, ReadJoin, Missing, Reading, TryTrivial, Running
  <2>2. phis' = {q \in phis : q[2] # top.phi}
    BY <1>3, TryTrivialArgs
  <2> QED
    BY <1>3, <2>1, <2>2
<1> QED
  BY <1>1, <1>2, <1>3, Changes

(* No phi that is removed waits or is being filled.                        *)
LEMMA TriedIsFree ==
  ASSUME InductiveSSA, Shape, InnerIsYounger, TriedAreYoung, WaitingOK,
         TryTrivial
  PROVE  /\ top.phi \in Reg /\ ~IsWaiting(top.phi) /\ ~IsFilling(top.phi)
         /\ top \in Frames /\ IsTried(top, top.phi)
<1>1. calls \in Seq(Frame) /\ calls # <<>> /\ top.at = "try" /\ top.phi \in Reg
  BY TopFields DEF TryTrivial
<1>2. top \in Frames /\ IsTried(top, top.phi)
  BY <1>1, ShapeFacts DEF IsTried
<1>3. ~IsWaiting(top.phi)
  BY <1>1, <1>2 DEF WaitingOK
<1>4. ~IsFilling(top.phi)
  BY <1>1, <1>2, TriedNotFilling DEF IsFilling
<1> QED
  BY <1>1, <1>2, <1>3, <1>4

LEMMA WaitingOKNext ==
  ASSUME InductiveSSA, Shape, Webs, InnerIsYounger, TriedAreYoung,
         Operands, [Next]_vars, NoFixupFault
  PROVE  WaitingOK'
<1>1. /\ incomplete \in [Block -> Seq(Reg)]
      /\ calls \in Seq(Frame) /\ Frames \subseteq Frame
  BY FramesAreTyped DEF InductiveSSA, TypeOK
<1>2. Range(blocks) \subseteq Range(blocks')
  BY BlocksGrow
<1>3. WaitingOK /\ FillingOK /\ Issued
  BY DEF Operands, Webs
<1>4. ASSUME ReadUnsealed
      PROVE  /\ top.var \in Var /\ top.block \in Block /\ calls # <<>>
             /\ top.at = "read"
             /\ NewRegister(top.var) \in Reg
             /\ top.block \notin sealed /\ top.block \in Range(blocks)
             /\ incomplete' = [incomplete EXCEPT ![top.block] =
                                 Append(@, NewRegister(top.var))]
             /\ sealed' = sealed /\ blocks' = blocks
             /\ \A b \in Block :
                  NewRegister(top.var) \notin Range(incomplete[b])
             /\ \A a \in phiArgs : a.phi # NewRegister(top.var)
             /\ Frames' = Below
  <2>1. /\ top.var \in Var /\ top.block \in Block /\ calls # <<>>
        /\ top.at = "read"
    BY <1>4, TopFields DEF ReadUnsealed, Missing, Reading
  <2>2. NewRegister(top.var) \in Reg
    BY <2>1, QueryTypes DEF InductiveSSA
  <2>3. top \in Frames
    BY <1>1, <2>1, ShapeFacts
  <2>4. top.block \in Range(blocks)
    BY <2>1, <2>3 DEF Operands, PredecessorsActivated
  <2>5. /\ \A b \in Block : NewRegister(top.var) \notin Range(incomplete[b])
        /\ \A a \in phiArgs : a.phi # NewRegister(top.var)
    BY <1>3, <2>1, NewPhiIsFresh
  <2>6. Frames' = Below
    BY <1>4, ReturnMoves
  <2> QED
    BY <1>4, <2>1, <2>2, <2>4, <2>5, <2>6 DEF ReadUnsealed, cfgVars
<1>5. ASSUME NEW b \in Block, NEW x \in Reg, IsWaiting(x), <<b, x>> \in phis
      PROVE  <<b, x>> \in phis'
  <2>1. ASSUME TryTrivial PROVE x # top.phi
    BY <1>3, <1>5, <2>1, TriedIsFree
  <2> QED
    BY <1>5, <2>1, PhisNext
<1>6. ASSUME NEW b \in Block
      PROVE  /\ Distinct(incomplete'[b])
             /\ \A x \in Range(incomplete'[b]) : <<b, x>> \in phis'
             /\ incomplete'[b] # <<>> =>
                  b \notin sealed' /\ b \in Range(blocks')
  <2>0. incomplete[b] \in Seq(Reg)
    BY <1>1
  <2>1. \A x \in Range(incomplete[b]) : <<b, x>> \in phis'
    <3>1. ASSUME NEW x \in Range(incomplete[b]) PROVE <<b, x>> \in phis'
      <4>1. x \in Reg /\ IsWaiting(x) /\ <<b, x>> \in phis
        BY <1>3, <2>0, RangeType DEF WaitingOK, IsWaiting
      <4> QED
        BY <1>5, <4>1
    <3> QED
      BY <3>1
  <2>2. CASE ReadUnsealed /\ b = top.block
    <3> DEFINE p == NewRegister(top.var)
    <3>1. incomplete'[b] = Append(incomplete[b], p) /\ p \in Reg
          /\ p \notin Range(incomplete[b])
      BY <1>1, <1>4, <2>2
    <3>2. <<b, p>> \in phis'
      BY <2>2, PhisNext
    <3> HIDE DEF p
    <3>3. Range(incomplete'[b]) = Range(incomplete[b]) \cup {p}
      BY <2>0, <3>1, AppendRange
    <3>4. Distinct(incomplete'[b])
      BY <1>3, <2>0, <3>1, DistinctAppend DEF WaitingOK
    <3> QED
      BY <1>4, <2>1, <2>2, <3>2, <3>3, <3>4
  <2>3. CASE ReadUnsealed /\ b # top.block
    <3>1. incomplete'[b] = incomplete[b]
      BY <1>1, <1>4, <2>3
    <3> QED
      BY <1>3, <1>4, <2>1, <2>3, <3>1 DEF WaitingOK
  <2>4. CASE StartSeal
    <3>1. incomplete'[b] = incomplete[b] \/ incomplete'[b] = <<>>
      BY <1>1, <2>4, StartSealMoves
    <3>2. sealed' = sealed /\ blocks' = blocks
      BY <2>4 DEF StartSeal, cfgVars
    <3>3. CASE incomplete'[b] = incomplete[b]
      BY <1>3, <2>1, <3>2, <3>3 DEF WaitingOK
    <3>4. CASE incomplete'[b] = <<>>
      BY <3>4 DEF Distinct, Range
    <3> QED
      BY <3>1, <3>3, <3>4
  <2>5. CASE incomplete' = incomplete
    <3>1. b \notin sealed' \/ incomplete'[b] = <<>>
      <4>1. CASE SealComplete
        <5>1. /\ calls # <<>> /\ top.at = "sealing"
              /\ sealed' = sealed \cup {top.block}
          BY <4>1, TopFields DEF SealComplete
        <5>2. top \in Frames
          BY <1>1, <5>1, ShapeFacts
        <5>3. incomplete[top.block] = <<>>
          BY <1>3, <5>1, <5>2 DEF WaitingOK
        <5> QED
          BY <1>3, <2>5, <5>1, <5>3 DEF WaitingOK
      <4>2. CASE sealed' = sealed
        BY <1>3, <2>5, <4>2 DEF WaitingOK
      <4> QED
        BY <4>1, <4>2, Changes
    <3> QED
      BY <1>2, <1>3, <2>1, <2>5, <3>1 DEF WaitingOK
  <2> QED
    BY <2>2, <2>3, <2>4, <2>5, Changes
<1>7. ASSUME NEW f \in Frames, f.at = "sealing"
      PROVE  /\ f.block \in Block /\ f.todo \in Seq(Reg)
             /\ Distinct(f.todo)
             /\ \A x \in Range(f.todo) : <<f.block, x>> \in phis'
             /\ incomplete'[f.block] = <<>>
  <2>1. f.block \in Block /\ f.todo \in Seq(Reg)
    BY <1>1, <1>7, FrameFields
  <2>2. ASSUME NEW x \in Range(f.todo) PROVE <<f.block, x>> \in phis'
    <3>1. x \in Reg /\ IsWaiting(x) /\ <<f.block, x>> \in phis
      BY <1>3, <1>7, <2>1, RangeType DEF WaitingOK, IsWaiting
    <3> QED
      BY <1>5, <2>1, <3>1
  <2>3. incomplete[f.block] = <<>>
    BY <1>3, <1>7 DEF WaitingOK
  <2>4. incomplete'[f.block] = <<>>
    <3>1. CASE ReadUnsealed
      <4>1. Running("read")
        BY <3>1 DEF ReadUnsealed, Missing, Reading
      <4>2. PICK v \in Var : IsAbout(v) /\ top.var = v
        BY <4>1, TopIsAbout DEF Webs
      <4>3. currentDef[<<top.var, f.block>>] # NoReg
        BY <1>7, <4>2 DEF IsAbout
      <4>4. f.block # top.block
        BY <3>1, <4>3 DEF ReadUnsealed, Missing, Found
      <4> QED
        BY <1>1, <1>4, <2>1, <2>3, <3>1, <4>4
    <3>2. CASE StartSeal
      BY <1>1, <2>1, <2>3, <3>2, StartSealMoves
    <3> QED
      BY <2>3, <3>1, <3>2, Changes
  <2> QED
    BY <1>3, <1>7, <2>1, <2>2, <2>4 DEF WaitingOK
<1>8. ASSUME NEW f \in Frames', f.at = "sealing"
      PROVE  /\ Distinct(f.todo)
             /\ \A x \in Range(f.todo) : <<f.block, x>> \in phis'
             /\ f.block \notin sealed'
             /\ incomplete'[f.block] = <<>>
  <2>1. CASE f \in Frames
    <3>1. f.block \notin sealed'
      <4>1. CASE SealComplete
        <5>1. /\ calls # <<>> /\ top.at = "sealing" /\ Frames' = Below
          BY <4>1, TopFields, ReturnMoves DEF SealComplete
        <5>2. f.at = "finalise"
          BY <1>1, <5>1, ShapeFacts
        <5> QED
          BY <1>8, <5>2
      <4>2. CASE sealed' = sealed
        BY <1>3, <1>8, <2>1, <4>2 DEF WaitingOK
      <4> QED
        BY <4>1, <4>2, Changes
    <3> QED
      BY <1>7, <1>8, <2>1, <3>1
  <2>2. CASE CompletePhi /\ f = SealingFrame(top.block, Tail(top.todo))
    <3>1. /\ calls # <<>> /\ top.at = "sealing" /\ top.todo \in Seq(Reg)
          /\ top.todo # <<>>
      BY <2>2, TopFields DEF CompletePhi
    <3>2. top \in Frames
      BY <1>1, <3>1, ShapeFacts
    <3>3. f.block = top.block /\ f.todo = Tail(top.todo)
      BY <2>2 DEF SealingFrame
    <3>4. Distinct(top.todo) /\ top.block \notin sealed
      BY <1>3, <3>1, <3>2 DEF WaitingOK
    <3>5. Distinct(f.todo)
      BY <3>1, <3>3, <3>4, DistinctTail
    <3>6. Range(f.todo) \subseteq Range(top.todo)
      BY <3>1, <3>3, TailRange
    <3>7. sealed' = sealed
      BY <2>2 DEF CompletePhi, ssaVars
    <3> QED
      BY <1>7, <3>1, <3>2, <3>3, <3>4, <3>5, <3>6, <3>7
  <2>3. CASE StartSeal /\ f = SealingFrame(top.block, incomplete[top.block])
    <3>1. /\ top.block \in Block /\ calls # <<>> /\ top.at = "seal"
      BY <2>3, TopFields DEF StartSeal
    <3>2. f.block = top.block /\ f.todo = incomplete[top.block]
      BY <2>3 DEF SealingFrame
    <3>3. Frames' # {} /\ sealed' = sealed
      BY <2>3 DEF StartSeal
    <3>4. /\ incomplete' = [incomplete EXCEPT ![top.block] = <<>>]
          /\ top.block \notin sealed
      BY <2>3, <3>3, StartSealMoves
    <3>5. incomplete'[top.block] = <<>>
      BY <1>1, <3>1, <3>4
    <3>6. \A x \in Range(incomplete[top.block]) :
            x \in Reg /\ IsWaiting(x) /\ <<top.block, x>> \in phis
      BY <1>1, <1>3, <3>1, RangeType DEF WaitingOK, IsWaiting
    <3>7. \A x \in Range(incomplete[top.block]) : <<top.block, x>> \in phis'
      BY <1>5, <3>1, <3>6
    <3>8. Distinct(incomplete[top.block])
      BY <1>3, <3>1 DEF WaitingOK
    <3> QED
      BY <3>2, <3>3, <3>4, <3>5, <3>7, <3>8
  <2> QED
    BY <1>8, <2>1, <2>2, <2>3, NewFrames, FrameKinds
<1>9. ASSUME NEW a \in phiArgs', IsWaiting(a.phi)' PROVE FALSE
  <2>1. PICK x : x = a.phi
    OBVIOUS
  <2>2. IsWaiting(x)'
    BY <1>9, <2>1 DEF IsWaiting
  <2>3. IsWaiting(x) \/ (ReadUnsealed /\ x = NewRegister(top.var))
    BY <2>2, WaitingBefore
  <2>4. CASE AppendOperand /\ x = top.phi
    <3>1. calls # <<>> /\ top.at = "operand"
      BY <2>4, TopFields DEF AppendOperand
    <3>2. top \in Frames /\ top.at \in Gathers
      BY <1>1, <3>1, ShapeFacts DEF Gathers
    <3>3. ~IsWaiting(top.phi)
      BY <1>3, <3>2 DEF FillingOK
    <3>4. ~ReadUnsealed
      BY <3>1 DEF ReadUnsealed, Missing, Reading, Running, top
    <3> QED
      BY <2>3, <2>4, <3>3, <3>4
  <2>5. ASSUME NEW c \in phiArgs, c.phi = x PROVE FALSE
    <3>1. ~IsWaiting(x)
      BY <1>3, <2>5 DEF WaitingOK
    <3> QED
      BY <1>4, <2>3, <2>5, <3>1
  <2> QED
    BY <2>1, <2>4, <2>5, ArgsNext
<1>10. ASSUME NEW f \in Frames', NEW x \in Reg, IsTried(f, x), IsWaiting(x)'
       PROVE  FALSE
  <2>1. IsWaiting(x) \/ (ReadUnsealed /\ x = NewRegister(top.var))
    BY <1>10, WaitingBefore
  <2>2. ASSUME ReadUnsealed PROVE FALSE
    <3>1. f \in Below
      BY <1>4, <1>10, <2>2
    <3>2. f.at \notin Removes
      BY <1>1, <1>4, <2>2, <3>1, ShapeFacts DEF Tries
    <3> QED
      BY <1>10, <3>2 DEF IsTried, Removes, Tries
  <2>3. IsWaiting(x)
    BY <2>1, <2>2
  <2>4. CASE \E g \in Frames : IsTried(g, x)
    BY <1>3, <2>3, <2>4 DEF WaitingOK
  <2>5. CASE OperandsComplete /\ x = top.phi
    <3>1. calls # <<>> /\ top.at = "operands"
      BY <2>5, TopFields DEF OperandsComplete
    <3>2. top \in Frames /\ top.at \in Gathers
      BY <1>1, <3>1, ShapeFacts DEF Gathers
    <3> QED
      BY <1>3, <2>3, <2>5, <3>2 DEF FillingOK
  <2>6. CASE x \in UsersOf(top.phi)
    <3>1. \E a \in phiArgs : a.phi = x
      BY <2>6 DEF UsersOf
    <3> QED
      BY <1>3, <2>3, <3>1 DEF WaitingOK
  <2> QED
    BY <1>10, <2>4, <2>5, <2>6, NewTried
<1> QED
  BY <1>6, <1>8, <1>9, <1>10 DEF WaitingOK, IsTried

(* Only one frame is about a phi that gathers its operands.                *)
LEMMA OthersGather ==
  ASSUME InductiveSSA, Shape, InnerIsYounger, calls # <<>>, top.at \in Marks,
         NEW f \in Below, f.at \in Marks
  PROVE  f.phi # top.phi
<1>1. calls \in Seq(Frame)
  BY DEF InductiveSSA, TypeOK
<1>2. /\ Len(calls) \in Nat /\ Len(calls) >= 1
      /\ DOMAIN calls = 1..Len(calls) /\ top = calls[1]
  BY <1>1, Positions
<1>3. /\ DOMAIN Tail(calls) = 1..(Len(calls) - 1)
      /\ \A i \in 1..(Len(calls) - 1) : Tail(calls)[i] = calls[i + 1]
  BY <1>1, StackShape
<1>4. PICK i \in 1..(Len(calls) - 1) : f = calls[i + 1]
  BY <1>3 DEF Below, Range
<1>5. /\ 1 \in DOMAIN calls /\ i + 1 \in DOMAIN calls /\ 1 < i + 1
  BY <1>2, <1>4
<1>6. VersionOf(f.phi) < VersionOf(top.phi)
  BY <1>2, <1>4, <1>5 DEF InnerIsYounger
<1>7. f \in Frame /\ top \in Frame
  BY <1>1, <1>2, <1>4, <1>5, Positions
<1>8. VersionOf(f.phi) \in Nat /\ VersionOf(top.phi) \in Nat
  BY <1>7, FrameFields DEF Marks, Gathers, Reg, VersionOf
<1> QED
  BY <1>6, <1>8

LEMMA CompletedIsNotWaiting ==
  ASSUME InductiveSSA, Shape, WaitingOK, CompletePhi,
         NEW h, h = Head(top.todo)
  PROVE  /\ h \in Reg /\ <<top.block, h>> \in phis
         /\ IsWaiting(h) /\ ~IsWaiting(h)'
<1>1. /\ calls \in Seq(Frame) /\ calls # <<>> /\ top.at = "sealing"
      /\ top.block \in Block /\ top.todo \in Seq(Reg) /\ top.todo # <<>>
  BY TopFields DEF CompletePhi
<1>2. top \in Frames
  BY <1>1, ShapeFacts
<1>3. /\ Distinct(top.todo)
      /\ \A x \in Range(top.todo) : <<top.block, x>> \in phis
      /\ incomplete[top.block] = <<>>
  BY <1>1, <1>2 DEF WaitingOK
<1>4. h \in Reg /\ h \in Range(top.todo) /\ h \notin Range(Tail(top.todo))
  BY <1>1, <1>3, TailRange, DistinctTail
<1>5. IsWaiting(h)
  BY <1>1, <1>2, <1>4 DEF IsWaiting
<1>6. /\ incomplete' = incomplete
      /\ Frames' = {OperandsFrame(h, top.block, preds[top.block]),
                    SealingFrame(top.block, Tail(top.todo))} \cup Below
  BY CompletePhiMoves DEF CompletePhi, ssaVars
<1>7. \A b \in Block : h \notin Range(incomplete'[b])
  <2>1. ASSUME NEW b \in Block, h \in Range(incomplete[b]) PROVE FALSE
    <3>1. <<b, h>> \in phis /\ <<top.block, h>> \in phis
      BY <1>3, <1>4, <2>1 DEF WaitingOK
    <3>2. b = top.block
      BY <3>1 DEF InductiveSSA, SingleAssignment
    <3> QED
      BY <1>3, <2>1, <3>2 DEF Range
  <2> QED
    BY <1>6, <2>1
<1>8. ASSUME NEW f \in Frames', f.at = "sealing" PROVE h \notin Range(f.todo)
  <2>1. f \notin Below
    BY <1>1, <1>8, ShapeFacts
  <2>2. f = SealingFrame(top.block, Tail(top.todo))
    BY <1>6, <1>8, <2>1, FrameKinds
  <2>3. f.todo = Tail(top.todo)
    BY <2>2 DEF SealingFrame
  <2> QED
    BY <1>4, <2>3
<1>9. <<top.block, h>> \in phis
  BY <1>3, <1>4
<1>10. ~IsWaiting(h)'
  BY <1>7, <1>8 DEF IsWaiting
<1> QED
  BY <1>4, <1>5, <1>9, <1>10

LEMMA FillingOKNext ==
  ASSUME InductiveSSA, Shape, Webs, Ages, Operands, [Next]_vars, NoFixupFault
  PROVE  FillingOK'
<1> SUFFICES ASSUME NEW f \in Frames', f.at \in Gathers
             PROVE  /\ <<f.block, f.phi>> \in phis'
                    /\ ~IsWaiting(f.phi)'
                    /\ Distinct(f.todo)
                    /\ Range(f.todo) \subseteq Range(preds'[f.block])
                    /\ Through(f.phi)' = Range(preds'[f.block]) \ Range(f.todo)
  BY DEF FillingOK
<1>0. PICK x : x = f.phi
  OBVIOUS
<1>1. /\ calls \in Seq(Frame) /\ Frames \subseteq Frame
      /\ preds \in [Block -> Seq(Block)]
  BY FramesAreTyped DEF InductiveSSA, TypeOK
<1>2. WaitingOK /\ FillingOK /\ Issued /\ InnerIsYounger /\ TriedAreYoung
      /\ PredecessorsActivated
  BY DEF Operands, Webs, Ages
<1>3. ASSUME NEW g \in Frames, g.at \in Gathers, g.phi = x
      PROVE  ~IsWaiting(x)' /\ <<g.block, x>> \in phis'
  <2>1. ~IsWaiting(x) /\ <<g.block, x>> \in phis /\ IsFilling(x)
    BY <1>2, <1>3 DEF FillingOK, IsFilling
  <2>2. ASSUME ReadUnsealed PROVE x # NewRegister(top.var)
    <3>1. top.var \in Var
      BY <2>2, TopFields DEF ReadUnsealed, Missing, Reading
    <3> QED
      BY <1>2, <2>1, <3>1, NewPhiIsFresh
  <2>3. ~IsWaiting(x)'
    BY <2>1, <2>2, WaitingBefore
  <2>4. ASSUME TryTrivial PROVE x # top.phi
    BY <1>2, <2>1, <2>4, TriedIsFree
  <2> QED
    BY <2>1, <2>3, <2>4, PhisNext
<1>4. ASSUME Frames # {} PROVE preds' = preds
  <2>1. calls # <<>>
    BY <1>4, FramesAreTyped
  <2> QED
    BY <2>1, Changes DEF Terminate, Open, Idle
<1>5. CASE f \in Frames
  <2>1. /\ Distinct(f.todo)
        /\ Range(f.todo) \subseteq Range(preds[f.block])
        /\ Through(x) = Range(preds[f.block]) \ Range(f.todo)
    BY <1>0, <1>2, <1>5 DEF FillingOK
  <2>2. ASSUME AppendOperand, x = top.phi PROVE FALSE
    <3>1. calls # <<>> /\ top.at = "operand"
      BY <2>2, TopFields DEF AppendOperand
    <3>2. f \in Below
      <4>1. Frames' = {OperandsFrame(top.phi, top.block, Tail(top.todo))}
                      \cup Below
        BY <2>2, AppendOperandMoves
      <4>2. CASE f = top
        BY <3>1, <4>1, <4>2, FrameKinds
      <4> QED
        BY <1>1, <1>5, <3>1, <4>2, ShapeFacts
    <3> QED
      BY <1>0, <1>2, <2>2, <3>1, <3>2, OthersGather DEF Marks, Gathers
  <2>3. Through(x)' = Through(x)
    BY <2>2, ThroughNext
  <2>4. Through(f.phi)' = Through(x)'
    BY <1>0
  <2>5. ~IsWaiting(f.phi)' /\ <<f.block, f.phi>> \in phis'
    BY <1>0, <1>3, <1>5
  <2> QED
    BY <1>4, <1>5, <2>1, <2>3, <2>4, <2>5
<1>6. CASE ReadJoin /\ f = OperandsFrame(NewRegister(top.var), top.block,
                                        preds[top.block])
  <2>1. /\ calls # <<>> /\ top.at = "read" /\ top.var \in Var
        /\ top.block \in Block
    BY <1>6, TopFields DEF ReadJoin, Missing, Reading
  <2>2. f.phi = NewRegister(top.var) /\ f.block = top.block
        /\ f.todo = preds[top.block]
    BY <1>6 DEF OperandsFrame
  <2>3. ~IsWaiting(x) /\ Through(x) = {}
    BY <1>0, <1>2, <2>1, <2>2, NewPhiIsFresh
  <2>4. ~ReadUnsealed /\ ~AppendOperand
    BY <1>6 DEF ReadJoin, ReadUnsealed, AppendOperand, Missing, Reading, Running
  <2>5. ~IsWaiting(x)' /\ Through(x)' = {}
    BY <2>3, <2>4, WaitingBefore, ThroughNext
  <2>6. Through(f.phi)' = Through(x)' /\ ~IsWaiting(f.phi)'
    BY <1>0, <2>5
  <2>7. <<f.block, f.phi>> \in phis'
    BY <1>6, <2>2, PhisNext
  <2>8. preds' = preds
    BY <1>6 DEF ReadJoin, cfgVars
  <2> QED
    BY <1>2, <2>1, <2>2, <2>5, <2>6, <2>7, <2>8 DEF PredecessorsActivated
<1>7. CASE ReadOperand /\ f = OperandFrame(top.phi, top.block, top.todo)
  <2>1. calls # <<>> /\ top.at = "operands"
    BY <1>7, TopFields DEF ReadOperand
  <2>2. top \in Frames /\ top.at \in Gathers
    BY <1>1, <2>1, ShapeFacts DEF Gathers
  <2>3. f.phi = top.phi /\ f.block = top.block /\ f.todo = top.todo
    BY <1>7 DEF OperandFrame
  <2>4. ~AppendOperand
    BY <1>7 DEF ReadOperand, AppendOperand, Running
  <2>5. Through(x)' = Through(x)
    BY <2>4, ThroughNext
  <2>6. Through(f.phi)' = Through(x)'
    BY <1>0
  <2>7. ~IsWaiting(f.phi)' /\ <<f.block, f.phi>> \in phis'
    BY <1>0, <1>3, <2>2, <2>3
  <2>8. preds' = preds
    BY <1>4, <2>2
  <2> QED
    BY <1>0, <1>2, <2>2, <2>3, <2>5, <2>6, <2>7, <2>8 DEF FillingOK
<1>8. CASE AppendOperand
           /\ f = OperandsFrame(top.phi, top.block, Tail(top.todo))
  <2>1. /\ calls # <<>> /\ top.at = "operand" /\ top.todo \in Seq(Block)
        /\ top.todo # <<>>
    BY <1>8, TopFields DEF AppendOperand
  <2>2. top \in Frames /\ top.at \in Gathers
    BY <1>1, <2>1, ShapeFacts DEF Gathers
  <2>3. f.phi = top.phi /\ f.block = top.block /\ f.todo = Tail(top.todo)
    BY <1>8 DEF OperandsFrame
  <2>4. /\ Distinct(top.todo)
        /\ Range(top.todo) \subseteq Range(preds[top.block])
        /\ Through(x) = Range(preds[top.block]) \ Range(top.todo)
    BY <1>0, <1>2, <2>2, <2>3 DEF FillingOK
  <2>5. Through(x)' = Through(x) \cup {Head(top.todo)}
    <3>1. \E a \in phiArgs' : a.phi = top.phi /\ a.through = Head(top.todo)
      <4> DEFINE n == [phi |-> top.phi, through |-> Head(top.todo),
                       value |-> ret]
      <4>1. n \in phiArgs' /\ n.phi = top.phi /\ n.through = Head(top.todo)
        BY <1>8 DEF AppendOperand
      <4> HIDE DEF n
      <4> QED
        BY <4>1
    <3>2. Head(top.todo) \in Through(x)'
      BY <1>0, <2>3, <3>1, InThroughNext
    <3> QED
      BY <3>2, ThroughNext
  <2>6. /\ Distinct(Tail(top.todo)) /\ Head(top.todo) \notin Range(Tail(top.todo))
        /\ Range(top.todo) = {Head(top.todo)} \cup Range(Tail(top.todo))
    BY <2>1, <2>4, DistinctTail, TailRange
  <2>7. ~IsWaiting(f.phi)' /\ <<f.block, f.phi>> \in phis'
    BY <1>0, <1>3, <2>2, <2>3
  <2>8. preds' = preds
    BY <1>4, <2>2
  <2>9. Through(f.phi)' = Through(x)'
    BY <1>0
  <2> QED
    BY <2>3, <2>4, <2>5, <2>6, <2>7, <2>8, <2>9
<1>9. CASE CompletePhi /\ f = OperandsFrame(Head(top.todo), top.block,
                                           preds[top.block])
  <2>2. f.phi = Head(top.todo) /\ f.block = top.block
        /\ f.todo = preds[top.block]
    BY <1>9 DEF OperandsFrame
  <2>1. <<top.block, x>> \in phis /\ IsWaiting(x) /\ ~IsWaiting(x)'
    BY <1>0, <1>2, <1>9, <2>2, CompletedIsNotWaiting
  <2>3. Through(x) = {}
    <3>1. \A a \in phiArgs : a.phi # x
      BY <1>0, <1>2, <2>1, <2>2 DEF WaitingOK
    <3> QED
      BY <3>1 DEF Through
  <2>4. ~AppendOperand
    BY <1>9 DEF CompletePhi, AppendOperand, Running
  <2>5. Through(x)' = {}
    BY <2>3, <2>4, ThroughNext
  <2>6. Through(f.phi)' = Through(x)' /\ ~IsWaiting(f.phi)'
    BY <1>0, <2>1, <2>2
  <2>7. phis' = phis /\ preds' = preds
    BY <1>9 DEF CompletePhi, ssaVars, cfgVars
  <2>8. top.block \in Block
    BY <1>9, TopFields DEF CompletePhi
  <2> QED
    BY <1>0, <1>2, <2>1, <2>2, <2>5, <2>6, <2>7, <2>8 DEF PredecessorsActivated
<1> QED
  BY <1>5, <1>6, <1>7, <1>8, <1>9, NewFrames, FrameKinds DEF Gathers, Marks

(* A new phi waits for its operands, or they are gathered at once; ...     *)
LEMMA NewPhiGathers ==
  ASSUME InductiveSSA, Shape, [Next]_vars,
         NEW b, NEW x, <<b, x>> \in phis', <<b, x>> \notin phis
  PROVE  IsWaiting(x)' \/ (IsFilling(x)' /\ b \in sealed')
<1>1. /\ ReadUnsealed \/ ReadJoin
      /\ b = top.block /\ x = NewRegister(top.var)
  BY PhisNext
<1>2. CASE ReadUnsealed
  <2>1. /\ top.block \in Block /\ x \in Reg
        /\ incomplete' = [incomplete EXCEPT ![top.block] =
                            Append(@, NewRegister(top.var))]
        /\ incomplete \in [Block -> Seq(Reg)]
    BY <1>1, <1>2, TopFields, QueryTypes
    DEF InductiveSSA, TypeOK, ReadUnsealed, Missing, Reading, Found
  <2>2. incomplete'[top.block] = Append(incomplete[top.block], x)
    BY <1>1, <2>1
  <2>3. x \in Range(incomplete'[top.block])
    BY <2>1, <2>2, AppendRange
  <2> QED
    BY <2>1, <2>3 DEF IsWaiting
<1>3. CASE ReadJoin
  <2> DEFINE f == OperandsFrame(NewRegister(top.var), top.block,
                                preds[top.block])
  <2>1. f \in Frames' /\ f.at \in Gathers /\ f.phi = x
    BY <1>1, <1>3, ReadJoinMoves DEF OperandsFrame, Gathers
  <2>2. b \in sealed'
    BY <1>1, <1>3 DEF ReadJoin
  <2> HIDE DEF f
  <2> QED
    BY <2>1, <2>2 DEF IsFilling
<1> QED
  BY <1>1, <1>2, <1>3

(* ... and so they are when the block of one that waits is sealed.         *)
LEMMA CompletedGathers ==
  ASSUME InductiveSSA, Shape, WaitingOK, [Next]_vars, NoFixupFault,
         NEW b, NEW x, <<b, x>> \in phis, IsWaiting(x), ~IsWaiting(x)'
  PROVE  /\ IsFilling(x)'
         /\ \E f \in Frames' : f.at = "sealing" /\ f.block = b
<1>1. CompletePhi /\ x = Head(top.todo)
  BY WaitingAfter
<1>2. <<top.block, x>> \in phis
  BY <1>1, CompletedIsNotWaiting
<1>3. b = top.block
  BY <1>2 DEF InductiveSSA, SingleAssignment
<1> DEFINE f == OperandsFrame(Head(top.todo), top.block, preds[top.block])
           g == SealingFrame(top.block, Tail(top.todo))
<1>4. /\ f \in Frames' /\ f.at \in Gathers /\ f.phi = x
      /\ g \in Frames' /\ g.at = "sealing" /\ g.block = b
  BY <1>1, <1>3, CompletePhiMoves DEF OperandsFrame, SealingFrame, Gathers
<1> HIDE DEF f, g
<1>5. IsFilling(x)'
  BY <1>4 DEF IsFilling
<1> QED
  BY <1>4, <1>5

LEMMA OthersCompleteNext ==
  ASSUME InductiveSSA, Shape, Webs, Ages, Operands, [Next]_vars, NoFixupFault
  PROVE  OthersComplete'
<1>1. /\ calls \in Seq(Frame) /\ Frames \subseteq Frame
      /\ preds \in [Block -> Seq(Block)] /\ phis \subseteq Block \X Reg
  BY FramesAreTyped DEF InductiveSSA, TypeOK
<1>2. WaitingOK /\ FillingOK /\ Issued /\ OthersComplete
  BY DEF Operands, Webs
<1>3. ASSUME NEW b, NEW x, <<b, x>> \in phis'
      PROVE  /\ ~IsWaiting(x)' =>
                  \/ b \in sealed'
                  \/ \E f \in Frames' : f.at = "sealing" /\ f.block = b
             /\ ~IsWaiting(x)' /\ ~IsFilling(x)' =>
                  Through(x)' = Range(preds'[b])
  <2>1. CASE <<b, x>> \notin phis
    BY <1>2, <1>3, <2>1, NewPhiGathers
  <2>2. CASE <<b, x>> \in phis /\ IsWaiting(x) /\ ~IsWaiting(x)'
    BY <1>2, <2>2, CompletedGathers
  <2>3. CASE <<b, x>> \in phis /\ ~IsWaiting(x)
    <3>0. b \in Block
      BY <1>1, <2>3
    <3>1. b \in sealed \/ \E f \in Frames : f.at = "sealing" /\ f.block = b
      BY <1>2, <2>3 DEF OthersComplete
    <3>2. b \in sealed' \/ \E f \in Frames' : f.at = "sealing" /\ f.block = b
      <4>1. CASE b \in sealed
        <5>1. CASE sealed' = sealed
          BY <4>1, <5>1
        <5>2. CASE SealComplete
          BY <4>1, <5>2 DEF SealComplete
        <5> QED
          BY <5>1, <5>2, Changes
      <4>2. CASE \E f \in Frames : f.at = "sealing" /\ f.block = b
        <5>1. PICK f \in Frames : f.at = "sealing" /\ f.block = b
          BY <4>2
        <5>2. CASE f \in Frames'
          BY <5>1, <5>2
        <5>3. CASE f = top /\ CompletePhi
          <6> DEFINE g == SealingFrame(top.block, Tail(top.todo))
          <6>1. g \in Frames' /\ g.at = "sealing" /\ g.block = b
            BY <5>1, <5>3, CompletePhiMoves DEF SealingFrame
          <6> HIDE DEF g
          <6> QED
            BY <6>1
        <5>4. CASE f = top /\ SealComplete
          BY <5>1, <5>4 DEF SealComplete
        <5> QED
          BY <5>1, <5>2, <5>3, <5>4, BelowKept, StepOf
      <4> QED
        BY <3>1, <4>1, <4>2
    <3>3. CASE IsFilling(x) /\ ~IsFilling(x)'
      <4>1. OperandsComplete /\ x = top.phi
        BY <3>3, FillingAfter
      <4>2. calls # <<>> /\ top.at = "operands" /\ top.todo = <<>>
        BY <4>1, TopFields DEF OperandsComplete
      <4>3. top \in Frames /\ top.at \in Gathers
        BY <1>1, <4>2, ShapeFacts DEF Gathers
      <4>4. /\ <<top.block, x>> \in phis
            /\ Through(x) = Range(preds[top.block]) \ Range(top.todo)
        BY <1>2, <4>1, <4>3 DEF FillingOK
      <4>5. b = top.block
        BY <2>3, <4>4 DEF InductiveSSA, SingleAssignment
      <4>6. Range(top.todo) = {}
        BY <4>2 DEF Range
      <4>7. ~AppendOperand
        BY <4>1 DEF OperandsComplete, AppendOperand, Running
      <4>8. Through(x)' = Through(x) /\ preds' = preds
        BY <4>1, <4>7, ThroughNext DEF OperandsComplete, cfgVars
      <4> QED
        BY <3>2, <4>4, <4>5, <4>6, <4>8
    <3>4. CASE ~IsFilling(x)
      <4>1. Through(x) = Range(preds[b])
        BY <1>2, <2>3, <3>4 DEF OthersComplete, PhiComplete
      <4>2. ASSUME AppendOperand PROVE x # top.phi
        <5>1. calls # <<>> /\ top.at = "operand"
          BY <4>2, TopFields DEF AppendOperand
        <5>2. top \in Frames /\ top.at \in Gathers
          BY <1>1, <5>1, ShapeFacts DEF Gathers
        <5> QED
          BY <3>4, <5>2 DEF IsFilling
      <4>3. Through(x)' = Through(x)
        BY <4>2, ThroughNext
      <4>4. preds'[b] = preds[b]
        <5>1. ASSUME NEW ts \in SUBSET Block, Terminate(ts), preds' # preds
              PROVE  preds'[b] = preds[b]
          <6>1. calls = <<>> /\ ts \cap sealed = {}
            BY <5>1 DEF Terminate, Open, Idle, SealedTarget
          <6>2. b \in sealed
            BY <3>1, <6>1, FramesAreTyped
          <6> QED
            BY <3>0, <5>1, <6>1, <6>2 DEF Terminate
        <5> QED
          BY <5>1, Changes
      <4> QED
        BY <3>2, <4>1, <4>3, <4>4
    <3> QED
      BY <3>2, <3>3, <3>4
  <2> QED
    BY <2>1, <2>2, <2>3
<1>4. phis' \subseteq Block \X Reg
  BY NextTypes DEF InductiveSSA, TypeOK
<1>5. ASSUME NEW p \in phis'
      PROVE  /\ ~IsWaiting(p[2])' =>
                  \/ p[1] \in sealed'
                  \/ \E f \in Frames' : f.at = "sealing" /\ f.block = p[1]
             /\ ~IsWaiting(p[2])' /\ ~IsFilling(p[2])' =>
                  Through(p[2])' = Range(preds'[p[1]])
  <2>1. PICK b, x : p = <<b, x>>
    BY <1>4
  <2>2. <<b, x>> \in phis' /\ p[1] = b /\ p[2] = x
    BY <2>1
  <2> QED
    BY <1>3, <2>2
<1> QED
  BY <1>5 DEF OthersComplete, PhiComplete

LEMMA OneArgumentNext ==
  ASSUME InductiveSSA, Shape, Operands, [Next]_vars
  PROVE  OneArgument'
<1>0. phiArgs \subseteq PhiArg /\ calls \in Seq(Frame)
  BY DEF InductiveSSA, TypeOK
<1>1. FillingOK /\ OneArgument
  BY DEF Operands
<1>2. CASE phiArgs' = phiArgs
  BY <1>1, <1>2 DEF OneArgument
<1>3. CASE AppendOperand
  <2> DEFINE n == [phi |-> top.phi, through |-> Head(top.todo), value |-> ret]
  <2>1. phiArgs' = phiArgs \cup {n}
    BY <1>3 DEF AppendOperand
  <2>2. n.phi = top.phi /\ n.through = Head(top.todo)
    OBVIOUS
  <2> HIDE DEF n
  <2>3. /\ calls # <<>> /\ top.at = "operand" /\ top.todo \in Seq(Block)
        /\ top.todo # <<>>
    BY <1>3, TopFields DEF AppendOperand
  <2>4. top \in Frames /\ top.at \in Gathers
    BY <1>0, <2>3, ShapeFacts DEF Gathers
  <2>5. Head(top.todo) \notin Through(top.phi)
    <3>1. Head(top.todo) \in Range(top.todo)
      BY <2>3, TailRange
    <3>2. Through(top.phi) = Range(preds[top.block]) \ Range(top.todo)
      BY <1>1, <2>4 DEF FillingOK
    <3> QED
      BY <3>1, <3>2
  <2>6. \A a \in phiArgs : ~(a.phi = n.phi /\ a.through = n.through)
    BY <2>2, <2>5, InThrough
  <2> QED
    BY <1>1, <2>1, <2>6 DEF OneArgument
<1>4. CASE TryTrivial
  <2>1. PICK by \in Reg :
          phiArgs' = {Renamed(a, top.phi, by) : a \in phiArgs}
    BY <1>4, TryTrivialArgs
  <2>2. ASSUME NEW a \in phiArgs', NEW c \in phiArgs',
               a.phi = c.phi, a.through = c.through
        PROVE  a = c
    <3>1. PICK d \in phiArgs : a = Renamed(d, top.phi, by)
      BY <2>1
    <3>2. PICK e \in phiArgs : c = Renamed(e, top.phi, by)
      BY <2>1
    <3>3. /\ d \in PhiArg /\ e \in PhiArg
          /\ d.phi = e.phi /\ d.through = e.through
      BY <1>0, <2>2, <3>1, <3>2, RenamedFields
    <3>4. d = e
      BY <1>1, <3>3 DEF OneArgument
    <3> QED
      BY <3>1, <3>2, <3>4
  <2> QED
    BY <2>2 DEF OneArgument
<1> QED
  BY <1>2, <1>3, <1>4, Changes

LEMMA FinishedNext ==
  ASSUME InductiveSSA, Shape, Finished, [Next]_vars
  PROVE  Finished'
<1>1. CASE finalised' = finalised
  <2>1. SUFFICES ASSUME finalised PROVE \A b \in Block : incomplete'[b] = <<>>
    BY <1>1 DEF Finished
  <2>2. calls = <<>>
    BY <2>1 DEF Shape
  <2>3. incomplete' = incomplete
    BY <2>2, Changes DEF ReadUnsealed, Missing, Reading, StartSeal, Running
  <2> QED
    BY <2>1, <2>3 DEF Finished
<1>2. CASE FinaliseComplete
  BY <1>2 DEF FinaliseComplete, Finished, ssaVars
<1> QED
  BY <1>1, <1>2, Changes

LEMMA OperandsNext ==
  ASSUME InductiveSSA, Shape, Webs, Ages, Operands, [Next]_vars, NoFixupFault
  PROVE  Operands'
<1>1. /\ PredecessorsActivated /\ WaitingOK /\ FillingOK /\ OthersComplete
      /\ OneArgument /\ Finished /\ InnerIsYounger /\ TriedAreYoung
  BY DEF Operands, Ages
<1>2. PredecessorsActivated' /\ WaitingOK' /\ FillingOK' /\ OthersComplete'
  BY <1>1, PredecessorsActivatedNext, WaitingOKNext, FillingOKNext,
     OthersCompleteNext
<1>3. OneArgument' /\ Finished'
  BY <1>1, OneArgumentNext, FinishedNext
<1> QED
  BY <1>2, <1>3 DEF Operands
-----------------------------------------------------------------------------
(* The registers that are defined                                          *)

LEMMA InPhiRegs ==
  /\ \A x : x \in PhiRegs <=> \E p \in phis : p[2] = x
  /\ \A x : x \in PhiRegs' <=> \E p \in phis' : p[2] = x
  BY DEF PhiRegs

LEMMA InCurrentDef ==
  ASSUME TypeOK
  PROVE  \A r : r \in Range(currentDef) <=>
                  \E d \in Var \X Block : currentDef[d] = r
  BY DEF TypeOK, Range

(* What a removal takes away.                                              *)
LEMMA RemovedDefinition ==
  ASSUME InductiveSSA, Shape, TryTrivial
  PROVE  /\ PhiRegs' = PhiRegs \ {top.phi}
         /\ WrittenRegs' = WrittenRegs /\ ParamRegs' = ParamRegs
         /\ \A r : r \in DefinedRegs /\ r # top.phi => r \in DefinedRegs'
         /\ DefinedRegs' \subseteq DefinedRegs
         /\ top.phi \in PhiRegs => top.phi \notin DefinedRegs'
<1>1. PICK by \in Reg :
        /\ phis' = {q \in phis : q[2] # top.phi}
        /\ ReplaceInOps(top.phi, by)
  BY TryTrivialArgs
<1>2. PhiRegs' = PhiRegs \ {top.phi}
  BY <1>1, InPhiRegs
<1>3. ops \in [Block -> Seq(Op)]
  BY DEF InductiveSSA, TypeOK
<1>4. ASSUME NEW b \in Block
      PROVE  /\ DOMAIN ops'[b] = DOMAIN ops[b]
             /\ \A i \in DOMAIN ops[b] :
                  /\ ops'[b][i].kind = ops[b][i].kind
                  /\ ops[b][i].kind = "write" => ops'[b][i] = ops[b][i]
  <2>1. ops'[b] = [i \in DOMAIN ops[b] |->
                     IF ops[b][i].kind = "write"
                       THEN ops[b][i]
                       ELSE [ops[b][i] EXCEPT !.reg = Replace(@, top.phi, by)]]
    BY <1>1 DEF ReplaceInOps
  <2>2. \A i \in DOMAIN ops[b] : ops[b][i] \in Op
    BY <1>3
  <2> QED
    BY <2>1, <2>2 DEF Op
<1>5. WrittenRegs' = WrittenRegs
  <2>1. \A r : r \in WrittenRegs' <=> r \in WrittenRegs
    BY <1>4, WrittenAt
  <2> QED
    BY <2>1
<1>6. ParamRegs' = ParamRegs
  BY DEF ParamRegs
<1>7. \A r : r \in DefinedRegs /\ r # top.phi => r \in DefinedRegs'
  BY <1>2, <1>5, <1>6 DEF DefinedRegs
<1>8. DefinedRegs' \subseteq DefinedRegs
  BY <1>2, <1>5, <1>6 DEF DefinedRegs
<1>9. top.phi \in PhiRegs => top.phi \notin DefinedRegs'
  BY <1>2, <1>5, <1>6 DEF DefinedRegs, InductiveSSA, SingleAssignment
<1> QED
  BY <1>2, <1>5, <1>6, <1>7, <1>8, <1>9

LEMMA AppendedOp ==
  ASSUME TypeOK, NEW o \in Op, AddOp(o)
  PROVE  /\ WrittenRegs \subseteq WrittenRegs'
         /\ o.kind = "write" => o.reg \in WrittenRegs'
         /\ \A b \in Block : \A p \in Range(ops'[b]) :
              p = o \/ p \in Range(ops[b])
<1>1. active \in Block /\ ops \in [Block -> Seq(Op)]
  BY QueryTypes DEF TypeOK
<1>2. ops' = [ops EXCEPT ![active] = Append(@, o)]
  BY DEF AddOp
<1>3. ops'[active] = Append(ops[active], o) /\ ops[active] \in Seq(Op)
  BY <1>1, <1>2
<1>4. Range(ops'[active]) = Range(ops[active]) \cup {o}
  BY <1>3, AppendRange
<1>5. \A b \in Block : b # active => ops'[b] = ops[b]
  BY <1>1, <1>2
<1>6. \A b \in Block : Range(ops'[b]) \subseteq Range(ops[b]) \cup {o}
  BY <1>4, <1>5
<1>7. \A b \in Block : Range(ops[b]) \subseteq Range(ops'[b])
  BY <1>4, <1>5
<1>8. /\ \A r : r \in WrittenRegs <=> \E b \in Block : \E p \in Range(ops[b]) :
                  p.kind = "write" /\ p.reg = r
      /\ \A r : r \in WrittenRegs' <=> \E b \in Block : \E p \in Range(ops'[b]) :
                  p.kind = "write" /\ p.reg = r
  BY DEF WrittenRegs
<1> QED
  BY <1>1, <1>4, <1>6, <1>7, <1>8

(* Nothing but a removal takes a definition away.                          *)
LEMMA DefinedGrow ==
  ASSUME InductiveSSA, Shape, [Next]_vars, ~TryTrivial
  PROVE  PhiRegs \subseteq PhiRegs' /\ DefinedRegs \subseteq DefinedRegs'
<1>1. PhiRegs \subseteq PhiRegs'
  BY PhisNext, InPhiRegs
<1>2. ParamRegs' = ParamRegs
  BY DEF ParamRegs
<1>3. WrittenRegs \subseteq WrittenRegs'
  <2>1. CASE ops' = ops
    BY <2>1 DEF WrittenRegs
  <2>2. CASE AddUse
    <3>1. ret \in Reg
      BY <2>2, GivenResult DEF AddUse, Consumers
    <3>2. [kind |-> "read", reg |-> ret] \in Op
      BY <3>1 DEF Op
    <3> QED
      BY <2>2, <3>2, AppendedOp DEF AddUse, InductiveSSA
  <2>3. ASSUME NEW v \in Var, Assign(v) PROVE WrittenRegs \subseteq WrittenRegs'
    <3>1. [kind |-> "write", reg |-> NewRegister(v)] \in Op
      BY QueryTypes DEF InductiveSSA, Op
    <3> QED
      BY <2>3, <3>1, AppendedOp DEF Assign, InductiveSSA
  <2>4. ASSUME NEW r \in DefinedRegs, UseHeld(r)
        PROVE  WrittenRegs \subseteq WrittenRegs'
    <3>1. [kind |-> "held", reg |-> r] \in Op
      BY UsedRegs DEF InductiveSSA, Op
    <3> QED
      BY <2>4, <3>1, AppendedOp DEF UseHeld, InductiveSSA
  <2> QED
    BY <2>1, <2>2, <2>3, <2>4, Changes
<1> QED
  BY <1>1, <1>2, <1>3 DEF DefinedRegs

(* What is there to be replaced.                                           *)
LEMMA InRemoved ==
  ASSUME TypeOK
  PROVE  /\ \A x : x \in Removed <=> \E i \in DOMAIN removals : removals[i].phi = x
         /\ \A i \in DOMAIN removals : /\ removals[i] \in Removal
                                       /\ removals[i].phi \in Reg
                                       /\ removals[i].by \in Reg
         /\ DOMAIN removals = 1..Len(removals) /\ Len(removals) \in Nat
         /\ removals = <<>> => Removed = {}
         /\ removals # <<>> => /\ 1 \in DOMAIN removals
                               /\ Head(removals) = removals[1]
                               /\ removals[1].phi \in Removed
<1>1. removals \in Seq(Removal)
  BY DEF TypeOK
<1>2. DOMAIN removals = 1..Len(removals) /\ Len(removals) \in Nat
  BY <1>1
<1>3. \A i \in DOMAIN removals : /\ removals[i] \in Removal
                                 /\ removals[i].phi \in Reg
                                 /\ removals[i].by \in Reg
  <2>1. \A i \in DOMAIN removals : removals[i] \in Removal
    BY <1>1
  <2> QED
    BY <2>1 DEF Removal
<1>4. \A x : x \in Removed <=> \E i \in DOMAIN removals : removals[i].phi = x
  BY DEF Removed, Range
<1>5. removals # <<>> => 1 \in DOMAIN removals /\ Head(removals) = removals[1]
  BY <1>1
<1>6. removals = <<>> => Removed = {}
  BY DEF Removed, Range
<1> QED
  BY <1>2, <1>3, <1>4, <1>5, <1>6

(* The removed phi that comes first is replaced by one that is defined, or *)
(* that is itself replaced later.                                          *)
LEMMA FirstResolves ==
  ASSUME TypeOK, NEW N, removals # <<>>, Resolves(N, removals[1].phi)
  PROVE  \/ removals[1].by \in DefinedRegs
         \/ removals[1].by \in N \ {removals[1].phi}
<1>1. PICK i \in DOMAIN removals :
        /\ \A k \in 1..(i - 1) : removals[k].phi # removals[1].phi
        /\ \/ removals[i].by \in DefinedRegs
           \/ /\ removals[i].by \in N
              /\ \A k \in 1..i : removals[k].phi # removals[i].by
  BY DEF Resolves
<1>2. i \in 1..Len(removals) /\ Len(removals) \in Nat
  BY InRemoved
<1>3. i = 1
  <2>1. CASE i > 1
    BY <1>1, <1>2, <2>1
  <2> QED
    BY <1>2, <2>1
<1>4. 1 \in 1..i
  BY <1>3
<1> QED
  BY <1>1, <1>3, <1>4

(* What becomes of the replacements when one more is noted, ...            *)
LEMMA ResolvesAppend ==
  ASSUME TypeOK, NEW N, NEW M, N \subseteq M, NEW x, Resolves(N, x),
         NEW r \in Removal, removals' = Append(removals, r),
         \A y \in DefinedRegs : y \in DefinedRegs' \/ (y = r.phi /\ y \in M),
         r.phi \in DefinedRegs => r.phi \notin Removed
  PROVE  Resolves(M, x)'
<1> SUFFICES \E i \in DOMAIN removals' :
               /\ removals'[i].phi = x
               /\ \A k \in 1..(i - 1) : removals'[k].phi # x
               /\ \/ removals'[i].by \in DefinedRegs'
                  \/ /\ removals'[i].by \in M
                     /\ \A k \in 1..i : removals'[k].phi # removals'[i].by
  BY DEF Resolves
<1>1. removals \in Seq(Removal)
  BY DEF TypeOK
<1>2. /\ DOMAIN removals = 1..Len(removals) /\ Len(removals) \in Nat
      /\ DOMAIN removals' = 1..(Len(removals) + 1)
      /\ \A i \in 1..Len(removals) : removals'[i] = removals[i]
  BY <1>1
<1>3. PICK i \in DOMAIN removals :
        /\ removals[i].phi = x
        /\ \A k \in 1..(i - 1) : removals[k].phi # x
        /\ \/ removals[i].by \in DefinedRegs
           \/ /\ removals[i].by \in N
              /\ \A k \in 1..i : removals[k].phi # removals[i].by
  BY DEF Resolves
<1>4. /\ i \in DOMAIN removals' /\ i \in 1..Len(removals)
      /\ \A k \in 1..i : removals'[k] = removals[k]
      /\ \A k \in 1..(i - 1) : removals'[k] = removals[k]
      /\ removals'[i] = removals[i]
  BY <1>2
<1>5. CASE removals[i].by \in DefinedRegs'
  BY <1>3, <1>4, <1>5
<1>6. CASE removals[i].by \in DefinedRegs /\ removals[i].by \notin DefinedRegs'
  <2>1. removals[i].by = r.phi /\ removals[i].by \in M /\ r.phi \notin Removed
    BY <1>6
  <2>2. \A k \in 1..i : removals[k].phi # removals[i].by
    BY <1>2, <1>4, <2>1, InRemoved
  <2> QED
    BY <1>3, <1>4, <2>1, <2>2
<1>7. CASE /\ removals[i].by \in N
           /\ \A k \in 1..i : removals[k].phi # removals[i].by
  BY <1>3, <1>4, <1>7
<1> QED
  BY <1>3, <1>5, <1>6, <1>7

(* ... and when the first has been carried out.                            *)
LEMMA ResolvesTail ==
  ASSUME TypeOK, NEW N, NEW M, NEW x, Resolves(N, x), removals # <<>>,
         M = N \ {removals[1].phi}, x # removals[1].phi,
         removals' = Tail(removals), DefinedRegs' = DefinedRegs
  PROVE  Resolves(M, x)'
<1> SUFFICES \E i \in DOMAIN removals' :
               /\ removals'[i].phi = x
               /\ \A k \in 1..(i - 1) : removals'[k].phi # x
               /\ \/ removals'[i].by \in DefinedRegs'
                  \/ /\ removals'[i].by \in M
                     /\ \A k \in 1..i : removals'[k].phi # removals'[i].by
  BY DEF Resolves
<1>1. removals \in Seq(Removal)
  BY DEF TypeOK
<1>2. /\ DOMAIN removals = 1..Len(removals) /\ Len(removals) \in Nat
      /\ Len(removals) >= 1
      /\ DOMAIN removals' = 1..(Len(removals) - 1)
      /\ \A i \in 1..(Len(removals) - 1) : removals'[i] = removals[i + 1]
  BY <1>1
<1>3. PICK j \in DOMAIN removals :
        /\ removals[j].phi = x
        /\ \A k \in 1..(j - 1) : removals[k].phi # x
        /\ \/ removals[j].by \in DefinedRegs
           \/ /\ removals[j].by \in N
              /\ \A k \in 1..j : removals[k].phi # removals[j].by
  BY DEF Resolves
<1>4. j \in 2..Len(removals)
  BY <1>2, <1>3
<1>5. PICK i \in 1..(Len(removals) - 1) : j = i + 1
  <2>1. j - 1 \in 1..(Len(removals) - 1) /\ j = (j - 1) + 1
    BY <1>2, <1>4
  <2> QED
    BY <2>1
<1>6. i \in DOMAIN removals' /\ removals'[i] = removals[j]
  BY <1>2, <1>5
<1>7. \A k \in 1..(i - 1) : k + 1 \in 1..(j - 1) /\ removals'[k] = removals[k + 1]
  BY <1>2, <1>5
<1>8. \A k \in 1..i : k + 1 \in 1..j /\ removals'[k] = removals[k + 1]
  BY <1>2, <1>5
<1>9. 1 \in 1..j
  BY <1>4
<1>10. \A k \in 1..(i - 1) : removals'[k].phi # x
  BY <1>3, <1>7
<1>11. CASE removals[j].by \in DefinedRegs
  BY <1>3, <1>6, <1>10, <1>11
<1>12. CASE /\ removals[j].by \in N
            /\ \A k \in 1..j : removals[k].phi # removals[j].by
  <2>1. \A k \in 1..i : removals'[k].phi # removals'[i].by
    BY <1>6, <1>8, <1>12
  <2>2. removals[j].by # removals[1].phi
    BY <1>9, <1>12
  <2> QED
    BY <1>3, <1>6, <1>10, <1>12, <2>1, <2>2
<1> QED
  BY <1>3, <1>11, <1>12

-----------------------------------------------------------------------------
(* What is read is defined                                                 *)

(* The fix-up never comes upon a phi that waits or a foreign variable.     *)
LEMMA FixupGoesOn ==
  ASSUME InductiveSSA, Shape, OneVariable, WaitingOK, Live
  PROVE  NoFixupFault
<1> SUFFICES ASSUME FixupDefinitions PROVE calls' = calls
  BY DEF NoFixupFault
<1>1. /\ Running("fixup") /\ calls # <<>> /\ top.at = "fixup"
      /\ top = calls[1] /\ removals # <<>> /\ TypeOK
  BY TopFields DEF FixupDefinitions, InductiveSSA
<1>2. Removing
  BY <1>1 DEF Removing, Removes
<1>3. PICK v \in Var : IsAbout(v) /\ VarOf(top.phi) = v
  BY <1>1, TopIsAbout DEF Marks
<1>4. /\ Head(removals) = removals[1] /\ 1 \in DOMAIN removals
      /\ removals[1].phi \in Removed /\ removals[1].phi \in Reg
  BY <1>1, InRemoved
<1>5. removals[1] \in Range(removals)
  BY <1>4 DEF Range
<1>6. VarOf(Head(removals).by) = VarOf(top.phi)
  BY <1>2, <1>3, <1>4, <1>5 DEF IsAbout
<1>7. ASSUME RemovedIncomplete(Head(removals).phi) PROVE FALSE
  <2>1. PICK b \in Block : Head(removals).phi \in Range(incomplete[b])
    BY <1>7 DEF RemovedIncomplete
  <2>2. <<b, Head(removals).phi>> \in phis
    BY <2>1 DEF WaitingOK
  <2>3. Head(removals).phi \in DefinedRegs
    BY <2>2, InPhiRegs DEF DefinedRegs
  <2> QED
    BY <1>2, <1>4, <2>3 DEF Live
<1> QED
  BY <1>6, <1>7 DEF FixupDefinitions

LEMMA ReplacementIsDefined ==
  ASSUME InductiveSSA, Shape, UsesAreDefined, TryTrivial,
         top.phi \in PhiRegs, NEW by \in NonSelfArgs(top.phi)
  PROVE  by \in DefinedRegs /\ by \in DefinedRegs'
<1>1. PICK a \in phiArgs : a.phi = top.phi /\ a.value = by /\ by # top.phi
  BY InNonSelfArgs
<1>2. by \in DefinedRegs
  BY <1>1 DEF UsesAreDefined
<1> QED
  BY <1>1, <1>2, RemovedDefinition

(* What is tried is a phi, or one that has just been removed.              *)
LEMMA TriedIsPhi ==
  ASSUME InductiveSSA, Shape, Live, TryTrivial
  PROVE  /\ Removing /\ top.phi \in Reg /\ top.phi \in PhiRegs \cup Removed
         /\ top.phi \in PhiRegs => top.phi \notin Removed
         /\ top.phi \in Removed => top.phi \notin DefinedRegs
<1>1. /\ calls \in Seq(Frame) /\ calls # <<>> /\ top.at = "try"
      /\ top.phi \in Reg /\ top = calls[1]
  BY TopFields DEF TryTrivial
<1>2. top \in Frames /\ IsTried(top, top.phi)
  BY <1>1, ShapeFacts DEF IsTried
<1>3. Removing
  BY <1>1 DEF Removing, Removes, Tries
<1>4. top.phi \in PhiRegs \cup Removed /\ Removed \cap DefinedRegs = {}
  BY <1>1, <1>2, <1>3 DEF Live
<1> QED
  BY <1>1, <1>3, <1>4 DEF DefinedRegs

LEMMA RemovalKeepsUses ==
  ASSUME InductiveSSA, Shape, Live, UsesAreDefined, TryTrivial
  PROVE  UsesAreDefined'
<1>1. PICK by \in Reg :
        /\ by \in NonSelfArgs(top.phi)
        /\ phiArgs' = {Renamed(a, top.phi, by) : a \in phiArgs}
        /\ ReplaceInOps(top.phi, by)
  BY TryTrivialArgs
<1>2. /\ ops \in [Block -> Seq(Op)] /\ phiArgs \subseteq PhiArg
  BY DEF InductiveSSA, TypeOK
<1>3. ASSUME NEW r, r \in DefinedRegs
      PROVE  Replace(r, top.phi, by) \in DefinedRegs'
  <2>1. CASE r = top.phi
    <3>1. top.phi \in PhiRegs
      BY <1>3, <2>1, TriedIsPhi
    <3>2. by \in DefinedRegs'
      BY <1>1, <3>1, ReplacementIsDefined
    <3> QED
      BY <2>1, <3>2 DEF Replace
  <2>2. CASE r # top.phi
    BY <1>3, <2>2, RemovedDefinition DEF Replace
  <2> QED
    BY <2>1, <2>2
<1>4. ASSUME NEW b \in Block, NEW o \in Range(ops'[b])
      PROVE  o.reg \in DefinedRegs'
  <2>1. ops'[b] = [i \in DOMAIN ops[b] |->
                     IF ops[b][i].kind = "write"
                       THEN ops[b][i]
                       ELSE [ops[b][i] EXCEPT !.reg = Replace(@, top.phi, by)]]
    BY <1>1 DEF ReplaceInOps
  <2>2. PICK i \in DOMAIN ops[b] : o = ops'[b][i]
    BY <2>1 DEF Range
  <2>3. ops[b][i] \in Op /\ ops[b][i].reg \in DefinedRegs
    <3>1. ops[b][i] \in Range(ops[b])
      BY <2>2 DEF Range
    <3>2. ops[b] \in Seq(Op)
      BY <1>2
    <3> QED
      BY <2>2, <3>1, <3>2 DEF UsesAreDefined
  <2>4. CASE ops[b][i].kind = "write"
    <3>1. o = ops[b][i]
      BY <2>1, <2>2, <2>4
    <3>2. o.reg \in WrittenRegs
      BY <2>2, <2>4, <3>1, WrittenAt
    <3> QED
      BY <3>2, RemovedDefinition DEF DefinedRegs
  <2>5. CASE ops[b][i].kind # "write"
    <3>1. o = [ops[b][i] EXCEPT !.reg = Replace(@, top.phi, by)]
      BY <2>1, <2>2, <2>5
    <3>2. o.reg = Replace(ops[b][i].reg, top.phi, by)
      BY <2>3, <3>1 DEF Op
    <3> QED
      BY <1>3, <2>3, <3>2
  <2> QED
    BY <2>4, <2>5
<1>5. ASSUME NEW a \in phiArgs', a.phi \in PhiRegs'
      PROVE  a.value \in DefinedRegs'
  <2>1. PICK c \in phiArgs : a = Renamed(c, top.phi, by)
    BY <1>1
  <2>2. c \in PhiArg /\ a.phi = c.phi
    BY <1>2, <2>1, RenamedFields
  <2>3. c.phi \in PhiRegs \ {top.phi}
    BY <1>5, <2>2, RemovedDefinition
  <2>4. a.value = Replace(c.value, top.phi, by)
    BY <2>1, <2>2, <2>3, RenamedFields
  <2>5. c.value \in DefinedRegs
    BY <2>3 DEF UsesAreDefined
  <2> QED
    BY <1>3, <2>4, <2>5
<1> QED
  BY <1>4, <1>5 DEF UsesAreDefined

LEMMA UsesAreDefinedNext ==
  ASSUME InductiveSSA, Shape, Issued, Live, UsesAreDefined, [Next]_vars
  PROVE  UsesAreDefined'
<1>1. CASE TryTrivial
  BY <1>1, RemovalKeepsUses
<1>2. CASE ~TryTrivial
  <2>0. PhiRegs \subseteq PhiRegs' /\ DefinedRegs \subseteq DefinedRegs'
    BY <1>2, DefinedGrow
  <2>1. ASSUME NEW o \in Op, AddOp(o), o.reg \in DefinedRegs'
        PROVE  \A b \in Block : \A p \in Range(ops'[b]) : p.reg \in DefinedRegs'
    <3>1. \A b \in Block : \A p \in Range(ops'[b]) : p = o \/ p \in Range(ops[b])
      BY <2>1, AppendedOp DEF InductiveSSA
    <3> QED
      BY <2>0, <2>1, <3>1 DEF UsesAreDefined
  <2>2. \A b \in Block : \A p \in Range(ops'[b]) : p.reg \in DefinedRegs'
    <3>1. CASE ops' = ops
      BY <2>0, <3>1 DEF UsesAreDefined
    <3>2. CASE AddUse
      <4>1. ret \in Reg /\ calls # <<>> /\ top.at = "use"
        BY <3>2, GivenResult, TopFields DEF AddUse, Consumers
      <4>2. [kind |-> "read", reg |-> ret] \in Op
        BY <4>1 DEF Op
      <4>3. ret \in DefinedRegs
        BY <4>1 DEF Live
      <4> QED
        BY <2>0, <2>1, <3>2, <4>2, <4>3 DEF AddUse
    <3>3. ASSUME NEW v \in Var, Assign(v)
          PROVE  \A b \in Block : \A p \in Range(ops'[b]) :
                   p.reg \in DefinedRegs'
      <4> DEFINE o == [kind |-> "write", reg |-> NewRegister(v)]
      <4>1. o \in Op /\ o.kind = "write"
        BY QueryTypes DEF InductiveSSA, Op
      <4>2. AddOp(o)
        BY <3>3 DEF Assign
      <4> HIDE DEF o
      <4>3. o.reg \in WrittenRegs'
        BY <4>1, <4>2, AppendedOp DEF InductiveSSA
      <4>4. o.reg \in DefinedRegs'
        BY <4>3 DEF DefinedRegs
      <4> QED
        BY <2>1, <4>1, <4>2, <4>4
    <3>4. ASSUME NEW r \in DefinedRegs, UseHeld(r)
          PROVE  \A b \in Block : \A p \in Range(ops'[b]) :
                   p.reg \in DefinedRegs'
      <4>1. [kind |-> "held", reg |-> r] \in Op
        BY UsedRegs DEF InductiveSSA, Op
      <4> QED
        BY <2>0, <2>1, <3>4, <4>1 DEF UseHeld
    <3> QED
      BY <1>2, <3>1, <3>2, <3>3, <3>4, Changes
  <2>3. ASSUME NEW a \in phiArgs, a.phi \in PhiRegs'
        PROVE  a.value \in DefinedRegs'
    <3>1. CASE a.phi \in PhiRegs
      BY <2>0, <3>1 DEF UsesAreDefined
    <3>2. CASE a.phi \notin PhiRegs
      <4>1. PICK p \in phis' : p[2] = a.phi
        BY <2>3, InPhiRegs
      <4>2. p \notin phis
        BY <3>2, <4>1, InPhiRegs
      <4>3. /\ ReadUnsealed \/ ReadJoin
            /\ a.phi = NewRegister(top.var)
        BY <4>1, <4>2, PhisNext
      <4>4. top.var \in Var
        BY <4>3, TopFields DEF ReadUnsealed, ReadJoin, Missing, Reading
      <4> QED
        BY <4>3, <4>4, NewPhiIsFresh
    <3> QED
      BY <3>1, <3>2
  <2>4. ASSUME NEW a \in phiArgs', a.phi \in PhiRegs'
        PROVE  a.value \in DefinedRegs'
    <3>1. CASE phiArgs' = phiArgs
      BY <2>3, <2>4, <3>1
    <3>2. CASE AppendOperand
      <4>1. calls # <<>> /\ top.at = "operand"
        BY <3>2, TopFields DEF AppendOperand
      <4>2. ret \in DefinedRegs
        BY <4>1 DEF Live
      <4>3. a \in phiArgs \/ a.value = ret
        BY <2>4, <3>2 DEF AppendOperand
      <4> QED
        BY <2>0, <2>3, <2>4, <4>2, <4>3
    <3> QED
      BY <1>2, <3>1, <3>2, Changes
  <2> QED
    BY <2>2, <2>4 DEF UsesAreDefined
<1> QED
  BY <1>1, <1>2

(* Where a call returns to.                                                *)
LEMMA ReturnsTo ==
  ASSUME InductiveSSA, Shape, NEW k, Running(k), calls' = Tail(calls)
  PROVE  /\ k \in Tries => calls' # <<>>
         /\ calls' # <<>> =>
              /\ k \in {"read", "write"} =>
                   (top').at \in {"write", "operand", "use"}
              /\ k \in Tries => (top').at \in {"users", "result"}
              /\ k \in {"result", "fixup"} => (top').at \in {"write", "sealing"}
              /\ k \in {"seal", "sealing"} => (top').at = "finalise"
              /\ k # "use"
              /\ calls'[1] = top'
<1>1. /\ calls \in Seq(Frame) /\ calls # <<>> /\ top.at = k /\ top = calls[1]
  BY TopFields
<1>2. ASSUME k \in Tries PROVE calls' # <<>>
  <2>1. /\ DOMAIN calls = 1..Len(calls) /\ Len(calls) \in Nat /\ Len(calls) >= 1
    BY <1>1, Positions
  <2>2. PICK j \in DOMAIN calls : 1 < j /\ calls[j].at = "result"
    <3>1. 1 \in DOMAIN calls /\ calls[1].at \in Tries
      BY <1>1, <1>2, <2>1
    <3> QED
      BY <3>1 DEF Shape
  <2>3. Len(calls) > 1
    BY <2>1, <2>2
  <2>4. Len(Tail(calls)) = Len(calls) - 1
    BY <1>1
  <2> QED
    BY <2>1, <2>3, <2>4
<1>3. ASSUME calls' # <<>>
      PROVE  MayCall(top', top) /\ calls'[1] = top' /\ k # "use"
  <2>1. MayCall(top', top) /\ calls'[1] = top'
    BY <1>3, AfterReturn
  <2>2. k # "use"
    BY <1>1, <1>3, ShapeFacts
  <2> QED
    BY <2>1, <2>2
<1> QED
  BY <1>1, <1>2, <1>3 DEF MayCall, Marks, Tries, Gathers

(* Outside of the removals.                                                *)
LEMMA OutsideNext ==
  ASSUME InductiveSSA, Shape, Live, [Next]_vars, ~Removing, ~OperandsComplete
  PROVE  /\ ~Removing'
         /\ calls' # <<>> /\ (top').at \in {"write", "operand", "use"}
              => ret' \in DefinedRegs'
<1>0. calls # <<>> => top.at \notin Removes
  <2>1. calls # <<>> => top = calls[1]
    BY Positions DEF InductiveSSA, TypeOK
  <2> QED
    BY <2>1 DEF Removing
<1>1. DefinedRegs \subseteq DefinedRegs'
  <2>1. ~TryTrivial
    BY <1>0, TopFields DEF TryTrivial, Removes, Tries
  <2> QED
    BY <2>1, DefinedGrow
<1>2. CASE ReadLocal \/ ReadUnsealed \/ WriteBack
  <2>1. PICK k \in {"read", "write"} : Running(k)
    BY <1>2 DEF ReadLocal, ReadUnsealed, WriteBack, Missing, Reading
  <2>2. calls' = Tail(calls)
    BY <1>2, ReturnMoves
  <2>3. calls' # <<>> => (top').at \in {"write", "operand", "use"}
                         /\ calls'[1] = top'
    BY <2>1, <2>2, ReturnsTo
  <2>4. ~Removing'
    BY <2>3 DEF Removing, Removes, Tries
  <2>5. ret' \in DefinedRegs'
    <3>1. CASE ReadLocal
      <4>1. /\ top.var \in Var /\ top.block \in Block
            /\ currentDef[<<top.var, top.block>>] # NoReg
            /\ ret' = currentDef[<<top.var, top.block>>]
        BY <3>1, TopFields DEF ReadLocal, Reading, Found, Return
      <4>2. ret' \in Range(currentDef)
        BY <4>1, InCurrentDef DEF InductiveSSA
      <4>3. ret' \in DefinedRegs
        BY <4>1, <4>2 DEF Live
      <4> QED
        BY <1>1, <4>3
    <3>2. CASE ReadUnsealed
      <4>1. ret' = NewRegister(top.var)
        BY <3>2 DEF ReadUnsealed, Return
      <4>2. <<top.block, NewRegister(top.var)>> \in phis'
        BY <3>2, PhisNext
      <4>3. ret' \in PhiRegs'
        BY <4>1, <4>2, InPhiRegs
      <4> QED
        BY <4>3 DEF DefinedRegs
    <3>3. CASE WriteBack
      <4>1. calls # <<>> /\ top.at = "write" /\ ret' = ret
        BY <3>3, TopFields DEF WriteBack, Return
      <4>2. ret \in DefinedRegs
        BY <4>1 DEF Live
      <4> QED
        BY <1>1, <4>1, <4>2
    <3> QED
      BY <1>2, <3>1, <3>2, <3>3
  <2> QED
    BY <2>4, <2>5
<1>3. CASE \/ ReadSinglePredecessor \/ ReadJoin \/ ReadOperand
           \/ AppendOperand \/ CompletePhi
  <2>1. /\ calls' # <<>> /\ calls'[1] = top'
        /\ (top').at \in {"read", "operands"}
    BY <1>3, ReadSinglePredecessorMoves, ReadJoinMoves, ReadOperandMoves,
       AppendOperandMoves, CompletePhiMoves, FrameKinds
  <2> QED
    BY <2>1 DEF Removing, Removes, Tries
<1>4. CASE StartSeal \/ FinaliseSeal \/ FinaliseComplete
  <2>1. calls' # <<>> => /\ calls'[1] = top'
                         /\ (top').at \in {"seal", "sealing"}
    <3>1. CASE StartSeal
      BY <3>1, StartSealMoves, FrameKinds
    <3>2. CASE FinaliseSeal
      <4>1. PICK b \in top.blocks :
              calls' # <<>> /\ calls'[1] = SealFrame(b) /\ top' = SealFrame(b)
        BY <3>2, FinaliseSealMoves
      <4> QED
        BY <4>1, FrameKinds
    <3>3. CASE FinaliseComplete
      BY <3>3, FinaliseCompleteMoves
    <3> QED
      BY <1>4, <3>1, <3>2, <3>3
  <2> QED
    BY <2>1 DEF Removing, Removes, Tries
<1>5. CASE SealComplete \/ AddUse
  <2>1. PICK k \in {"sealing", "use"} : Running(k)
    BY <1>5 DEF SealComplete, AddUse
  <2>2. calls' = Tail(calls)
    BY <1>5, ReturnMoves
  <2>3. calls' # <<>> => (top').at = "finalise" /\ calls'[1] = top'
    BY <2>1, <2>2, ReturnsTo
  <2> QED
    BY <2>3 DEF Removing, Removes, Tries
<1>6. CASE Client
  <2>1. calls' # <<>> => /\ calls'[1] = top'
                         /\ (top').at \in {"read", "seal", "finalise"}
    <3>1. CASE calls' = <<>>
      BY <3>1
    <3>2. CASE \E v \in Var : /\ top' = ReadFrame(v, active) /\ calls' # <<>>
                              /\ calls'[1] = ReadFrame(v, active)
      BY <3>2, FrameKinds
    <3>3. CASE \E b \in Block : /\ top' = SealFrame(b) /\ calls' # <<>>
                                /\ calls'[1] = SealFrame(b)
      BY <3>3, FrameKinds
    <3>4. CASE \E bs \in SUBSET Block :
                 /\ top' = FinaliseFrame(bs) /\ calls' # <<>>
                 /\ calls'[1] = FinaliseFrame(bs)
      BY <3>4, FrameKinds
    <3> QED
      BY <1>6, <3>1, <3>2, <3>3, <3>4, ClientMoves
  <2> QED
    BY <2>1 DEF Removing, Removes, Tries
<1>7. CASE UNCHANGED vars
  BY <1>1, <1>7 DEF vars, callVars, Removing, Live, top
<1>8. CASE \/ CollectResult \/ FixupDefinitions \/ FixupComplete
           \/ TryUndefined \/ TryNotTrivial \/ TryTrivial \/ TryUsers
  <2>1. PICK k \in Removes : Running(k)
    BY <1>8 DEF CollectResult, FixupDefinitions, FixupComplete,
       TryUndefined, TryNotTrivial, TryTrivial, TryUsers, Removes, Tries
  <2> QED
    BY <1>0, <2>1, TopFields
<1> QED
  BY <1>2, <1>3, <1>4, <1>5, <1>6, <1>7, <1>8 DEF Next, Step

LEMMA OutsideLive ==
  ASSUME InductiveSSA, TypeOK', Shape, Live, [Next]_vars,
         ~Removing, ~OperandsComplete
  PROVE  Live'
<1>1. /\ ~Removing'
      /\ calls' # <<>> /\ (top').at \in {"write", "operand", "use"}
           => ret' \in DefinedRegs'
  BY OutsideNext
<1>2. \A d \in Var \X Block : currentDef[d] \in DefinedRegs \cup {NoReg}
  BY InCurrentDef DEF Live, InductiveSSA
<1>3. DefinedRegs \subseteq DefinedRegs'
  <2>1. ~TryTrivial
    BY TopFields DEF TryTrivial, Removing, Removes, Tries
  <2> QED
    BY <2>1, DefinedGrow
<1>4. currentDef \in [Var \X Block -> Reg \cup {NoReg}]
  BY DEF InductiveSSA, TypeOK
<1>5. ASSUME NEW v, NEW b, NEW r \in DefinedRegs',
             WriteVariable(v, b, r), NEW d \in Var \X Block
      PROVE  currentDef'[d] \in DefinedRegs' \cup {NoReg}
  <2>1. currentDef'[d] \in {currentDef[d], r}
    BY <1>4, <1>5 DEF WriteVariable
  <2> QED
    BY <1>2, <1>3, <1>5, <2>1
<1>6. ASSUME NEW d \in Var \X Block
      PROVE  currentDef'[d] \in DefinedRegs' \cup {NoReg}
  <2>1. CASE currentDef' = currentDef
    BY <1>2, <1>3, <2>1
  <2>2. CASE ReadUnsealed \/ ReadJoin
    <3>1. WriteVariable(top.var, top.block, NewRegister(top.var))
      BY <2>2 DEF ReadUnsealed, ReadJoin
    <3>2. NewRegister(top.var) \in PhiRegs'
      BY <2>2, PhisNext, InPhiRegs
    <3>3. PICK r : r = NewRegister(top.var)
      OBVIOUS
    <3>4. r \in DefinedRegs'
      BY <3>2, <3>3 DEF DefinedRegs
    <3> QED
      BY <1>5, <3>1, <3>3, <3>4
  <2>3. CASE WriteBack
    <3>1. /\ calls # <<>> /\ top.at = "write"
          /\ WriteVariable(top.var, top.block, ret)
      BY <2>3, TopFields DEF WriteBack
    <3>2. ret \in DefinedRegs
      BY <3>1 DEF Live
    <3> QED
      BY <1>3, <1>5, <3>1, <3>2
  <2>4. ASSUME NEW v \in Var, Assign(v)
        PROVE  currentDef'[d] \in DefinedRegs' \cup {NoReg}
    <3> DEFINE o == [kind |-> "write", reg |-> NewRegister(v)]
    <3>1. o \in Op /\ o.kind = "write" /\ o.reg = NewRegister(v)
      BY QueryTypes DEF InductiveSSA, Op
    <3>2. AddOp(o) /\ WriteVariable(v, active, NewRegister(v))
      BY <2>4 DEF Assign
    <3> HIDE DEF o
    <3>3. o.reg \in WrittenRegs'
      BY <3>1, <3>2, AppendedOp DEF InductiveSSA
    <3>4. NewRegister(v) \in DefinedRegs'
      BY <3>1, <3>3 DEF DefinedRegs
    <3> QED
      BY <1>5, <3>2, <3>4
  <2>5. ~FixupDefinitions
    BY TopFields DEF FixupDefinitions, Removing, Removes
  <2> QED
    BY <2>1, <2>2, <2>3, <2>4, <2>5, Changes
<1>7. Range(currentDef') \subseteq DefinedRegs' \cup {NoReg}
  BY <1>6 DEF TypeOK, Range
<1> QED
  BY <1>1, <1>7 DEF Live

(* A removal begins.                                                       *)
LEMMA BeginLive ==
  ASSUME InductiveSSA, Shape, FillingOK, Live, [Next]_vars, OperandsComplete
  PROVE  Live'
<1>1. /\ calls \in Seq(Frame) /\ calls # <<>> /\ top.at = "operands"
      /\ top = calls[1] /\ top.phi \in Reg
  BY TopFields DEF OperandsComplete
<1>2. top \in Frames /\ top.at \in Gathers
  BY <1>1, ShapeFacts DEF Gathers
<1>3. ~Removing
  BY <1>1 DEF Removing, Removes, Tries
<1>4. /\ phis' = phis /\ ops' = ops /\ currentDef' = currentDef
      /\ removals' = <<>>
  BY DEF OperandsComplete, ssaVars, cfgVars
<1>5. PhiRegs' = PhiRegs /\ DefinedRegs' = DefinedRegs
  BY <1>4 DEF PhiRegs, ParamRegs, WrittenRegs, DefinedRegs
<1>6. top.phi \in PhiRegs'
  BY <1>2, <1>5, InPhiRegs DEF FillingOK
<1>7. /\ Frames' = {PhiFrame("try", top.phi), PhiFrame("result", top.phi)}
                   \cup Below
      /\ calls' # <<>> /\ calls'[1] = PhiFrame("try", top.phi)
      /\ top' = PhiFrame("try", top.phi)
  BY OperandsCompleteMoves
<1>8. (top').at = "try" /\ (calls'[1]).at = "try" /\ Removing'
  BY <1>7, FrameKinds DEF Removing, Removes, Tries
<1>9. Removed' = {}
  BY <1>4 DEF Removed, Range
<1>10. Range(currentDef') \subseteq DefinedRegs' \cup {NoReg}
  BY <1>3, <1>4, <1>5 DEF Live
<1>11. \E N \in SUBSET Removed' : Pending(N)'
  <2>1. Pending({})'
    BY <1>4, <1>8, <1>10 DEF Pending
  <2> QED
    BY <2>1
<1>12. ASSUME NEW f \in Frames'
       PROVE  /\ \A x \in Reg : IsTried(f, x) => x \in PhiRegs'
              /\ f.at = "result" => f.phi \in PhiRegs'
  <2>1. CASE f \in Below
    <3>1. f.at \notin Removes
      BY <1>1, <2>1, ShapeFacts DEF Tries
    <3> QED
      BY <3>1 DEF IsTried, Removes, Tries
  <2>2. CASE f \in {PhiFrame("try", top.phi), PhiFrame("result", top.phi)}
    BY <1>6, <2>2, FrameKinds DEF IsTried
  <2> QED
    BY <1>7, <2>1, <2>2
<1> QED
  BY <1>8, <1>9, <1>11, <1>12 DEF Live, IsTried

(* A removal goes on: what is tried was to be tried.                       *)
LEMMA GoesOnLive ==
  ASSUME InductiveSSA, Shape, Live, [Next]_vars,
         TryUndefined \/ TryNotTrivial \/ TryUsers
  PROVE  Live'
<1>1. PICK k \in Tries : Running(k)
  BY DEF TryUndefined, TryNotTrivial, TryUsers, Tries
<1>2. /\ calls \in Seq(Frame) /\ calls # <<>> /\ top.at \in Tries
      /\ top = calls[1] /\ Frames = {top} \cup Below /\ top \in Frames
      /\ top.at = "users" => top.users \subseteq Reg
  BY <1>1, TopFields, ShapeFacts
<1>3. Removing
  BY <1>2 DEF Removing, Removes
<1>4. /\ phis' = phis /\ ops' = ops /\ currentDef' = currentDef
      /\ removals' = removals
  BY DEF TryUndefined, TryNotTrivial, TryUsers, ssaVars, cfgVars
<1>5. /\ PhiRegs' = PhiRegs /\ DefinedRegs' = DefinedRegs
      /\ Removed' = Removed
  BY <1>4 DEF PhiRegs, ParamRegs, WrittenRegs, DefinedRegs, Removed
<1>6. /\ calls' # <<>> /\ calls'[1] = top'
      /\ (top').at \in {"users", "result", "try"}
      /\ \A f \in Frames' :
           \/ f \in Frames
           \/ /\ f.at # "result"
              /\ \A x \in Reg : IsTried(f, x) => IsTried(top, x)
  <2>1. CASE calls' = Tail(calls) /\ Frames' = Below
    BY <1>1, <1>2, <2>1, ReturnsTo
  <2>2. ASSUME NEW u \in top.users, TryUsers,
               Frames' = {PhiFrame("try", u), UsersFrame(top.users \ {u})}
                         \cup Below,
               top' = PhiFrame("try", u), calls' # <<>>,
               calls'[1] = PhiFrame("try", u)
        PROVE  /\ calls' # <<>> /\ calls'[1] = top' /\ (top').at = "try"
               /\ \A f \in Frames' :
                    \/ f \in Frames
                    \/ /\ f.at # "result"
                       /\ \A x \in Reg : IsTried(f, x) => IsTried(top, x)
    <3>1. top.at = "users"
      BY <2>2, TopFields DEF TryUsers
    <3> QED
      BY <1>2, <2>2, <3>1, FrameKinds DEF IsTried, UsersFrame
  <2> QED
    BY <2>1, <2>2, ReturnMoves, TryUsersMoves
<1>7. Removing' /\ (top').at \notin {"write", "operand", "use", "fixup"}
  BY <1>6 DEF Removing, Removes, Tries
<1>8. \E N \in SUBSET Removed' : Pending(N)'
  <2>1. PICK N \in SUBSET Removed : Pending(N)
    BY <1>3 DEF Live
  <2>2. \A x \in N : Resolves(N, x)'
    BY <1>4, <1>5, <2>1 DEF Pending, Resolves
  <2>3. top.at # "fixup"
    BY <1>2 DEF Tries
  <2>4. Pending(N)'
    BY <1>4, <1>5, <1>7, <2>1, <2>2, <2>3 DEF Pending
  <2> QED
    BY <1>5, <2>1, <2>4
<1>9. ASSUME NEW f \in Frames'
      PROVE  /\ \A x \in Reg : IsTried(f, x) => x \in PhiRegs' \cup Removed'
             /\ f.at = "result" /\ removals' = <<>> => f.phi \in PhiRegs'
  <2>1. CASE f \in Frames
    BY <1>3, <1>4, <1>5, <2>1 DEF Live
  <2>2. CASE /\ f.at # "result"
             /\ \A x \in Reg : IsTried(f, x) => IsTried(top, x)
    BY <1>2, <1>3, <1>5, <2>2 DEF Live
  <2> QED
    BY <1>6, <2>1, <2>2
<1>10. Removed' \cap DefinedRegs' = {}
  BY <1>3, <1>5 DEF Live
<1> QED
  BY <1>7, <1>8, <1>9, <1>10 DEF Live, IsTried

(* A trivial phi is removed.                                               *)
LEMMA RemoveLive ==
  ASSUME InductiveSSA, Shape, UsesAreDefined, Live, [Next]_vars, TryTrivial
  PROVE  Live'
<1> PICK p : p = top.phi
  OBVIOUS
<1>1. /\ calls \in Seq(Frame) /\ calls # <<>> /\ top.at = "try"
      /\ top = calls[1] /\ Frames = {top} \cup Below
  BY TopFields, ShapeFacts DEF TryTrivial
<1>2. PICK by \in Reg :
        /\ by \in NonSelfArgs(p)
        /\ removals' = Append(removals, [phi |-> p, by |-> by])
        /\ removals' \in Seq(Removal)
  BY TryTrivialArgs
<1>3. /\ Removing /\ p \in Reg /\ p \in PhiRegs \cup Removed
      /\ p \in PhiRegs => p \notin Removed
      /\ p \in Removed => p \notin DefinedRegs
  BY TriedIsPhi
<1>4. /\ PhiRegs' = PhiRegs \ {p} /\ DefinedRegs' \subseteq DefinedRegs
      /\ \A r : r \in DefinedRegs /\ r # p => r \in DefinedRegs'
      /\ p \in PhiRegs => p \notin DefinedRegs'
  BY RemovedDefinition
<1>5. p \in PhiRegs => by \in DefinedRegs'
  BY <1>2, ReplacementIsDefined
<1>0. PICK r : r = [phi |-> p, by |-> by]
  OBVIOUS
<1>6. r \in Removal /\ r.phi = p /\ r.by = by
  BY <1>0, <1>2, <1>3 DEF Removal
<1>7. /\ removals \in Seq(Removal)
      /\ DOMAIN removals = 1..Len(removals) /\ Len(removals) \in Nat
  BY DEF InductiveSSA, TypeOK
<1>8. /\ removals' = Append(removals, r)
      /\ DOMAIN removals' = 1..(Len(removals) + 1)
      /\ \A i \in 1..Len(removals) : removals'[i] = removals[i]
      /\ removals'[Len(removals) + 1] = r
      /\ removals' # <<>>
  BY <1>0, <1>2, <1>6, <1>7
<1>9. Removed' = Removed \cup {p}
  <2>1. Range(removals') = Range(removals) \cup {r}
    BY <1>6, <1>7, <1>8, AppendRange
  <2> QED
    BY <1>6, <2>1 DEF Removed
<1>10. Removed' \cap DefinedRegs' = {}
  BY <1>3, <1>4, <1>9 DEF Live
<1>11. /\ Frames' = {UsersFrame(UsersOf(p))} \cup Below
       /\ top' = UsersFrame(UsersOf(p)) /\ calls' # <<>>
       /\ calls'[1] = UsersFrame(UsersOf(p))
  BY TryTrivialMoves
<1>12. (top').at = "users" /\ (calls'[1]).at = "users" /\ Removing'
  BY <1>11, FrameKinds DEF Removing, Removes, Tries
<1>13. PICK N \in SUBSET Removed : Pending(N)
  BY <1>3 DEF Live
<1>14. PICK M : M = IF p \in PhiRegs THEN N \cup {p} ELSE N
  OBVIOUS
<1>15. \A y \in DefinedRegs : y \in DefinedRegs' \/ (y = r.phi /\ y \in M)
  BY <1>3, <1>4, <1>6, <1>14 DEF Live
<1>16. r.phi \in DefinedRegs => r.phi \notin Removed
  BY <1>3, <1>6
<1>17. \A x \in N : Resolves(M, x)'
  <2>1. ASSUME NEW x \in N PROVE Resolves(M, x)'
    <3>1. Resolves(N, x) /\ N \subseteq M
      BY <1>13, <1>14, <2>1 DEF Pending
    <3>2. TypeOK
      BY DEF InductiveSSA
    <3> QED
      BY <1>6, <1>8, <1>15, <1>16, <3>1, <3>2, ResolvesAppend
  <2> QED
    BY <2>1
<1>18. ASSUME p \in PhiRegs PROVE Resolves(M, p)'
  <2>1. PICK i : i = Len(removals) + 1
    OBVIOUS
  <2>2. i \in DOMAIN removals' /\ removals'[i].phi = p
        /\ removals'[i].by \in DefinedRegs'
    BY <1>5, <1>6, <1>7, <1>8, <1>18, <2>1
  <2>3. \A k \in 1..(i - 1) : removals'[k] = removals[k] /\ k \in DOMAIN removals
    BY <1>7, <1>8, <2>1
  <2>4. \A k \in DOMAIN removals : removals[k].phi # p
    BY <1>3, <1>18, InRemoved DEF InductiveSSA
  <2>5. \A k \in 1..(i - 1) : removals'[k].phi # p
    BY <2>3, <2>4
  <2> QED
    BY <2>2, <2>5 DEF Resolves
<1>19. Pending(M)'
  <2>1. \A x \in M : Resolves(M, x)'
    BY <1>14, <1>17, <1>18
  <2>2. Range(currentDef') \subseteq DefinedRegs' \cup {NoReg} \cup M
    <3>1. currentDef' = currentDef
      BY DEF TryTrivial
    <3>2. Range(currentDef) \subseteq DefinedRegs \cup {NoReg} \cup N
      BY <1>13 DEF Pending
    <3>3. N \subseteq M
      BY <1>14
    <3> QED
      BY <1>6, <1>15, <3>1, <3>2, <3>3
  <2>3. (removals'[1]).phi \in M
    <3>1. CASE removals = <<>>
      <4>1. removals'[1] = r
        BY <1>8, <3>1
      <4>2. p \in PhiRegs
        BY <1>3, <3>1, InRemoved DEF InductiveSSA
      <4> QED
        BY <1>6, <1>14, <4>1, <4>2
    <3>2. CASE removals # <<>>
      <4>1. removals'[1] = removals[1]
        BY <1>7, <1>8, <3>2
      <4>2. removals[1].phi \in N
        BY <1>1, <1>13, <3>2 DEF Pending
      <4> QED
        BY <1>14, <4>1, <4>2
    <3> QED
      BY <3>1, <3>2
  <2> QED
    BY <1>12, <2>1, <2>2, <2>3 DEF Pending
<1>20. M \in SUBSET Removed'
  BY <1>9, <1>13, <1>14
<1>21. ASSUME NEW f \in Frames', NEW x \in Reg, IsTried(f, x)
       PROVE  x \in PhiRegs' \cup Removed'
  <2>1. CASE f \in Below
    <3>1. x \in PhiRegs \cup Removed
      BY <1>1, <1>3, <1>21, <2>1 DEF Live
    <3> QED
      BY <1>4, <1>9, <3>1
  <2>2. CASE f = UsersFrame(UsersOf(p))
    <3>1. x \in UsersOf(p)
      BY <1>21, <2>2, FrameKinds DEF IsTried, UsersFrame
    <3> QED
      BY <1>4, <3>1 DEF UsersOf
  <2> QED
    BY <1>11, <2>1, <2>2
<1> QED
  BY <1>8, <1>10, <1>12, <1>19, <1>20, <1>21 DEF Live, IsTried

(* The replacement of the first removed phi is the result.                 *)
LEMMA CollectLive ==
  ASSUME InductiveSSA, TypeOK', Shape, Live, [Next]_vars, CollectResult
  PROVE  Live'
<1>1. /\ Running("result") /\ calls \in Seq(Frame) /\ calls # <<>>
      /\ top.at = "result" /\ top = calls[1] /\ top \in Frames
      /\ Frames = {top} \cup Below
  BY TopFields, ShapeFacts DEF CollectResult
<1>2. Removing
  BY <1>1 DEF Removing, Removes
<1>3. /\ phis' = phis /\ ops' = ops /\ currentDef' = currentDef
      /\ removals' = removals
  BY DEF CollectResult, ssaVars, cfgVars
<1>4. /\ PhiRegs' = PhiRegs /\ DefinedRegs' = DefinedRegs
      /\ Removed' = Removed
  BY <1>3 DEF PhiRegs, ParamRegs, WrittenRegs, DefinedRegs, Removed
<1>5. PICK N \in SUBSET Removed : Pending(N)
  BY <1>2 DEF Live
<1>6. CASE removals = <<>>
  <2>1. calls' = Tail(calls) /\ ret' = top.phi
    BY <1>6 DEF CollectResult, Return
  <2>2. top.phi \in DefinedRegs'
    BY <1>1, <1>2, <1>4, <1>6 DEF Live, DefinedRegs
  <2>3. calls' # <<>> => (top').at \notin Removes /\ calls'[1] = top'
    BY <1>1, <2>1, ReturnsTo DEF Removes, Tries
  <2>4. N = {}
    BY <1>5, <1>6, InRemoved DEF InductiveSSA
  <2>5. Range(currentDef') \subseteq DefinedRegs' \cup {NoReg}
    BY <1>3, <1>4, <1>5, <2>4 DEF Pending
  <2>6. ~Removing'
    BY <2>3 DEF Removing
  <2> QED
    BY <2>1, <2>2, <2>5, <2>6 DEF Live
<1>7. CASE removals # <<>>
  <2>1. /\ Frames' = {PhiFrame("fixup", top.phi)} \cup Below
        /\ calls' # <<>> /\ calls'[1] = PhiFrame("fixup", top.phi)
        /\ top' = PhiFrame("fixup", top.phi) /\ ret' = removals[1].by
    BY <1>7, CollectResultMoves DEF CollectResult
  <2>2. (top').at = "fixup" /\ (calls'[1]).at = "fixup" /\ Removing'
    BY <2>1, FrameKinds DEF Removing, Removes
  <2>3. removals[1].phi \in N
    BY <1>1, <1>5, <1>7 DEF Pending
  <2>4. ret' \in DefinedRegs' \cup N
    <3>1. Resolves(N, removals[1].phi)
      BY <1>5, <2>3 DEF Pending
    <3> QED
      BY <1>4, <1>7, <2>1, <3>1, FirstResolves DEF InductiveSSA
  <2>5. \A x \in N : Resolves(N, x)'
    BY <1>3, <1>4, <1>5 DEF Pending, Resolves
  <2>6. Pending(N)'
    BY <1>3, <1>4, <1>5, <2>2, <2>4, <2>5 DEF Pending
  <2>7. ASSUME NEW f \in Frames'
        PROVE  f.at # "result" /\ \A x \in Reg : ~IsTried(f, x)
    <3>1. CASE f \in Below
      <4>1. f.at \notin Removes
        BY <1>1, <3>1, ShapeFacts DEF Tries
      <4> QED
        BY <4>1 DEF IsTried, Removes, Tries
    <3>2. CASE f = PhiFrame("fixup", top.phi)
      BY <3>2, FrameKinds DEF IsTried
    <3> QED
      BY <2>1, <3>1, <3>2
  <2>8. Removed' \cap DefinedRegs' = {}
    BY <1>2, <1>4 DEF Live
  <2> QED
    BY <1>4, <1>5, <2>2, <2>6, <2>7, <2>8 DEF Live, IsTried
<1> QED
  BY <1>6, <1>7

(* One replacement is carried out in the caches.                           *)
LEMMA FixupLive ==
  ASSUME InductiveSSA, TypeOK', Shape, OneVariable, SameVariable, Live,
         [Next]_vars, NoFixupFault, FixupDefinitions
  PROVE  Live'
<1> PICK p, by : p = removals[1].phi /\ by = removals[1].by
  OBVIOUS
<1>1. /\ Running("fixup") /\ calls \in Seq(Frame) /\ calls # <<>>
      /\ top.at = "fixup" /\ top = calls[1] /\ top.phi \in Reg
      /\ removals # <<>> /\ TypeOK
  BY TopFields DEF FixupDefinitions, InductiveSSA
<1>2. Removing
  BY <1>1 DEF Removing, Removes
<1>3. /\ Head(removals) = removals[1] /\ p \in Removed /\ p \in Reg
      /\ 1 \in DOMAIN removals /\ by \in Reg
  BY <1>1, InRemoved
<1>4. /\ calls' = calls /\ ret' = Replace(ret, p, by)
      /\ currentDef' = ReplaceDefinitions(VarOf(top.phi), p, by)
      /\ removals' = Tail(removals) /\ phis' = phis /\ ops' = ops
  <2>1. calls' = calls
    BY DEF NoFixupFault
  <2>2. /\ ret' = Replace(ret, p, by)
        /\ currentDef' = ReplaceDefinitions(VarOf(top.phi), p, by)
        /\ removals' = Tail(removals)
    BY <1>1, <1>3, <2>1 DEF FixupDefinitions, Raise
  <2> QED
    BY <2>1, <2>2 DEF FixupDefinitions, cfgVars
<1>5. PhiRegs' = PhiRegs /\ DefinedRegs' = DefinedRegs
  BY <1>4 DEF PhiRegs, ParamRegs, WrittenRegs, DefinedRegs
<1>6. PICK N \in SUBSET Removed : Pending(N)
  BY <1>2 DEF Live
<1>7. PICK M : M = N \ {p}
  OBVIOUS
<1>8. p \notin DefinedRegs /\ Removed \cap DefinedRegs = {}
  BY <1>2, <1>3 DEF Live
<1>9. p \in N => by \in DefinedRegs \cup M
  <2>1. ASSUME p \in N PROVE by \in DefinedRegs \cup M
    <3>1. Resolves(N, removals[1].phi)
      BY <1>6, <2>1 DEF Pending
    <3> QED
      BY <1>1, <1>7, <3>1, FirstResolves
  <2> QED
    BY <2>1
<1>10. removals' # removals /\ \A x \in Removed : x # p => x \in Removed'
  <2>1. Range(removals) = {removals[1]} \cup Range(Tail(removals))
    BY <1>1, TailRange DEF TypeOK
  <2>2. \A x \in Removed : x # p => x \in Removed'
    BY <1>4, <2>1 DEF Removed
  <2>3. Len(Tail(removals)) = Len(removals) - 1 /\ Len(removals) \in Nat
    BY <1>1 DEF TypeOK
  <2> QED
    BY <1>4, <2>2, <2>3
<1>11. Removed' \subseteq Removed
  <2>1. Range(removals) = {removals[1]} \cup Range(Tail(removals))
    BY <1>1, TailRange DEF TypeOK
  <2> QED
    BY <1>4, <2>1 DEF Removed
<1>12. M \in SUBSET Removed'
  BY <1>6, <1>7, <1>10
<1>13. \A x \in M : Resolves(M, x)'
  <2>1. ASSUME NEW x \in M PROVE Resolves(M, x)'
    <3>1. Resolves(N, x) /\ x # removals[1].phi
      BY <1>6, <1>7, <2>1 DEF Pending
    <3> QED
      BY <1>1, <1>4, <1>5, <1>7, <3>1, ResolvesTail
  <2> QED
    BY <2>1
<1>14. \A r : r \in DefinedRegs \cup {NoReg} \cup N =>
             Replace(r, p, by) \in DefinedRegs \cup {NoReg} \cup M
  <2>1. p # NoReg
    BY <1>3, ConstantsAssumption DEF Reg
  <2> QED
    BY <1>7, <1>8, <1>9, <2>1 DEF Replace
<1>15. ASSUME NEW d \in Var \X Block
       PROVE  currentDef'[d] \in DefinedRegs \cup {NoReg} \cup M
  <2>1. currentDef[d] \in DefinedRegs \cup {NoReg} \cup N
    BY <1>1, <1>6, InCurrentDef DEF Pending
  <2>2. currentDef'[d] = IF d[1] = VarOf(top.phi)
                           THEN Replace(currentDef[d], p, by)
                           ELSE currentDef[d]
    BY <1>4 DEF ReplaceDefinitions
  <2>3. CASE d[1] = VarOf(top.phi)
    BY <1>14, <2>1, <2>2, <2>3
  <2>4. CASE d[1] # VarOf(top.phi)
    <3>1. PICK v \in Var : IsAbout(v) /\ VarOf(top.phi) = v
      BY <1>1, TopIsAbout DEF Marks
    <3>2. removals[1] \in Range(removals)
      BY <1>3 DEF Range
    <3>3. VarOf(p) = v
      BY <1>2, <3>1, <3>2 DEF IsAbout
    <3>4. d[1] \in Var /\ d[2] \in Block /\ d = <<d[1], d[2]>>
      OBVIOUS
    <3>5. currentDef[d] # NoReg => VarOf(currentDef[d]) = d[1]
      BY <3>4 DEF SameVariable
    <3>6. currentDef[d] = p => currentDef[d] # NoReg
      BY <1>3, ConstantsAssumption DEF Reg
    <3>7. currentDef[d] # p
      BY <2>4, <3>1, <3>3, <3>5, <3>6
    <3> QED
      BY <1>7, <2>1, <2>2, <2>4, <3>7
  <2> QED
    BY <2>3, <2>4
<1>16. Range(currentDef') \subseteq DefinedRegs' \cup {NoReg} \cup M
  BY <1>5, <1>15 DEF TypeOK, Range
<1>17. ret' \in DefinedRegs' \cup M
  <2>1. ret \in DefinedRegs \cup N
    BY <1>1, <1>6 DEF Pending
  <2> QED
    BY <1>4, <1>5, <1>7, <1>8, <1>9, <2>1 DEF Replace
<1>18. /\ top' = top /\ Frames' = Frames /\ Removing'
       /\ (top').at = "fixup"
  BY <1>1, <1>2, <1>4 DEF top, Frames, Removing
<1>19. Pending(M)'
  BY <1>13, <1>16, <1>17, <1>18 DEF Pending
<1>20. \A f \in Frames' : f.at # "result" /\ \A x \in Reg : ~IsTried(f, x)
  <2>1. ASSUME NEW f \in Frames
        PROVE  f.at # "result" /\ \A x \in Reg : ~IsTried(f, x)
    <3>1. CASE f \in Below
      <4>1. f.at \notin Removes
        BY <1>1, <3>1, ShapeFacts DEF Tries
      <4> QED
        BY <4>1 DEF IsTried, Removes, Tries
    <3>2. CASE f = top
      BY <1>1, <3>2 DEF IsTried
    <3> QED
      BY <1>1, <2>1, <3>1, <3>2, ShapeFacts
  <2> QED
    BY <1>18, <2>1
<1>21. Removed' \cap DefinedRegs' = {}
  BY <1>5, <1>8, <1>11
<1> QED
  BY <1>12, <1>18, <1>19, <1>20, <1>21 DEF Live, IsTried

LEMMA FixedLive ==
  ASSUME InductiveSSA, Shape, Live, [Next]_vars, FixupComplete
  PROVE  Live'
<1>1. /\ Running("fixup") /\ calls \in Seq(Frame) /\ calls # <<>>
      /\ top.at = "fixup" /\ top = calls[1] /\ removals = <<>>
  BY TopFields DEF FixupComplete
<1>2. Removing
  BY <1>1 DEF Removing, Removes
<1>3. /\ phis' = phis /\ ops' = ops /\ currentDef' = currentDef
      /\ ret' = ret /\ calls' = Tail(calls)
  BY DEF FixupComplete, ssaVars, cfgVars, Return
<1>4. DefinedRegs' = DefinedRegs
  BY <1>3 DEF PhiRegs, ParamRegs, WrittenRegs, DefinedRegs
<1>5. PICK N \in SUBSET Removed : Pending(N)
  BY <1>2 DEF Live
<1>6. N = {}
  BY <1>1, <1>5, InRemoved DEF InductiveSSA
<1>7. ret' \in DefinedRegs'
  BY <1>1, <1>3, <1>4, <1>5, <1>6 DEF Pending
<1>8. Range(currentDef') \subseteq DefinedRegs' \cup {NoReg}
  BY <1>3, <1>4, <1>5, <1>6 DEF Pending
<1>9. calls' # <<>> => (top').at \notin Removes /\ calls'[1] = top'
  BY <1>1, <1>3, ReturnsTo DEF Removes, Tries
<1>10. ~Removing'
  BY <1>9 DEF Removing
<1> QED
  BY <1>7, <1>8, <1>10 DEF Live

LEMMA LiveNext ==
  ASSUME InductiveSSA, TypeOK', Shape, OneVariable, SameVariable, FillingOK,
         Live, UsesAreDefined, [Next]_vars, NoFixupFault
  PROVE  Live'
<1>1. CASE ~Removing
  BY <1>1, BeginLive, OutsideLive
<1>2. CASE Removing /\ Step
  <2>1. calls # <<>> /\ top = calls[1]
    BY <1>2, Positions DEF Removing, InductiveSSA, TypeOK
  <2>2. top.at \in Removes
    BY <1>2, <2>1 DEF Removing
  <2>3. \/ CollectResult \/ FixupDefinitions \/ FixupComplete
        \/ TryUndefined \/ TryNotTrivial \/ TryTrivial \/ TryUsers
    BY <1>2, <2>2, StepOf DEF Removes, Tries
  <2> QED
    BY <2>3, CollectLive, FixupLive, FixedLive, GoesOnLive, RemoveLive
<1>3. CASE Removing /\ Client
  BY <1>3, ClientMoves DEF Removing
<1>4. CASE UNCHANGED vars
  <2>1. /\ calls' = calls /\ ret' = ret /\ removals' = removals
        /\ phis' = phis /\ ops' = ops /\ currentDef' = currentDef
    BY <1>4 DEF vars, callVars, ssaVars, cfgVars
  <2>2. /\ PhiRegs' = PhiRegs /\ DefinedRegs' = DefinedRegs
        /\ Removed' = Removed /\ Frames' = Frames /\ top' = top
        /\ Removing' = Removing
    BY <2>1 DEF PhiRegs, ParamRegs, WrittenRegs, DefinedRegs, Removed, Frames,
                top, Removing
  <2>3. \A N : Pending(N)' <=> Pending(N)
    BY <2>1, <2>2 DEF Pending, Resolves
  <2> QED
    BY <2>1, <2>2, <2>3 DEF Live, IsTried
<1> QED
  BY <1>1, <1>2, <1>3, <1>4 DEF Next

-----------------------------------------------------------------------------
(* No trivial phi is forgotten                                             *)

LEMMA ArgsAreFinite ==
  ASSUME InductiveSSA, Shape, IsFiniteSet(phiArgs), [Next]_vars
  PROVE  IsFiniteSet(phiArgs')
<1>1. CASE phiArgs' = phiArgs
  BY <1>1
<1>2. CASE AppendOperand
  BY <1>2, FS_AddElement DEF AppendOperand
<1>3. CASE TryTrivial
  <2>1. PICK by \in Reg :
          phiArgs' = {Renamed(a, top.phi, by) : a \in phiArgs}
    BY <1>3, TryTrivialArgs
  <2> DEFINE f == [a \in phiArgs |-> Renamed(a, top.phi, by)]
  <2>2. /\ f \in [phiArgs -> phiArgs']
        /\ \A c \in phiArgs' : \E a \in phiArgs : f[a] = c
    BY <2>1
  <2> HIDE DEF f
  <2>3. f \in Surjection(phiArgs, phiArgs')
    BY <2>2 DEF Surjection
  <2> QED
    BY <2>3, FS_Surjection
<1> QED
  BY <1>1, <1>2, <1>3, Changes

LEMMA InNonSelfArgsNext ==
  \A p, x : x \in NonSelfArgs(p)' <=>
              x # p /\ \E a \in phiArgs' : a.phi = p /\ a.value = x
<1>1. (\A p, x : x \in NonSelfArgs(p) <=>
                   x # p /\ \E a \in phiArgs : a.phi = p /\ a.value = x)'
  BY InNonSelfArgs, PTL
<1> QED
  BY <1>1

(* The arguments of a phi change when it gets one and when one of them is  *)
(* removed; then it is a user of the removed phi.                          *)
LEMMA NonSelfArgsNext ==
  ASSUME InductiveSSA, Shape, [Next]_vars, NEW x, x \in PhiRegs'
  PROVE  \/ NonSelfArgs(x)' = NonSelfArgs(x)
         \/ AppendOperand /\ x = top.phi
         \/ TryTrivial /\ x \in UsersOf(top.phi)
<1>0. phiArgs \subseteq PhiArg
  BY DEF InductiveSSA, TypeOK
<1>1. CASE phiArgs' = phiArgs
  BY <1>1 DEF NonSelfArgs
<1>2. CASE AppendOperand /\ x # top.phi
  <2> DEFINE n == [phi |-> top.phi, through |-> Head(top.todo), value |-> ret]
  <2>1. phiArgs' = phiArgs \cup {n}
    BY <1>2 DEF AppendOperand
  <2>2. n.phi # x
    BY <1>2
  <2> HIDE DEF n
  <2>3. \A y : y \in NonSelfArgs(x)' <=> y \in NonSelfArgs(x)
    BY <2>1, <2>2, InNonSelfArgs, InNonSelfArgsNext
  <2> QED
    BY <2>3
<1>3. CASE TryTrivial /\ x \notin UsersOf(top.phi)
  <2>1. PICK by \in Reg :
          phiArgs' = {Renamed(a, top.phi, by) : a \in phiArgs}
    BY <1>3, TryTrivialArgs
  <2>2. x \in PhiRegs \ {top.phi}
    BY <1>3, RemovedDefinition
  <2>3. \A a \in phiArgs : a.phi = x => a.value # top.phi
    BY <1>3, <2>2 DEF UsersOf
  <2>4. \A a \in phiArgs : a.phi = x =>
          /\ Renamed(a, top.phi, by).phi = x
          /\ Renamed(a, top.phi, by).value = a.value
    BY <1>0, <2>2, <2>3, RenamedFields DEF Replace
  <2>5. \A a \in phiArgs : Renamed(a, top.phi, by).phi = a.phi
    BY <1>0, RenamedFields
  <2>6. \A y : (\E a \in phiArgs' : a.phi = x /\ a.value = y)
                 <=> \E a \in phiArgs : a.phi = x /\ a.value = y
    <3>1. ASSUME NEW y, NEW a \in phiArgs, a.phi = x, a.value = y
          PROVE  \E c \in phiArgs' : c.phi = x /\ c.value = y
      BY <2>1, <2>4, <3>1
    <3>2. ASSUME NEW y, NEW c \in phiArgs', c.phi = x, c.value = y
          PROVE  \E a \in phiArgs : a.phi = x /\ a.value = y
      <4>1. PICK a \in phiArgs : c = Renamed(a, top.phi, by)
        BY <2>1
      <4> QED
        BY <2>4, <2>5, <3>2, <4>1
    <3> QED
      BY <3>1, <3>2
  <2>7. \A y : y \in NonSelfArgs(x)' <=> y \in NonSelfArgs(x)
    BY <2>6, InNonSelfArgs, InNonSelfArgsNext
  <2> QED
    BY <2>7
<1> QED
  BY <1>1, <1>2, <1>3, Changes

(* What was to be tried still is, unless it has been.                      *)
LEMMA TriedAfter ==
  ASSUME InductiveSSA, Shape, [Next]_vars, NoFixupFault,
         NEW x, NEW f \in Frames, IsTried(f, x)
  PROVE  \/ \E g \in Frames' : IsTried(g, x)
         \/ TryUndefined /\ x = top.phi
         \/ TryNotTrivial /\ x = top.phi
         \/ TryTrivial /\ x = top.phi
<1>1. f.at \in Tries
  BY DEF IsTried, Tries
<1>2. CASE f \in Frames'
  BY <1>2
<1>3. CASE Step /\ f = top /\ top.at = "try"
  BY <1>3, StepOf DEF IsTried
<1>4. CASE Step /\ f = top /\ top.at = "users"
  <2>1. TryUsers /\ x \in top.users
    BY <1>4, StepOf DEF IsTried
  <2>2. PICK u \in top.users :
          Become(<<PhiFrame("try", u), UsersFrame(top.users \ {u})>>)
    BY <2>1 DEF TryUsers
  <2>3. /\ calls \in Seq(Frame) /\ calls # <<>> /\ top.users \subseteq Reg
    BY <2>1, TopFields DEF TryUsers
  <2>4. /\ PhiFrame("try", u) \in Frame
        /\ UsersFrame(top.users \ {u}) \in Frame
    <3>1. u \in Reg /\ top.users \ {u} \in SUBSET Reg
      BY <2>3
    <3> QED
      BY <3>1, FrameTypes
  <2>5. /\ PhiFrame("try", u) \in Frames'
        /\ UsersFrame(top.users \ {u}) \in Frames'
    <3>1. PICK g, h : g = PhiFrame("try", u) /\ h = UsersFrame(top.users \ {u})
      OBVIOUS
    <3>2. g \in Frame /\ h \in Frame /\ Become(<<g, h>>)
      BY <2>2, <2>4, <3>1
    <3>3. Frames' = {g, h} \cup Below
      BY <2>3, <3>2, FramesAfter
    <3> QED
      BY <3>1, <3>3
  <2>6. CASE x = u
    <3>1. IsTried(PhiFrame("try", u), x)
      BY <2>6, FrameKinds DEF IsTried
    <3> QED
      BY <2>5, <3>1
  <2>7. CASE x # u
    <3>1. IsTried(UsersFrame(top.users \ {u}), x)
      BY <2>1, <2>7 DEF IsTried, UsersFrame
    <3> QED
      BY <2>5, <3>1
  <2> QED
    BY <2>6, <2>7
<1>5. f.at # "finalise"
  BY <1>1 DEF Tries
<1> QED
  BY <1>1, <1>2, <1>3, <1>4, <1>5, BelowKept DEF Tries

LEMMA TrivialAreTriedNext ==
  ASSUME InductiveSSA, Shape, Ages, Operands, TrivialAreTried, [Next]_vars,
         NoFixupFault
  PROVE  TrivialAreTried'
<1>1. /\ phis' \subseteq Block \X Reg /\ calls \in Seq(Frame)
      /\ Frames \subseteq Frame
  BY NextTypes, FramesAreTyped DEF InductiveSSA, TypeOK
<1>2. WaitingOK
  BY DEF Operands
<1>3. ASSUME NEW b, NEW x \in Reg, <<b, x>> \in phis',
             ~IsWaiting(x)', ~IsFilling(x)', Trivial(x)'
      PROVE  \E f \in Frames' : IsTried(f, x)
  <2>1. <<b, x>> \in phis
    BY <1>3, NewPhiGathers
  <2>2. ~IsWaiting(x)
    BY <1>2, <1>3, <2>1, CompletedGathers
  <2>3. CASE IsFilling(x)
    <3>1. OperandsComplete /\ x = top.phi
      BY <1>3, <2>3, FillingAfter
    <3>2. PhiFrame("try", top.phi) \in Frames'
      BY <3>1, OperandsCompleteMoves
    <3>3. IsTried(PhiFrame("try", top.phi), x)
      BY <3>1, FrameKinds DEF IsTried
    <3> QED
      BY <3>2, <3>3
  <2>4. CASE ~IsFilling(x) /\ TryTrivial /\ x \in UsersOf(top.phi)
    <3>1. UsersFrame(UsersOf(top.phi)) \in Frames'
      BY <2>4, TryTrivialMoves
    <3>2. IsTried(UsersFrame(UsersOf(top.phi)), x)
      BY <2>4 DEF IsTried, UsersFrame
    <3> QED
      BY <3>1, <3>2
  <2>5. CASE ~IsFilling(x) /\ ~(TryTrivial /\ x \in UsersOf(top.phi))
    <3>1. ASSUME AppendOperand PROVE x # top.phi
      <4>1. calls # <<>> /\ top.at = "operand"
        BY <3>1, TopFields DEF AppendOperand
      <4>2. top \in Frames /\ top.at \in Gathers
        BY <1>1, <4>1, ShapeFacts DEF Gathers
      <4> QED
        BY <2>5, <4>2 DEF IsFilling
    <3>2. x \in PhiRegs'
      BY <1>3, InPhiRegs
    <3>3. NonSelfArgs(x)' = NonSelfArgs(x)
      BY <2>5, <3>1, <3>2, NonSelfArgsNext
    <3>4. PICK by \in Reg : NonSelfArgs(x) = {by}
      BY <1>3, <3>3 DEF Trivial
    <3>5. PICK f \in Frames : IsTried(f, x)
      <4>1. PICK p \in phis : p[2] = x
        BY <2>1
      <4> QED
        BY <2>2, <2>5, <3>4, <4>1 DEF TrivialAreTried, Trivial
    <3>6. ~(TryUndefined /\ x = top.phi) /\ ~(TryNotTrivial /\ x = top.phi)
      BY <3>4 DEF TryUndefined, TryNotTrivial
    <3>7. ~(TryTrivial /\ x = top.phi)
      BY <1>3, PhisNext
    <3> QED
      BY <3>5, <3>6, <3>7, TriedAfter
  <2> QED
    BY <2>3, <2>4, <2>5
<1>4. ASSUME NEW p \in phis',
             ~IsWaiting(p[2])', ~IsFilling(p[2])', Trivial(p[2])'
      PROVE  \E f \in Frames' : IsTried(f, p[2])
  <2>1. PICK b, x : p = <<b, x>> /\ x \in Reg /\ p[2] = x
    BY <1>1
  <2> QED
    BY <1>3, <1>4, <2>1
<1>5. IsFiniteSet(phiArgs')
  BY ArgsAreFinite DEF TrivialAreTried
<1> QED
  BY <1>4, <1>5 DEF TrivialAreTried, IsTried

-----------------------------------------------------------------------------
(* The whole invariant                                                     *)

LEMMA InitConstruction == Init => Construction
<1> SUFFICES ASSUME Init PROVE Construction
  OBVIOUS
<1>1. /\ calls = <<>> /\ Frames = {} /\ phis = {} /\ phiArgs = {}
      /\ ret = NoReg /\ removals = <<>> /\ finalised = FALSE
      /\ fault = "none" /\ sealed = {Entry} /\ Range(removals) = {}
  BY DEF Init, Frames, Range
<1>2. \A b \in Block : /\ incomplete[b] = <<>> /\ Range(incomplete[b]) = {}
                       /\ preds[b] = <<>> /\ Range(preds[b]) = {}
                       /\ ops[b] = <<>> /\ Range(ops[b]) = {}
  BY DEF Init, Range
<1>3. \A d \in Var \X Block :
        currentDef[d] # NoReg =>
          /\ currentDef[d] = <<d[1], 0>> /\ d[1] \in Param
          /\ currentDef[d] \in ParamRegs
          /\ VersionOf(currentDef[d]) = 0 /\ VarOf(currentDef[d]) = d[1]
  BY DEF Init, ParamRegs, VersionOf, VarOf
<1>4. ~Removing
  BY <1>1 DEF Removing
<1>5. Len(calls) = 0 /\ DOMAIN calls = 1..0 /\ 1..0 = {} /\ 1..(0 - 1) = {}
  BY <1>1
<1>6. Shape
  BY <1>1, <1>5 DEF Shape
<1>7. OneVariable /\ WaitingAreCached
  BY <1>1, <1>2 DEF OneVariable, WaitingAreCached
<1>8. SameVariable
  <2>1. ASSUME NEW v \in Var, NEW b \in Block, currentDef[<<v, b>>] # NoReg
        PROVE  VarOf(currentDef[<<v, b>>]) = v
    BY <1>3, <2>1
  <2> QED
    BY <1>1, <2>1 DEF SameVariable
<1>9. Issued
  <2>1. ASSUME NEW d \in Var \X Block, currentDef[d] # NoReg
        PROVE  IsIssued(currentDef[d], versions)
    <3>1. d[1] \in Param /\ d[1] \in Var
      BY <1>3, <2>1
    <3>2. versions[d[1]] = 1
      BY <3>1 DEF Init
    <3> QED
      BY <1>3, <2>1, <3>2 DEF IsIssued
  <2> QED
    BY <1>1, <1>2, <2>1 DEF Issued
<1>10. Ages
  BY <1>1, <1>5 DEF Ages, InnerIsYounger, YoungSeparate, TriedAreYoung
<1>11. Operands
  <2>1. \A b \in Block : Distinct(preds[b]) /\ Distinct(incomplete[b])
    BY <1>2 DEF Distinct
  <2> QED
    BY <1>1, <1>2, <2>1
    DEF Operands, PredecessorsActivated, WaitingOK, FillingOK, OthersComplete,
        OneArgument, Finished
<1>12. UsesAreDefined
  BY <1>1, <1>2 DEF UsesAreDefined
<1>13. Range(currentDef) \subseteq DefinedRegs \cup {NoReg}
  <2>1. TypeOK
    BY InitTypes
  <2> QED
    BY <1>3, <2>1, InCurrentDef DEF DefinedRegs
<1>14. Live
  BY <1>1, <1>4, <1>13 DEF Live
<1>15. TrivialAreTried
  BY <1>1, FS_EmptySet DEF TrivialAreTried
<1>16. NoAlgorithmFault
  BY <1>1 DEF NoAlgorithmFault, AlgorithmFaults
<1> QED
  BY <1>6, <1>7, <1>8, <1>9, <1>10, <1>11, <1>12, <1>14, <1>15, <1>16
  DEF Construction, Webs, Definitions

(* What waits is in a block that is not sealed: verify_complete finds      *)
(* nothing but what it checks before.                                      *)
LEMMA NoAlgorithmFaultNext ==
  ASSUME InductiveSSA, Shape, WaitingOK, NoFixupFault, NoAlgorithmFault,
         [Next]_vars
  PROVE  NoAlgorithmFault'
<1>1. CASE fault' = fault
  BY <1>1 DEF NoAlgorithmFault
<1>2. CASE FixupDefinitions
  <2>1. calls' = calls /\ calls # <<>>
    BY <1>2 DEF NoFixupFault, FixupDefinitions, Running
  <2>2. ~(\E s : Raise(s))
    BY <2>1 DEF Raise
  <2>3. fault' = fault
    BY <1>2, <2>2 DEF FixupDefinitions
  <2> QED
    BY <2>3, <1>1
<1>3. CASE FinaliseComplete
  <2>1. ~(/\ Range(blocks) \subseteq sealed
          /\ \E b \in Block : incomplete[b] # <<>>)
    BY DEF WaitingOK
  <2>2. fault' = fault \/ fault' = "unsealed block"
    BY <1>3, <2>1 DEF FinaliseComplete, Raise
  <2> QED
    BY <1>1, <2>2 DEF NoAlgorithmFault, AlgorithmFaults
<1>4. CASE StartSeal
  <2>1. fault' \in {fault, "already sealed", "unterminated predecessor"}
    BY <1>4 DEF StartSeal, Raise
  <2> QED
    BY <1>1, <2>1 DEF NoAlgorithmFault, AlgorithmFaults
<1>5. ASSUME NEW ts, Terminate(ts)
      PROVE  NoAlgorithmFault'
  <2>1. fault' \in {fault, "sealed target"}
    BY <1>5 DEF Terminate, Raise
  <2> QED
    BY <1>1, <2>1 DEF NoAlgorithmFault, AlgorithmFaults
<1>6. ASSUME NEW b, NEW fs, ActivateThen(b, fs)
      PROVE  NoAlgorithmFault'
  <2>1. fault' \in {fault, "not terminated", "no predecessors"}
    BY <1>6 DEF ActivateThen, Raise
  <2> QED
    BY <1>1, <2>1 DEF NoAlgorithmFault, AlgorithmFaults
<1>7. CASE Step
  <2>1. CASE FixupDefinitions \/ FinaliseComplete \/ StartSeal
    BY <2>1, <1>2, <1>3, <1>4
  <2>2. CASE ~(FixupDefinitions \/ FinaliseComplete \/ StartSeal)
    <3>1. fault' = fault
      BY <1>7, <2>2
      DEF Step, ReadLocal, ReadUnsealed, ReadSinglePredecessor, ReadJoin,
          WriteBack, ReadOperand, AppendOperand, OperandsComplete,
          CollectResult, FixupComplete, TryUndefined, TryNotTrivial,
          TryTrivial, TryUsers, CompletePhi, SealComplete, AddUse, FinaliseSeal
    <3> QED
      BY <3>1, <1>1
  <2> QED
    BY <2>1, <2>2
<1>8. CASE Client
  <2>1. ASSUME NEW b, Activate(b) \/ ActivateOpen(b) PROVE NoAlgorithmFault'
    BY <2>1, <1>6 DEF Activate, ActivateOpen
  <2>2. ASSUME NEW b, CloseOpen(b) PROVE NoAlgorithmFault'
    BY <2>2, <1>1 DEF CloseOpen
  <2>3. ASSUME NEW v, Assign(v) \/ UseVariable(v) \/ ReadVariable(v) \/ UseHeld(v)
        PROVE  NoAlgorithmFault'
    BY <2>3, <1>1 DEF Assign, UseVariable, ReadVariable, UseHeld
  <2>4. CASE Finalise
    BY <2>4, <1>1 DEF Finalise
  <2> QED
    BY <1>8, <1>5, <2>1, <2>2, <2>3, <2>4 DEF Client
<1>9. CASE UNCHANGED vars
  BY <1>9, <1>1 DEF vars
<1> QED
  BY <1>7, <1>8, <1>9 DEF Next

LEMMA ConstructionNext ==
  InductiveSSA /\ Construction /\ [Next]_vars => (InductiveSSA /\ Construction)'
<1> SUFFICES ASSUME InductiveSSA, Construction, [Next]_vars
             PROVE  InductiveSSA' /\ Construction'
  OBVIOUS
<1>1. /\ Shape /\ Operands /\ TrivialAreTried /\ NoAlgorithmFault
      /\ OneVariable /\ SameVariable /\ WaitingAreCached /\ Issued
      /\ InnerIsYounger /\ YoungSeparate /\ TriedAreYoung
      /\ WaitingOK /\ FillingOK /\ UsesAreDefined /\ Live /\ Webs /\ Ages
  BY DEF Construction, Webs, Ages, Operands, Definitions
<1>2. InductiveSSA' /\ TypeOK'
  BY NextSSA DEF InductiveSSA
<1>3. NoFixupFault
  BY <1>1, FixupGoesOn
<1>4. Shape'
  BY <1>1, ShapeNext
<1>5. Webs'
  BY <1>1, SameVariableNext, WaitingAreCachedNext, IssuedNext, OneVariableNext
  DEF Webs
<1>6. Ages'
  BY <1>1, <1>2, YoungNext, TriedAreYoungNext DEF Ages
<1>7. Operands'
  BY <1>1, <1>3, OperandsNext
<1>8. Definitions'
  BY <1>1, <1>2, <1>3, UsesAreDefinedNext, LiveNext DEF Definitions
<1>9. TrivialAreTried'
  BY <1>1, <1>3, TrivialAreTriedNext
<1>10. NoAlgorithmFault'
  BY <1>1, <1>3, NoAlgorithmFaultNext
<1> QED
  BY <1>2, <1>4, <1>5, <1>6, <1>7, <1>8, <1>9, <1>10 DEF Construction

(* Every step of every construction keeps the invariant, whatever graph    *)
(* the client draws.                                                       *)
THEOREM ConstructionIsSound == Spec => [](InductiveSSA /\ Construction)
<1>1. Init => InductiveSSA /\ Construction
  BY InitSSA, InitConstruction
<1>2. InductiveSSA /\ Construction /\ [Next]_vars
        => (InductiveSSA /\ Construction)'
  BY ConstructionNext
<1> QED
  BY <1>1, <1>2, PTL DEF Spec

-----------------------------------------------------------------------------
(* What the invariant is for                                               *)

(* Between two operations of the builder the cache of current definitions  *)
(* names registers that are still defined: the fix-up of the trivial phis  *)
(* in _add_phi_operands reaches every one of them, however the removals    *)
(* are nested.                                                             *)
THEOREM CurrentDefinitionsAreDefined == Spec => []CacheIsLive
<1>1. InductiveSSA /\ Construction => CacheIsLive
  BY DEF Construction, Definitions, Live, Removing, CacheIsLive, Idle
<1> QED
  BY <1>1, ConstructionIsSound, PTL

(* No op and no phi reads a register that is not defined, even while       *)
(* trivial phis are being replaced.                                        *)
THEOREM NothingUndefinedIsUsed == Spec => []UsesAreDefined
<1>1. InductiveSSA /\ Construction => UsesAreDefined
  BY DEF Construction, Definitions
<1> QED
  BY <1>1, ConstructionIsSound, PTL

(* The errors that mean a bug in the algorithm itself cannot happen.       *)
THEOREM AlgorithmNeverFails == Spec => []NoAlgorithmFault
<1>1. InductiveSSA /\ Construction => NoAlgorithmFault
  BY DEF Construction
<1> QED
  BY <1>1, ConstructionIsSound, PTL

(* The phis of a finished subroutine have exactly one argument through     *)
(* each predecessor of their block.                                        *)
THEOREM PhisOfTheFinishedMatch == Spec => []PhisMatchPredecessors
<1>1. InductiveSSA /\ Construction => PhisMatchPredecessors
  <2> SUFFICES ASSUME InductiveSSA, Construction, finalised
               PROVE  PhisMatchPredecessors
    BY DEF PhisMatchPredecessors
  <2>1. Shape /\ OthersComplete /\ OneArgument /\ Finished
    BY DEF Construction, Operands
  <2>2. calls = <<>> /\ Frames = {}
    BY <2>1, FramesAreTyped DEF Shape
  <2>3. \A x : ~IsWaiting(x) /\ ~IsFilling(x)
    BY <2>1, <2>2 DEF Finished, IsWaiting, IsFilling, Range
  <2>4. \A p \in phis : PhiComplete(p)
    BY <2>1, <2>3 DEF OthersComplete
  <2> QED
    BY <2>1, <2>4 DEF OneArgument, PhisMatchPredecessors
<1> QED
  BY <1>1, ConstructionIsSound, PTL

LEMMA CompleteWhenTried == InductiveSSA /\ Construction => OnlyCompletePhisTried
<1> SUFFICES ASSUME InductiveSSA, Construction, Running("try"),
                    NEW p \in phis, p[2] = top.phi
             PROVE  PhiComplete(p)
  BY DEF OnlyCompletePhisTried
<1>1. /\ Shape /\ OthersComplete /\ WaitingOK
      /\ InnerIsYounger /\ TriedAreYoung
  BY DEF Construction, Operands, Ages
<1>2. /\ calls \in Seq(Frame) /\ calls # <<>> /\ top.at = "try"
      /\ top.phi \in Reg
  BY <1>1, TopFields
<1>3. top \in Frames /\ IsTried(top, top.phi)
  BY <1>1, <1>2, ShapeFacts DEF IsTried
<1>4. ~IsWaiting(top.phi)
  BY <1>1, <1>2, <1>3 DEF WaitingOK
<1>5. ~IsFilling(top.phi)
  BY <1>1, <1>2, <1>3, TriedNotFilling DEF IsFilling
<1> QED
  BY <1>1, <1>4, <1>5 DEF OthersComplete

(* try_remove judges a phi by all its operands: it never meets one that an *)
(* outer _add_phi_operands has filled halfway, or one of a block that is   *)
(* not sealed yet.                                                         *)
THEOREM TriedPhisAreComplete == Spec => []OnlyCompletePhisTried
  BY CompleteWhenTried, ConstructionIsSound, PTL

LEMMA NonSelfArgsAreFinite ==
  ASSUME IsFiniteSet(phiArgs), NEW x
  PROVE  IsFiniteSet(NonSelfArgs(x))
<1> DEFINE A == {a \in phiArgs : a.phi = x}
           V == {a.value : a \in A}
           f == [a \in A |-> a.value]
<1>1. IsFiniteSet(A)
  BY FS_Subset
<1>2. f \in [A -> V] /\ \A y \in V : \E a \in A : f[a] = y
  OBVIOUS
<1>3. IsFiniteSet(V)
  <2> HIDE DEF f, V, A
  <2>1. f \in Surjection(A, V)
    BY <1>2 DEF Surjection
  <2> QED
    BY <1>1, <2>1, FS_Surjection
<1>4. NonSelfArgs(x) \subseteq V
  BY DEF NonSelfArgs
<1> QED
  BY <1>3, <1>4, FS_Subset

(* Between two operations no phi of a sealed block is trivial: whatever    *)
(* the graph, the removal of one phi has made its users be looked at       *)
(* again.                                                                  *)
THEOREM TrivialPhisAreRemoved == Spec => []NoTrivialPhiLeft
<1>1. InductiveSSA /\ Construction => NoTrivialPhiLeft
  <2> SUFFICES ASSUME InductiveSSA, Construction, Idle,
                      NEW p \in phis, p[1] \in sealed,
                      Cardinality(NonSelfArgs(p[2])) = 1
               PROVE  FALSE
    BY DEF NoTrivialPhiLeft
  <2>1. WaitingOK /\ TrivialAreTried
    BY DEF Construction, Operands
  <2>2. calls = <<>> /\ Frames = {}
    BY FramesAreTyped DEF Idle
  <2>3. phis \subseteq Block \X Reg /\ SingleAssignment
    BY DEF InductiveSSA, TypeOK
  <2>4. ~IsFilling(p[2])
    BY <2>2 DEF IsFilling
  <2>5. ~IsWaiting(p[2])
    <3>1. ASSUME NEW b \in Block, p[2] \in Range(incomplete[b]) PROVE FALSE
      <4>1. <<b, p[2]>> \in phis
        BY <2>1, <3>1 DEF WaitingOK
      <4>2. p = <<b, p[2]>>
        BY <2>3, <4>1 DEF SingleAssignment
      <4>3. incomplete[b] # <<>>
        BY <3>1 DEF Range
      <4> QED
        BY <2>1, <4>2, <4>3 DEF WaitingOK
    <3> QED
      BY <2>2, <3>1 DEF IsWaiting
  <2>6. \E by : NonSelfArgs(p[2]) = {by}
    <3>1. IsFiniteSet(NonSelfArgs(p[2]))
      BY <2>1, NonSelfArgsAreFinite DEF TrivialAreTried
    <3> QED
      BY <3>1, FS_Singleton
  <2>7. NonSelfArgs(p[2]) \subseteq Reg
    BY <2>3, QueryTypes DEF InductiveSSA
  <2>8. Trivial(p[2])
    BY <2>6, <2>7 DEF Trivial
  <2> QED
    BY <2>1, <2>2, <2>4, <2>5, <2>8 DEF TrivialAreTried
<1> QED
  BY <1>1, ConstructionIsSound, PTL
=============================================================================
