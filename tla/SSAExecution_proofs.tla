------------------------ MODULE SSAExecution_proofs ------------------------
(***************************************************************************)
(* The SSA form means what the source program means: proof that the        *)
(* invariant of SSAExecution_invariant holds while the form is built, that *)
(* the machine that runs it therefore reads current values, and that it is *)
(* the reads of unassigned variables that are warned about.                *)
(***************************************************************************)
EXTENDS SSAExecution_invariant, BraunSSA_phi_proofs

-----------------------------------------------------------------------------
(* Where a value reaches                                                   *)

(* The first n ops of s and of t write the same.                           *)
SameWrites(s, t, n) ==
  \A j \in 1..n :
    /\ t[j].kind = "write" <=> s[j].kind = "write"
    /\ s[j].kind = "write" => t[j] = s[j]
WritesKept(b, n) == SameWrites(ops[b], ops'[b], n)

(* What reaches an op is a matter of the writes before it.                 *)
LEMMA ReachesKept ==
  ASSUME NEW s, NEW t, NEW i \in Nat \ {0}, SameWrites(s, t, i - 1),
         NEW E, NEW r, NEW b
  PROVE  ReachesIn(t, E, r, b, i) <=> ReachesIn(s, E, r, b, i)
<1>1. ASSUME NEW j \in 1..(i - 1), NEW v
      PROVE  Assigns(t[j], v) <=> Assigns(s[j], v)
  BY DEF SameWrites, Assigns
<1>2. ASSUME NEW j \in 1..(i - 1)
      PROVE  t[j].kind = "write" /\ t[j].reg = r
               <=> s[j].kind = "write" /\ s[j].reg = r
  BY DEF SameWrites
<1>3. ASSUME NEW j \in 1..(i - 1), NEW k \in (j + 1)..(i - 1)
      PROVE  k \in 1..(i - 1)
  OBVIOUS
<1> QED
  BY <1>1, <1>2, <1>3 DEF ReachesIn

(* An op that does not assign the variable changes nothing for it.         *)
LEMMA ReachesOver ==
  ASSUME NEW s, NEW n \in Nat \ {0}, NEW E, NEW r, NEW b,
         ~Assigns(s[n], VarOf(r))
  PROVE  ReachesIn(s, E, r, b, n + 1) <=> ReachesIn(s, E, r, b, n)
<1>1. ASSUME NEW j \in 1..n, s[j].kind = "write", s[j].reg = r
      PROVE  j # n
  BY <1>1 DEF Assigns
<1> QED
  BY <1>1 DEF ReachesIn

(* A write is what its register reaches from.                              *)
LEMMA ReachesFrom ==
  ASSUME NEW s, NEW n \in Nat \ {0}, NEW E, NEW r, NEW b,
         Assigns(s[n], VarOf(r))
  PROVE  ReachesIn(s, E, r, b, n + 1) <=> s[n].reg = r
<1>1. s[n].reg = r => ReachesIn(s, E, r, b, n + 1)
  BY DEF ReachesIn, Assigns
<1>2. ASSUME ReachesIn(s, E, r, b, n + 1) PROVE s[n].reg = r
  BY <1>2 DEF ReachesIn
<1> QED
  BY <1>1, <1>2

(* The more entries hold a register, the further it reaches.               *)
LEMMA ReachesGrow ==
  ASSUME NEW s, NEW E, NEW F, NEW r, NEW b, NEW i, ReachesIn(s, E, r, b, i),
         <<r, b>> \in E => <<r, b>> \in F
  PROVE  ReachesIn(s, F, r, b, i)
  BY DEF ReachesIn

(* A register that no op writes reaches only from the entries.             *)
LEMMA ReachesReplaced ==
  ASSUME InductiveSSA, NEW E, NEW F, NEW p, NEW by, NEW b \in Block,
         NEW i \in Nat, i <= Len(ops[b]) + 1,
         p \notin WrittenRegs, VarOf(by) = VarOf(p),
         <<p, b>> \in E => <<by, b>> \in F,
         Reaches(E, p, b, i)
  PROVE  Reaches(F, by, b, i)
<1>1. ops[b] \in Seq(Op)
  BY DEF InductiveSSA, TypeOK
<1>2. \A j \in 1..(i - 1) : j \in DOMAIN ops[b]
  BY <1>1
<1>3. \A j \in 1..(i - 1) :
        ~(ops[b][j].kind = "write" /\ ops[b][j].reg = p)
  BY <1>2, WrittenAt
<1> QED
  BY <1>3 DEF Reaches, ReachesIn

(* How an op is added.                                                     *)
LEMMA OpAppended ==
  ASSUME InductiveSSA, NEW o \in Op, AddOp(o)
  PROVE  /\ active \in Block
         /\ \A b \in Block : b # active => ops'[b] = ops[b]
         /\ Len(ops'[active]) = Len(ops[active]) + 1
         /\ ops'[active][Len(ops[active]) + 1] = o
         /\ \A j \in 1..Len(ops[active]) : ops'[active][j] = ops[active][j]
<1>1. active \in Block /\ ops \in [Block -> Seq(Op)]
  BY QueryTypes DEF InductiveSSA, TypeOK
<1>2. ops[active] \in Seq(Op) /\ ops'[active] = Append(ops[active], o)
  BY <1>1 DEF AddOp
<1>3. \A b \in Block : b # active => ops'[b] = ops[b]
  BY <1>1 DEF AddOp
<1> QED
  BY <1>1, <1>2, <1>3

(* The steps that change the ops: a removal rewrites those that read, the  *)
(* others add one.                                                         *)
AddsOther == \E o \in Op : o.kind # "write" /\ AddOp(o)
AddsWrite(v) ==
  Assign(v) /\ AddOp([kind |-> "write", reg |-> NewRegister(v)])

LEMMA OpsNext ==
  ASSUME InductiveSSA, Shape, Live, [Next]_vars
  PROVE  \/ ops' = ops
         \/ TryTrivial /\ \E by \in Reg : ReplaceInOps(top.phi, by)
         \/ AddsOther
         \/ \E v \in Var : AddsWrite(v)
<1>1. CASE TryTrivial
  BY <1>1, TryTrivialArgs
<1>2. CASE AddUse
  <2>1. top.at = "use" /\ Running("use")
    BY <1>2, TopFields DEF AddUse
  <2>2. ret \in Reg
    BY <2>1, GivenResult DEF Consumers
  <2> QED
    BY <1>2, <2>2 DEF AddUse, AddsOther, Op
<1>3. CASE \E r \in DefinedRegs : UseHeld(r)
  <2>1. PICK r \in DefinedRegs : UseHeld(r)
    BY <1>3
  <2>2. r \in Reg
    BY UsedRegs DEF InductiveSSA
  <2> QED
    BY <2>1, <2>2 DEF UseHeld, AddsOther, Op
<1>4. CASE \E v \in Var : Assign(v)
  BY <1>4 DEF Assign, AddsWrite
<1> QED
  BY <1>1, <1>2, <1>3, <1>4, Changes

(* A removal leaves the writes as they are.                                *)
LEMMA ReplacedOps ==
  ASSUME InductiveSSA, TypeOK', NEW p, NEW by, ReplaceInOps(p, by),
         NEW b \in Block
  PROVE  /\ Len(ops'[b]) = Len(ops[b]) /\ DOMAIN ops'[b] = DOMAIN ops[b]
         /\ WritesKept(b, Len(ops[b]))
         /\ \A i \in DOMAIN ops[b] :
              ops[b][i].kind = "read" =>
                /\ ops'[b][i].kind = "read"
                /\ ops'[b][i].reg = Replace(ops[b][i].reg, p, by)
         /\ \A i \in DOMAIN ops[b] :
              ops'[b][i].kind = ops[b][i].kind
<1>1. ops[b] \in Seq(Op)
  BY DEF InductiveSSA, TypeOK
<1>2. ops'[b] = [i \in DOMAIN ops[b] |->
                   IF ops[b][i].kind = "write" THEN ops[b][i]
                   ELSE [ops[b][i] EXCEPT !.reg = Replace(@, p, by)]]
  BY DEF ReplaceInOps
<1>3. DOMAIN ops[b] = 1..Len(ops[b]) /\ Len(ops[b]) \in Nat
  BY <1>1
<1>4. \A i \in DOMAIN ops[b] : ops[b][i] \in Op
  BY <1>1
<1>5. \A i \in DOMAIN ops[b] :
        /\ ops'[b][i].kind = ops[b][i].kind
        /\ ops[b][i].kind = "write" => ops'[b][i] = ops[b][i]
        /\ ops[b][i].kind = "read" =>
             ops'[b][i].reg = Replace(ops[b][i].reg, p, by)
  BY <1>2, <1>4 DEF Op
<1>6. DOMAIN ops'[b] = 1..Len(ops[b])
  BY <1>2, <1>3
<1>7. ops'[b] \in Seq(Op)
  BY DEF TypeOK
<1>8. Len(ops'[b]) = Len(ops[b])
  BY <1>3, <1>6, <1>7
<1> QED
  BY <1>3, <1>5, <1>6, <1>8 DEF WritesKept, SameWrites

(* The writes before an op, and the op itself if it is one, stay.          *)
LEMMA PrefixKept ==
  ASSUME InductiveSSA, TypeOK', Shape, Live, [Next]_vars, NEW b \in Block
  PROVE  /\ Len(ops[b]) \in Nat /\ Len(ops'[b]) \in Nat
         /\ DOMAIN ops[b] = 1..Len(ops[b]) /\ DOMAIN ops'[b] = 1..Len(ops'[b])
         /\ Len(ops[b]) <= Len(ops'[b])
         /\ WritesKept(b, Len(ops[b]))
<1>1. ops[b] \in Seq(Op) /\ ops'[b] \in Seq(Op)
  BY DEF InductiveSSA, TypeOK
<1>2. ASSUME NEW o \in Op, AddOp(o)
      PROVE  Len(ops[b]) <= Len(ops'[b]) /\ WritesKept(b, Len(ops[b]))
  BY <1>1, <1>2, OpAppended DEF WritesKept, SameWrites
<1>3. ASSUME NEW v \in Var
      PROVE  [kind |-> "write", reg |-> NewRegister(v)] \in Op
  BY QueryTypes DEF InductiveSSA, Op
<1>4. CASE ops' = ops
  BY <1>1, <1>4 DEF WritesKept, SameWrites
<1>5. CASE TryTrivial /\ \E by \in Reg : ReplaceInOps(top.phi, by)
  BY <1>1, <1>5, ReplacedOps
<1> QED
  <2>1. CASE AddsOther
    BY <1>1, <1>2, <2>1 DEF AddsOther
  <2>2. CASE \E v \in Var : AddsWrite(v)
    BY <1>1, <1>2, <1>3, <2>2 DEF AddsWrite
  <2>3. /\ Len(ops[b]) \in Nat /\ Len(ops'[b]) \in Nat
        /\ DOMAIN ops[b] = 1..Len(ops[b]) /\ DOMAIN ops'[b] = 1..Len(ops'[b])
    BY <1>1
  <2> QED
    BY <1>4, <1>5, <2>1, <2>2, <2>3, OpsNext

LEMMA ReachesNext ==
  ASSUME InductiveSSA, TypeOK', Shape, Live, [Next]_vars,
         NEW E, NEW r, NEW b \in Block, NEW i \in Nat \ {0},
         i <= Len(ops[b]) + 1
  PROVE  Reaches(E, r, b, i)' <=> Reaches(E, r, b, i)
<1>1. Len(ops[b]) \in Nat /\ WritesKept(b, Len(ops[b]))
  BY PrefixKept
<1>2. SameWrites(ops[b], ops'[b], i - 1)
  BY <1>1 DEF WritesKept, SameWrites
<1> QED
  BY <1>2, ReachesKept DEF Reaches

(* What reaches the end of a block still does, unless the variable is      *)
(* assigned there.                                                         *)
LEMMA LeavesNext ==
  ASSUME InductiveSSA, TypeOK', Shape, Live, [Next]_vars,
         NEW E, NEW r, NEW b \in Block,
         \A v \in Var : AddsWrite(v) => b # active \/ VarOf(r) # v
  PROVE  Leaves(E, r, b)' <=> Leaves(E, r, b)
<1>1. PICK n \in Nat : n = Len(ops[b])
  BY PrefixKept
<1>2. SameWrites(ops[b], ops'[b], n)
  BY <1>1, PrefixKept DEF WritesKept
<1>3. ReachesIn(ops'[b], E, r, b, n + 1) <=> ReachesIn(ops[b], E, r, b, n + 1)
  <2>1. n + 1 \in Nat \ {0} /\ (n + 1) - 1 = n
    OBVIOUS
  <2> QED
    BY <1>2, <2>1, ReachesKept
<1>4. CASE Len(ops'[b]) = Len(ops[b])
  BY <1>1, <1>3, <1>4 DEF Leaves, Reaches
<1>5. ASSUME NEW o \in Op, AddOp(o), b = active, ~Assigns(o, VarOf(r))
      PROVE  Leaves(E, r, b)' <=> Leaves(E, r, b)
  <2>1. Len(ops'[b]) = n + 1 /\ ops'[b][n + 1] = o
    BY <1>1, <1>5, OpAppended
  <2>2. ReachesIn(ops'[b], E, r, b, (n + 1) + 1)
          <=> ReachesIn(ops'[b], E, r, b, n + 1)
    BY <1>5, <2>1, ReachesOver
  <2> QED
    BY <1>1, <1>3, <2>1, <2>2 DEF Leaves, Reaches
<1>6. CASE AddsOther
  <2>1. PICK o \in Op : o.kind # "write" /\ AddOp(o)
    BY <1>6 DEF AddsOther
  <2>2. ~Assigns(o, VarOf(r)) /\ (b # active => ops'[b] = ops[b])
    BY <2>1, OpAppended DEF Assigns
  <2> QED
    BY <1>4, <1>5, <2>1, <2>2
<1>7. ASSUME NEW v \in Var, AddsWrite(v)
      PROVE  Leaves(E, r, b)' <=> Leaves(E, r, b)
  <2>1. PICK o : o = [kind |-> "write", reg |-> NewRegister(v)]
    OBVIOUS
  <2>2. o \in Op /\ AddOp(o) /\ VarOf(o.reg) = v
    BY <1>7, <2>1, QueryTypes
    DEF InductiveSSA, Op, AddsWrite, NewRegister, VarOf
  <2>3. b # active => ops'[b] = ops[b]
    BY <2>2, OpAppended
  <2>4. b = active => ~Assigns(o, VarOf(r))
    BY <1>7, <2>2 DEF Assigns
  <2> QED
    BY <1>4, <1>5, <2>2, <2>3, <2>4
<1>8. CASE TryTrivial /\ \E by \in Reg : ReplaceInOps(top.phi, by)
  BY <1>4, <1>8, ReplacedOps
<1> QED
  BY <1>4, <1>6, <1>7, <1>8, OpsNext

LEMMA NoWriteNext ==
  ASSUME InductiveSSA, TypeOK', Shape, Live, [Next]_vars,
         NEW w, NEW b \in Block,
         \A v \in Var : AddsWrite(v) => b # active \/ w # v,
         NoWrite(w, b)
  PROVE  NoWrite(w, b)'
<1>1. /\ Len(ops[b]) \in Nat /\ Len(ops'[b]) \in Nat
      /\ DOMAIN ops[b] = 1..Len(ops[b]) /\ DOMAIN ops'[b] = 1..Len(ops'[b])
      /\ WritesKept(b, Len(ops[b]))
  BY PrefixKept
<1>2. \A j \in DOMAIN ops[b] : ~Assigns(ops'[b][j], w)
  BY <1>1 DEF WritesKept, SameWrites, NoWrite, Assigns
<1>3. CASE DOMAIN ops'[b] = DOMAIN ops[b]
  BY <1>2, <1>3 DEF NoWrite, Assigns
<1>4. ASSUME NEW o \in Op, AddOp(o), b = active, ~Assigns(o, w)
      PROVE  NoWrite(w, b)'
  <2>1. Len(ops'[b]) = Len(ops[b]) + 1 /\ ops'[b][Len(ops[b]) + 1] = o
    BY <1>4, OpAppended
  <2>2. \A j \in DOMAIN ops'[b] : ~Assigns(ops'[b][j], w)
    BY <1>1, <1>2, <1>4, <2>1
  <2> QED
    BY <2>2 DEF NoWrite, Assigns
<1>5. CASE AddsOther
  <2>1. PICK o \in Op : o.kind # "write" /\ AddOp(o)
    BY <1>5 DEF AddsOther
  <2>2. ~Assigns(o, w) /\ (b # active => ops'[b] = ops[b])
    BY <2>1, OpAppended DEF Assigns
  <2> QED
    BY <1>3, <1>4, <2>1, <2>2
<1>6. ASSUME NEW v \in Var, AddsWrite(v)
      PROVE  NoWrite(w, b)'
  <2>1. PICK o : o = [kind |-> "write", reg |-> NewRegister(v)]
    OBVIOUS
  <2>2. o \in Op /\ AddOp(o) /\ VarOf(o.reg) = v
    BY <1>6, <2>1, QueryTypes
    DEF InductiveSSA, Op, AddsWrite, NewRegister, VarOf
  <2>3. b # active => ops'[b] = ops[b]
    BY <2>2, OpAppended
  <2>4. b = active => ~Assigns(o, w)
    BY <1>6, <2>2 DEF Assigns
  <2> QED
    BY <1>3, <1>4, <2>2, <2>3, <2>4
<1>7. CASE TryTrivial /\ \E by \in Reg : ReplaceInOps(top.phi, by)
  BY <1>3, <1>7, ReplacedOps
<1>8. CASE ops' = ops
  BY <1>3, <1>8
<1> QED
  BY <1>5, <1>6, <1>7, <1>8, OpsNext

(* What is written last reaches the end of the block.                      *)
LEMMA WrittenLeaves ==
  ASSUME InductiveSSA, TypeOK', Shape, Live, [Next]_vars,
         NEW v \in Var, AddsWrite(v), NEW E, NEW r, r = NewRegister(v)
  PROVE  Leaves(E, r, active)' /\ active' = active
<1>1. PICK o : o = [kind |-> "write", reg |-> NewRegister(v)]
  OBVIOUS
<1>2. o \in Op /\ AddOp(o) /\ o.reg = r /\ Assigns(o, VarOf(r))
  BY <1>1, QueryTypes DEF InductiveSSA, Op, AddsWrite, Assigns
<1>3. PICK b \in Block : b = active
  BY <1>2, OpAppended
<1>4. PICK n \in Nat : n = Len(ops[b])
  BY PrefixKept
<1>5. Len(ops'[b]) = n + 1 /\ ops'[b][n + 1] = o
  BY <1>2, <1>3, <1>4, OpAppended
<1>6. n + 1 \in Nat \ {0}
  OBVIOUS
<1>7. ReachesIn(ops'[b], E, r, b, (n + 1) + 1)
  BY <1>2, <1>5, <1>6, ReachesFrom
<1>8. active' = active
  BY DEF AddsWrite, Assign, active
<1> QED
  BY <1>3, <1>5, <1>7, <1>8 DEF Leaves, Reaches

-----------------------------------------------------------------------------
(* Where the frames come from                                              *)

LEMMA NewCallers ==
  ASSUME InductiveSSA, Shape, [Next]_vars, NEW f \in Frames'
  PROVE  /\ f.at = "write" =>
              \/ f \in Frames
              \/ /\ ReadSinglePredecessor \/ ReadJoin
                 /\ f = WriteFrame(top.var, top.block)
         /\ f.at \in Tries =>
              \/ f \in Frames
              \/ OperandsComplete /\ f = PhiFrame("try", top.phi)
              \/ TryTrivial \/ TryUsers
<1>1. CASE Step
  <2>1. calls # <<>> /\ calls \in Seq(Frame)
    BY <1>1, RunningStep DEF InductiveSSA, TypeOK
  <2>2. Below \subseteq Frames
    BY <2>1, ShapeFacts
  <2>3. CASE ReadSinglePredecessor
    BY <2>2, <2>3, ReadSinglePredecessorMoves, FrameKinds DEF Tries
  <2>4. CASE ReadJoin
    BY <2>2, <2>4, ReadJoinMoves, FrameKinds DEF Tries
  <2>5. CASE ReadOperand
    BY <2>2, <2>5, ReadOperandMoves, FrameKinds DEF Tries
  <2>6. CASE AppendOperand
    BY <2>2, <2>6, AppendOperandMoves, FrameKinds DEF Tries
  <2>7. CASE OperandsComplete
    BY <2>2, <2>7, OperandsCompleteMoves, FrameKinds DEF Tries
  <2>8. CASE CollectResult
    BY <2>2, <2>8, CollectResultMoves, FrameKinds DEF Tries
  <2>9. CASE TryTrivial
    BY <2>2, <2>9, TryTrivialMoves, FrameKinds DEF Tries
  <2>10. CASE TryUsers
    <3>1. \A h \in Frames' : h \in Below \/ h.at \in {"try", "users"}
      <4>1. CASE Frames' = Below
        BY <4>1
      <4>2. CASE Frames' # Below
        <5>1. PICK u \in top.users :
                Frames' = {PhiFrame("try", u), UsersFrame(top.users \ {u})}
                          \cup Below
          BY <2>10, <4>2, TryUsersMoves
        <5> QED
          BY <5>1, FrameKinds
      <4> QED
        BY <4>1, <4>2
    <3> QED
      BY <2>2, <2>10, <3>1
  <2>11. CASE CompletePhi
    BY <2>2, <2>11, CompletePhiMoves, FrameKinds DEF Tries
  <2>12. CASE StartSeal
    BY <2>2, <2>12, StartSealMoves, FrameKinds DEF Tries
  <2>13. CASE FinaliseSeal
    <3>1. PICK b \in top.blocks :
            Frames' = {SealFrame(b), FinaliseFrame(top.blocks \ {b})}
                      \cup Below
      BY <2>13, FinaliseSealMoves
    <3> QED
      BY <2>2, <3>1, FrameKinds DEF Tries
  <2>14. CASE FixupDefinitions
    BY <2>14, FixupDefinitionsMoves DEF Frames
  <2> QED
    BY <1>1, <2>2, <2>3, <2>4, <2>5, <2>6, <2>7, <2>8, <2>9, <2>10, <2>11,
       <2>12, <2>13, <2>14, ReturnMoves, FinaliseCompleteMoves DEF Step
<1>2. CASE Client
  <2>1. f.at \in {"read", "use", "seal", "finalise"}
    <3>1. CASE \E v \in Var : Frames' \in {{ReadFrame(v, active)},
                                          {ReadFrame(v, active), UseFrame}}
      BY <3>1, FrameKinds
    <3>2. CASE \E b \in Block : Frames' = {SealFrame(b)}
      BY <3>2, FrameKinds
    <3>3. CASE \E bs \in SUBSET Block : Frames' = {FinaliseFrame(bs)}
      BY <3>3, FrameKinds
    <3> QED
      BY <1>2, <3>1, <3>2, <3>3, ClientMoves
  <2> QED
    BY <2>1 DEF Tries
<1>3. CASE UNCHANGED vars
  BY <1>3 DEF vars, callVars, Frames
<1> QED
  BY <1>1, <1>2, <1>3 DEF Next

(* Which frame stands on which.                                            *)
OldPair(f, g) ==
  \E k \in 1..(Len(calls) - 1) : f = calls[k] /\ g = calls[k + 1]

(* The frame h stands where the top one stood.                             *)
OnSecond(h) ==
  /\ h.at \in Marks => top.at \in Marks /\ h.phi = top.phi
  /\ h.at \in {"read", "write"} => top.at = "read" /\ h.block = top.block

NewPair(f, g) ==
  \/ /\ ReadSinglePredecessor
     /\ f = ReadFrame(top.var, Head(preds[top.block]))
     /\ g = WriteFrame(top.var, top.block)
  \/ /\ ReadJoin
     /\ f = OperandsFrame(NewRegister(top.var), top.block, preds[top.block])
     /\ g = WriteFrame(top.var, top.block)
  \/ /\ ReadOperand
     /\ f = ReadFrame(VarOf(top.phi), Head(top.todo))
     /\ g = OperandFrame(top.phi, top.block, top.todo)
  \/ Client /\ \E v \in Var : f = ReadFrame(v, active) /\ g = UseFrame
  \/ /\ f.at \notin {"read", "write"}
     /\ f.at \in Marks => g.at # "write"

LEMMA PairsAfterOne ==
  ASSUME calls \in Seq(Frame), calls # <<>>, NEW h \in Frame, Become(<<h>>),
         NEW i \in 1..(Len(calls') - 1)
  PROVE  \/ OldPair(calls'[i], calls'[i + 1])
         \/ /\ 1 \in 1..(Len(calls) - 1)
            /\ calls'[i] = h /\ calls'[i + 1] = calls[2]
<1>1. /\ Len(calls) \in Nat /\ Len(calls') = Len(calls) /\ calls'[1] = h
      /\ \A k \in 2..Len(calls) : calls'[k] = calls[k]
  BY Positions, PositionsOne
<1>2. i \in 1..(Len(calls) - 1) /\ i + 1 \in 2..Len(calls)
  BY <1>1
<1>3. CASE i = 1
  BY <1>1, <1>2, <1>3
<1>4. CASE i # 1
  <2>1. i \in 2..Len(calls)
    BY <1>1, <1>2, <1>4
  <2> QED
    BY <1>1, <1>2, <2>1 DEF OldPair
<1> QED
  BY <1>3, <1>4

LEMMA PairsAfterTwo ==
  ASSUME calls \in Seq(Frame), calls # <<>>,
         NEW f \in Frame, NEW h \in Frame, Become(<<f, h>>),
         NEW i \in 1..(Len(calls') - 1)
  PROVE  \/ OldPair(calls'[i], calls'[i + 1])
         \/ /\ 1 \in 1..(Len(calls) - 1)
            /\ calls'[i] = h /\ calls'[i + 1] = calls[2]
         \/ calls'[i] = f /\ calls'[i + 1] = h
<1>1. /\ Len(calls) \in Nat /\ Len(calls') = Len(calls) + 1
      /\ calls'[1] = f /\ calls'[2] = h
      /\ \A k \in 3..(Len(calls) + 1) : calls'[k] = calls[k - 1]
  BY Positions, PositionsTwo
<1>2. i \in 1..Len(calls)
  BY <1>1
<1>3. CASE i = 1
  BY <1>1, <1>3
<1>4. CASE i = 2
  <2>1. 3 \in 3..(Len(calls) + 1) /\ 1 \in 1..(Len(calls) - 1)
    BY <1>1, <1>2, <1>4
  <2> QED
    BY <1>1, <1>4, <2>1
<1>5. CASE i > 2
  <2>1. /\ i \in 3..(Len(calls) + 1) /\ i + 1 \in 3..(Len(calls) + 1)
        /\ i - 1 \in 1..(Len(calls) - 1)
        /\ (i + 1) - 1 = (i - 1) + 1
    BY <1>1, <1>2, <1>5
  <2>2. calls'[i] = calls[i - 1] /\ calls'[i + 1] = calls[(i - 1) + 1]
    BY <1>1, <2>1
  <2> QED
    BY <2>1, <2>2 DEF OldPair
<1> QED
  BY <1>2, <1>3, <1>4, <1>5

LEMMA PairsAfterReturn ==
  ASSUME calls \in Seq(Frame), calls # <<>>, calls' = Tail(calls),
         NEW i \in 1..(Len(calls') - 1)
  PROVE  OldPair(calls'[i], calls'[i + 1])
<1>1. /\ Len(calls) \in Nat /\ Len(calls') = Len(calls) - 1
      /\ \A k \in 1..(Len(calls) - 1) : calls'[k] = calls[k + 1]
  BY Positions, PositionsReturn
<1>2. /\ i \in 1..(Len(calls) - 1) /\ i + 1 \in 1..(Len(calls) - 1)
  BY <1>1
<1> QED
  BY <1>1, <1>2 DEF OldPair

LEMMA PairsNext ==
  ASSUME InductiveSSA, TypeOK', Shape, [Next]_vars, NoFixupFault,
         NEW i \in 1..(Len(calls') - 1)
  PROVE  \/ OldPair(calls'[i], calls'[i + 1])
         \/ /\ 1 \in 1..(Len(calls) - 1) /\ calls'[i + 1] = calls[2]
            /\ OnSecond(calls'[i])
         \/ NewPair(calls'[i], calls'[i + 1])
<1>0. calls \in Seq(Frame) /\ calls' \in Seq(Frame)
  BY DEF InductiveSSA, TypeOK
<1>a. calls' # <<>>
  BY <1>0
<1>1. CASE Step
  <2>1. calls # <<>>
    BY <1>1, RunningStep
  <2> DEFINE F == calls'[i]
             G == calls'[i + 1]
  <2>2. ASSUME NEW f \in Frame, Become(<<f>>), f.at \notin {"read", "write"},
               f.at \in Marks => top.at \in Marks /\ f.phi = top.phi
        PROVE  \/ OldPair(F, G)
               \/ 1 \in 1..(Len(calls) - 1) /\ G = calls[2] /\ OnSecond(F)
    BY <1>0, <2>1, <2>2, PairsAfterOne DEF OnSecond
  <2>3. ASSUME NEW f \in Frame, NEW h \in Frame, Become(<<f, h>>),
               NewPair(f, h), OnSecond(h)
        PROVE  \/ OldPair(F, G)
               \/ 1 \in 1..(Len(calls) - 1) /\ G = calls[2] /\ OnSecond(F)
               \/ NewPair(F, G)
    BY <1>0, <2>1, <2>3, PairsAfterTwo
  <2> HIDE DEF F, G
  <2>4. CASE calls' = Tail(calls)
    BY <1>0, <2>1, <2>4, PairsAfterReturn DEF F, G
  <2>5. CASE ReadSinglePredecessor
    <3>1. PICK f, h : /\ f = ReadFrame(top.var, Head(preds[top.block]))
                      /\ h = WriteFrame(top.var, top.block)
      OBVIOUS
    <3>2. f \in Frame /\ h \in Frame /\ Become(<<f, h>>)
      BY <2>5, <3>1, ReadSinglePredecessorMoves
    <3>3. top.at = "read"
      BY <2>5, TopFields DEF ReadSinglePredecessor, Missing, Reading
    <3>4. OnSecond(h)
      BY <3>1, <3>3 DEF OnSecond, WriteFrame, Marks, Gathers
    <3>5. NewPair(f, h)
      BY <2>5, <3>1 DEF NewPair
    <3> QED
      BY <2>3, <3>2, <3>4, <3>5 DEF F, G
  <2>6. CASE ReadJoin
    <3>1. PICK f, h : /\ f = OperandsFrame(NewRegister(top.var), top.block,
                                           preds[top.block])
                      /\ h = WriteFrame(top.var, top.block)
      OBVIOUS
    <3>2. f \in Frame /\ h \in Frame /\ Become(<<f, h>>)
      BY <2>6, <3>1, ReadJoinMoves
    <3>3. top.at = "read"
      BY <2>6, TopFields DEF ReadJoin, Missing, Reading
    <3>4. OnSecond(h)
      BY <3>1, <3>3 DEF OnSecond, WriteFrame, Marks, Gathers
    <3>5. NewPair(f, h)
      BY <2>6, <3>1 DEF NewPair
    <3> QED
      BY <2>3, <3>2, <3>4, <3>5 DEF F, G
  <2>7. CASE ReadOperand
    <3>1. PICK f, h : /\ f = ReadFrame(VarOf(top.phi), Head(top.todo))
                      /\ h = OperandFrame(top.phi, top.block, top.todo)
      OBVIOUS
    <3>2. f \in Frame /\ h \in Frame /\ Become(<<f, h>>)
      BY <2>7, <3>1, ReadOperandMoves
    <3>3. top.at = "operands"
      BY <2>7, TopFields DEF ReadOperand
    <3>4. OnSecond(h)
      BY <3>1, <3>3 DEF OnSecond, OperandFrame, Marks, Gathers
    <3>5. NewPair(f, h)
      BY <2>7, <3>1 DEF NewPair
    <3> QED
      BY <2>3, <3>2, <3>4, <3>5 DEF F, G
  <2>8. CASE AppendOperand
    <3>1. PICK f : f = OperandsFrame(top.phi, top.block, Tail(top.todo))
      OBVIOUS
    <3>2. f \in Frame /\ Become(<<f>>) /\ top.at = "operand"
      BY <2>8, <3>1, AppendOperandMoves, TopFields DEF AppendOperand
    <3> QED
      BY <2>2, <3>1, <3>2 DEF OperandsFrame, Marks, Gathers, F, G
  <2>9. CASE OperandsComplete
    <3>1. PICK f, h : f = PhiFrame("try", top.phi) /\ h = PhiFrame("result", top.phi)
      OBVIOUS
    <3>2. f \in Frame /\ h \in Frame /\ Become(<<f, h>>)
      BY <2>9, <3>1, OperandsCompleteMoves
    <3>3. top.at = "operands"
      BY <2>9, TopFields DEF OperandsComplete
    <3>4. OnSecond(h)
      BY <3>1, <3>3 DEF OnSecond, PhiFrame, Marks, Gathers
    <3>5. NewPair(f, h)
      BY <3>1 DEF NewPair, PhiFrame, Marks, Gathers
    <3> QED
      BY <2>3, <3>2, <3>4, <3>5 DEF F, G
  <2>10. CASE CollectResult
    <3>1. CASE removals = <<>>
      BY <2>4, <2>10, <3>1, CollectResultMoves
    <3>2. CASE removals # <<>>
      <4>1. PICK f : f = PhiFrame("fixup", top.phi)
        OBVIOUS
      <4>2. f \in Frame /\ Become(<<f>>) /\ top.at = "result"
        BY <2>10, <3>2, <4>1, CollectResultMoves, TopFields DEF CollectResult
      <4> QED
        BY <2>2, <4>1, <4>2 DEF PhiFrame, Marks, F, G
    <3> QED
      BY <3>1, <3>2
  <2>11. CASE TryTrivial
    <3>1. PICK f \in Frame : Become(<<f>>) /\ f.at = "users"
      BY <2>11, TryTrivialMoves, FrameKinds
    <3> QED
      BY <2>2, <3>1 DEF Marks, Gathers, F, G
  <2>12. CASE TryUsers
    <3>1. CASE calls' # Tail(calls)
      <4>1. PICK f \in Frame, h \in Frame :
              Become(<<f, h>>) /\ f.at = "try" /\ h.at = "users"
        BY <2>12, <3>1, TryUsersMoves, FrameKinds
      <4>2. OnSecond(h) /\ NewPair(f, h)
        BY <4>1 DEF OnSecond, NewPair, Marks, Gathers
      <4> QED
        BY <2>3, <4>1, <4>2 DEF F, G
    <3> QED
      BY <2>4, <3>1
  <2>13. CASE CompletePhi
    <3>1. PICK f, h : /\ f = OperandsFrame(Head(top.todo), top.block,
                                           preds[top.block])
                      /\ h = SealingFrame(top.block, Tail(top.todo))
      OBVIOUS
    <3>2. f \in Frame /\ h \in Frame /\ Become(<<f, h>>)
      BY <2>13, <3>1, CompletePhiMoves
    <3>3. f.at = "operands" /\ h.at = "sealing"
      BY <3>1, FrameKinds
    <3>4. OnSecond(h) /\ NewPair(f, h)
      BY <3>3 DEF OnSecond, NewPair, Marks, Gathers
    <3> QED
      BY <2>3, <3>2, <3>4 DEF F, G
  <2>14. CASE StartSeal
    <3>1. PICK f \in Frame : Become(<<f>>) /\ f.at = "sealing"
      BY <1>a, <2>14, StartSealMoves, FrameKinds
    <3> QED
      BY <2>2, <3>1 DEF Marks, Gathers, F, G
  <2>15. CASE FinaliseSeal
    <3>1. PICK f \in Frame, h \in Frame :
            Become(<<f, h>>) /\ f.at = "seal" /\ h.at = "finalise"
      BY <2>15, FinaliseSealMoves, FrameKinds
    <3>2. OnSecond(h) /\ NewPair(f, h)
      BY <3>1 DEF OnSecond, NewPair, Marks, Gathers
    <3> QED
      BY <2>3, <3>1, <3>2 DEF F, G
  <2>16. CASE FixupDefinitions
    <3>1. calls' = calls
      BY <2>16 DEF NoFixupFault
    <3> QED
      BY <3>1 DEF OldPair, F, G
  <2> QED
    BY <1>1, <1>a, <2>4, <2>5, <2>6, <2>7, <2>8, <2>9, <2>10, <2>11, <2>12,
       <2>13, <2>14, <2>15, <2>16, ReturnMoves, FinaliseCompleteMoves
    DEF Step, F, G
<1>2. CASE Client
  <2>1. ASSUME NEW v \in Var, UseVariable(v)
        PROVE  Client /\ calls'[i] = ReadFrame(v, active) /\ calls'[i + 1] = UseFrame
    <3>1. calls' = <<ReadFrame(v, active), UseFrame>>
      BY <1>2, <2>1, ClientMoves DEF UseVariable, Push
    <3> QED
      BY <1>2, <3>1
  <2>2. ASSUME NEW f, Push(<<f>>) PROVE FALSE
    <3>1. calls' = <<f>>
      BY <1>2, <2>2, ClientMoves DEF Push
    <3> QED
      BY <3>1
  <2>3. ASSUME Push(<<>>) PROVE FALSE
    BY <1>2, <1>a, <2>3, ClientMoves DEF Push
  <2>4. \E v \in Var : UseVariable(v)
    <3>1. calls = <<>> /\ calls' # calls
      BY <1>2, <1>a, ClientMoves
    <3> QED
      BY <1>2, <1>a, <2>2, <2>3, <3>1
      DEF Client, Assign, UseHeld, ReadVariable, Terminate, Raise, Activate,
          ActivateOpen, ActivateThen, CloseOpen, Finalise, SealIfUnlabelled,
          callVars, SealedTarget
  <2> QED
    BY <2>1, <2>4 DEF NewPair
<1>3. CASE UNCHANGED vars
  BY <1>3 DEF vars, callVars, OldPair
<1> QED
  BY <1>1, <1>2, <1>3 DEF Next

-----------------------------------------------------------------------------
(* The graph                                                               *)

LEMMA FaultsStay ==
  ASSUME InductiveSSA, [Next]_vars
  PROVE  fault # "none" => fault' # "none" /\ UNCHANGED preds
<1>1. CASE Step
  BY <1>1
  DEF Step, ReadLocal, ReadUnsealed, ReadSinglePredecessor, ReadJoin,
      WriteBack, ReadOperand, AppendOperand, OperandsComplete,
      CollectResult, FixupDefinitions, FixupComplete, TryUndefined,
      TryNotTrivial, TryTrivial, TryUsers, StartSeal, CompletePhi,
      SealComplete, AddUse, FinaliseSeal, FinaliseComplete, Running,
      Missing, Reading
<1>2. CASE Client
  BY <1>2
  DEF Client, Assign, UseVariable, ReadVariable, UseHeld, Terminate,
      Activate, ActivateOpen, ActivateThen, CloseOpen, Finalise, Open, Idle
<1>3. CASE UNCHANGED vars
  BY <1>3 DEF vars, cfgVars
<1> QED
  BY <1>1, <1>2, <1>3 DEF Next

(* The edges that a step adds leave the active block, which it terminates, *)
(* and enter blocks that are not sealed, between two calls.                *)
LEMMA EdgesNext ==
  ASSUME InductiveSSA, Shape, [Next]_vars, NEW b \in Block
  PROVE  /\ sealed \subseteq sealed' /\ terminated \subseteq terminated'
         /\ b \in sealed \/ calls # <<>> \/ fault # "none"
              => preds'[b] = preds[b]
         /\ Range(preds'[b]) \subseteq Range(preds[b]) \cup terminated'
         /\ \A v \in Var : AddsWrite(v) => preds'[b] = preds[b]
<1>1. sealed \subseteq sealed'
  BY Changes DEF SealComplete
<1>2. terminated' # terminated =>
        \E ts \in SUBSET Block : Terminate(ts)
  <2>1. CASE Step
    BY <2>1
    DEF Step, ReadLocal, ReadUnsealed, ReadSinglePredecessor, ReadJoin,
        WriteBack, ReadOperand, AppendOperand, OperandsComplete,
        CollectResult, FixupDefinitions, FixupComplete, TryUndefined,
        TryNotTrivial, TryTrivial, TryUsers, StartSeal, CompletePhi,
        SealComplete, AddUse, FinaliseSeal, FinaliseComplete, cfgVars
  <2>2. CASE Client
    BY <2>2
    DEF Client, Assign, UseVariable, ReadVariable, UseHeld,
        Activate, ActivateOpen, ActivateThen, CloseOpen, Finalise, cfgVars
  <2>3. CASE UNCHANGED vars
    BY <2>3 DEF vars, cfgVars
  <2> QED
    BY <2>1, <2>2, <2>3 DEF Next
<1>3. ASSUME NEW ts \in SUBSET Block, Terminate(ts)
      PROVE  /\ terminated \subseteq terminated'
             /\ b \in sealed => preds'[b] = preds[b]
             /\ calls = <<>> /\ fault = "none"
             /\ Range(preds'[b]) \subseteq Range(preds[b]) \cup terminated'
  <2>1. calls = <<>> /\ fault = "none"
    BY <1>3 DEF Terminate, Open, Idle
  <2>2. CASE UNCHANGED <<preds, terminated>>
    BY <2>1, <2>2
  <2>3. CASE ~UNCHANGED <<preds, terminated>>
    <3>1. /\ ts \cap sealed = {}
          /\ preds'[b] = IF b \in ts THEN AddPred(preds[b], active)
                                     ELSE preds[b]
          /\ terminated' = terminated \cup {active}
      BY <1>3, <2>3 DEF Terminate, SealedTarget
    <3>2. active \in Block /\ preds[b] \in Seq(Block)
      BY QueryTypes DEF InductiveSSA, TypeOK
    <3>3. Range(Append(preds[b], active)) = Range(preds[b]) \cup {active}
      BY <3>2, AppendRange
    <3> QED
      BY <2>1, <3>1, <3>3 DEF AddPred
  <2> QED
    BY <2>2, <2>3
<1>4. preds' # preds => \E ts \in SUBSET Block : Terminate(ts)
  BY Changes
<1>5. \A v \in Var : AddsWrite(v) => preds'[b] = preds[b]
  BY DEF AddsWrite, Assign
<1> QED
  BY <1>1, <1>2, <1>3, <1>4, <1>5

LEMMA GraphNext ==
  ASSUME InductiveSSA, TypeOK', Shape, Graph, [Next]_vars
  PROVE  Graph'
<1>0. Entry \in Block /\ Param \subseteq Var
  BY ConstantsAssumption
<1>1. /\ Entry \in sealed'
      /\ preds'[Entry] = <<>>
      /\ \A v \in Param : currentDef'[<<v, Entry>>] # NoReg
  <2>1. \A v \in Param : <<v, Entry>> \in Var \X Block
    BY <1>0
  <2> QED
    BY <1>0, <2>1, EdgesNext, DefinitionsKept DEF Graph, EntryOK
<1>2. ASSUME NEW p \in phis', p[1] = Entry
      PROVE  VarOf(p[2]) \notin Param
  <2>1. CASE p \in phis
    BY <1>2, <2>1 DEF Graph, EntryOK
  <2>2. CASE /\ ReadUnsealed \/ ReadJoin
             /\ p = <<top.block, NewRegister(top.var)>>
    <3>1. currentDef[<<top.var, top.block>>] = NoReg
      BY <2>2 DEF ReadUnsealed, ReadJoin, Missing, Found
    <3>2. top.block = Entry /\ VarOf(p[2]) = top.var
      BY <1>2, <2>2 DEF NewRegister, VarOf
    <3> QED
      BY <3>1, <3>2 DEF Graph, EntryOK
  <2> QED
    BY <2>1, <2>2, PhisNext
<1>3. ASSUME NEW b \in Block
      PROVE  Range(preds'[b]) \subseteq terminated'
  <2>1. Range(preds[b]) \subseteq terminated
    BY DEF Graph, PredecessorsTerminated
  <2> QED
    BY <2>1, EdgesNext
<1>4. EntryOK'
  BY <1>1, <1>2 DEF EntryOK
<1>5. PredecessorsTerminated'
  <2>1. \A b \in Block : Range(preds[b])' \subseteq terminated'
    BY <1>3 DEF Range
  <2> QED
    BY <2>1 DEF PredecessorsTerminated
<1> QED
  BY <1>4, <1>5 DEF Graph

(* What is assigned is in the active block, which nothing has left yet.    *)
LEMMA AssignsAtTheEnd ==
  ASSUME InductiveSSA, PredecessorsTerminated, NEW v \in Var, AddsWrite(v),
         NEW b \in Block, NEW q \in Range(preds[b])
  PROVE  q # active
  BY DEF AddsWrite, Assign, Open, PredecessorsTerminated

-----------------------------------------------------------------------------
(* The calls                                                               *)

LEMMA CallsLinkedNext ==
  ASSUME InductiveSSA, TypeOK', Shape, CallsLinked, [Next]_vars, NoFixupFault
  PROVE  CallsLinked'
<1> SUFFICES ASSUME NEW i \in 1..(Len(calls') - 1),
                    calls'[i].at \in {"read", "write"}
             PROVE  ReadsFrom(calls[i + 1], calls[i].block)'
  BY DEF CallsLinked
<1>0. calls \in Seq(Frame)
  BY DEF InductiveSSA, TypeOK
<1>1. PICK f, g : f = calls'[i] /\ g = calls'[i + 1]
  OBVIOUS
<1>2. SUFFICES ReadsFrom(g, f.block)'
  BY <1>1
<1>3. ASSUME NEW c, NEW h \in Frame, ReadsFrom(h, c), calls # <<>>
      PROVE  ReadsFrom(h, c)'
  <2>1. active' = active
    <3>1. blocks' = blocks
      BY <1>3, Changes DEF Activate, ActivateOpen, ActivateThen, Idle
    <3> QED
      BY <3>1 DEF active
  <2>2. h.at = "write" => h.block \in Block
    BY FrameFields
  <2> QED
    BY <1>3, <2>1, <2>2, EdgesNext DEF ReadsFrom
<1>4. CASE OldPair(f, g)
  <2>1. PICK k \in 1..(Len(calls) - 1) : f = calls[k] /\ g = calls[k + 1]
    BY <1>4 DEF OldPair
  <2>2. calls # <<>> /\ g \in Frame
    BY <1>0, <2>1
  <2> QED
    BY <1>1, <1>3, <2>1, <2>2 DEF CallsLinked
<1>5. CASE 1 \in 1..(Len(calls) - 1) /\ g = calls[2] /\ OnSecond(f)
  <2>1. calls # <<>> /\ g \in Frame /\ top = calls[1]
    BY <1>0, <1>5, Positions
  <2>2. top.at = "read" /\ f.block = top.block
    BY <1>1, <1>5 DEF OnSecond
  <2> QED
    BY <1>3, <1>5, <2>1, <2>2 DEF CallsLinked
<1>6. CASE NewPair(f, g)
  <2>1. CASE ReadSinglePredecessor /\ f = ReadFrame(top.var, Head(preds[top.block]))
             /\ g = WriteFrame(top.var, top.block)
    <3>1. /\ top.block \in sealed /\ Len(preds[top.block]) = 1
          /\ top.block \in Block /\ calls # <<>> /\ g \in Frame
      BY <2>1, TopFields, ReadSinglePredecessorMoves
      DEF ReadSinglePredecessor, OnePredecessor, Missing, Reading
    <3>2. preds[top.block] = <<Head(preds[top.block])>>
      <4>1. preds[top.block] \in Seq(Block)
        BY <3>1 DEF InductiveSSA, TypeOK
      <4> QED
        BY <3>1, <4>1
    <3>3. ReadsFrom(g, f.block)
      BY <2>1, <3>1, <3>2 DEF ReadsFrom, ReadFrame, WriteFrame
    <3> QED
      BY <1>3, <3>1, <3>3
  <2>2. CASE ReadOperand /\ f = ReadFrame(VarOf(top.phi), Head(top.todo))
             /\ g = OperandFrame(top.phi, top.block, top.todo)
    <3>1. ReadsFrom(g, f.block)
      BY <2>2 DEF ReadsFrom, ReadFrame, OperandFrame
    <3>2. calls # <<>> /\ g \in Frame
      BY <2>2, TopFields, ReadOperandMoves DEF ReadOperand
    <3> QED
      BY <1>3, <3>1, <3>2
  <2>3. CASE Client /\ \E v \in Var : f = ReadFrame(v, active) /\ g = UseFrame
    <3>1. f.block = active /\ g.at = "use"
      BY <2>3 DEF ReadFrame, UseFrame
    <3>2. active' = active
      <4>1. calls' # <<>> /\ Len(calls') > 1
        <5>1. calls' \in Seq(Frame)
          BY DEF TypeOK
        <5> QED
          BY <5>1
      <4>2. CASE blocks' # blocks
        <5>1. PICK b \in Block : Activate(b) \/ ActivateOpen(b)
          BY <4>2, Changes
        <5>2. calls' = SealIfUnlabelled(b) \o calls \/ calls' = <<>> \o calls
          BY <4>2, <5>1 DEF Activate, ActivateOpen, ActivateThen, Push
        <5>3. calls' = <<>> \/ calls' = <<SealFrame(b)>>
          BY <2>3, <5>2, ClientMoves DEF SealIfUnlabelled
        <5>4. ASSUME NEW x, calls' = <<x>> PROVE FALSE
          BY <4>1, <5>4
        <5> QED
          BY <4>1, <5>3, <5>4
      <4> QED
        BY <4>2 DEF active
    <3> QED
      BY <3>1, <3>2 DEF ReadsFrom
  <2>4. f.at \in {"read", "write"}
    BY <1>1
  <2>5. f # OperandsFrame(NewRegister(top.var), top.block, preds[top.block])
    BY <2>4, FrameKinds
  <2> QED
    BY <1>6, <2>1, <2>2, <2>3, <2>4, <2>5 DEF NewPair
<1> QED
  BY <1>1, <1>4, <1>5, <1>6, PairsNext

(* A block whose variable is missing has no assignment to it: the frames   *)
(* that wait to write a definition back are for such blocks.               *)
LEMMA WritersAreMissingNext ==
  ASSUME InductiveSSA, TypeOK', Shape, Live, WritersAreMissing,
         NEW E, CacheLeaves(E), [Next]_vars
  PROVE  WritersAreMissing'
<1> SUFFICES ASSUME NEW f \in Frames', f.at = "write"
             PROVE  NoWrite(f.var, f.block)'
  BY DEF WritersAreMissing
<1>1. ASSUME NEW v \in Var, AddsWrite(v)
      PROVE  FALSE
  <2>1. Frames' = {}
    BY <1>1 DEF AddsWrite, Assign, Open, Idle, callVars, Frames, Range
  <2> QED
    BY <2>1
<1>2. /\ f.var \in Var /\ f.block \in Block
      /\ NoWrite(f.var, f.block)
  <2>1. CASE f \in Frames
    <3>1. f \in Frame
      BY <2>1, FramesAreTyped
    <3> QED
      BY <2>1, <3>1, FrameFields DEF WritersAreMissing
  <2>2. CASE /\ ReadSinglePredecessor \/ ReadJoin
             /\ f = WriteFrame(top.var, top.block)
    <3>1. /\ top.var \in Var /\ top.block \in Block
          /\ currentDef[<<top.var, top.block>>] = NoReg
      BY <2>2, TopFields
      DEF ReadSinglePredecessor, ReadJoin, Missing, Found, Reading
    <3> QED
      BY <2>2, <3>1 DEF CacheLeaves, WriteFrame
  <2> QED
    BY <2>1, <2>2, NewCallers
<1>3. PICK w, b : w = f.var /\ b = f.block
  OBVIOUS
<1>4. NoWrite(w, b)'
  BY <1>1, <1>2, <1>3, NoWriteNext
<1> QED
  BY <1>3, <1>4

(* The removals of one call begin with the phi it has completed.           *)
LEMMA FirstIsCompletedNext ==
  ASSUME InductiveSSA, TypeOK', Shape, FirstIsCompleted, Live, [Next]_vars,
         NoFixupFault
  PROVE  FirstIsCompleted'
<1>0. /\ calls \in Seq(Frame) /\ removals \in Seq(Removal)
      /\ Frames \subseteq Frame
  BY FramesAreTyped DEF InductiveSSA, TypeOK
<1>1. CASE OperandsComplete
  <2>1. /\ removals' = <<>> /\ Frames' = {PhiFrame("try", top.phi),
                                         PhiFrame("result", top.phi)} \cup Below
    BY <1>1, OperandsCompleteMoves DEF OperandsComplete
  <2>2. \A f \in Below : f.at \notin Removes
    <3>1. calls # <<>> /\ top.at = "operands"
      BY <1>1, TopFields DEF OperandsComplete
    <3> QED
      BY <1>0, <3>1, ShapeFacts DEF Tries
  <2>3. \A f \in Below : f.at \notin {"users", "try", "result"}
    BY <2>2 DEF Removes, Tries
  <2>4. \A f \in Frames' : /\ f.at # "users"
                           /\ f.at \in {"try", "result"} => f.phi = top.phi
    BY <2>1, <2>3, FrameKinds
  <2>5. PICK p : p = top.phi
    OBVIOUS
  <2> QED
    BY <2>1, <2>4, <2>5 DEF FirstIsCompleted
<1>2. CASE TryTrivial
  <2>1. PICK r : /\ r.phi = top.phi
                 /\ removals' = Append(removals, r)
                 /\ r \in Removal
    <3>1. PICK by \in Reg : removals' = Append(removals, [phi |-> top.phi, by |-> by])
      BY <1>2, TryTrivialArgs
    <3>2. top.phi \in Reg
      BY <1>2, TriedIsPhi
    <3> QED
      BY <3>1, <3>2 DEF Removal
  <2>2. removals' # <<>>
    BY <1>0, <2>1
  <2>3. /\ removals # <<>> => removals'[1] = removals[1]
        /\ removals = <<>> => removals'[1].phi = top.phi
    BY <1>0, <2>1
  <2>4. /\ Frames' = {UsersFrame(UsersOf(top.phi))} \cup Below
        /\ calls' # <<>> /\ calls'[1] = UsersFrame(UsersOf(top.phi))
    BY <1>2, TryTrivialMoves
  <2>5. top.at = "try" /\ top \in Frames /\ Below \subseteq Frames
    BY <1>0, <1>2, TopFields, ShapeFacts DEF TryTrivial
  <2>6. Removing'
    BY <2>4, FrameKinds DEF Removing, Removes, Tries
  <2>7. \A f \in Frames' : f.at = "result" => f \in Frames
    BY <2>4, <2>5, FrameKinds
  <2>8. ASSUME NEW f \in Frames', f.at = "result"
        PROVE  removals'[1].phi = f.phi
    BY <2>3, <2>5, <2>7, <2>8 DEF FirstIsCompleted
  <2> QED
    BY <2>2, <2>6, <2>8 DEF FirstIsCompleted
<1>3. CASE FixupDefinitions
  <2>1. /\ calls' = calls /\ removals # <<>> /\ top.at = "fixup"
        /\ calls # <<>>
    BY <1>3, TopFields DEF FixupDefinitions, NoFixupFault
  <2>2. \A f \in Frames' : f.at \notin {"try", "users", "result"}
    <3>1. Frames' = Frames
      BY <2>1 DEF Frames
    <3>2. \A f \in Below : f.at \notin Removes
      BY <1>0, <2>1, ShapeFacts DEF Tries
    <3>3. \A f \in Frames : f = top \/ f \in Below
      BY <1>0, <2>1, ShapeFacts
    <3> QED
      BY <2>1, <3>1, <3>2, <3>3 DEF Removes, Tries
  <2>3. Removing'
    BY <2>1 DEF Removing, FirstIsCompleted
  <2> QED
    BY <2>2, <2>3 DEF FirstIsCompleted
<1>4. CASE ~OperandsComplete /\ ~TryTrivial /\ ~FixupDefinitions
  <2>1. removals' = removals
    BY <1>4, Changes
  <2>2. ASSUME removals # <<>> PROVE Removing'
    <3>1. Removing /\ calls # <<>> /\ top = calls[1] /\ top.at \in Removes
      BY <1>0, <2>2, Positions DEF FirstIsCompleted, Removing
    <3>2. CASE UNCHANGED vars
      BY <3>1, <3>2 DEF vars, callVars, Removing
    <3>3. CASE Step
      <4>1. TryUndefined \/ TryNotTrivial \/ TryUsers \/ CollectResult
              \/ FixupComplete
        BY <1>4, <3>1, <3>3, StepOf DEF Removes, Tries
      <4>2. ~FixupComplete
        BY <2>2 DEF FixupComplete
      <4>3. CASE CollectResult
        <5>1. calls' # <<>> /\ calls'[1] = PhiFrame("fixup", top.phi)
          BY <2>2, <4>3, CollectResultMoves
        <5> QED
          BY <5>1, FrameKinds DEF Removing, Removes
      <4>4. ASSUME NEW k \in Tries, Running(k), calls' = Tail(calls)
            PROVE  Removing'
        <5>1. /\ calls' # <<>> /\ (top').at \in {"users", "result"}
              /\ calls'[1] = top'
          BY <4>4, ReturnsTo
        <5> QED
          BY <5>1 DEF Removing, Removes, Tries
      <4>5. CASE TryUndefined \/ TryNotTrivial
        BY <4>4, <4>5, ReturnMoves DEF TryUndefined, TryNotTrivial, Tries
      <4>6. CASE TryUsers
        <5>1. CASE calls' = Tail(calls)
          BY <4>4, <4>6, <5>1 DEF TryUsers, Tries
        <5>2. CASE calls' # Tail(calls)
          <6>1. calls' # <<>> /\ calls'[1].at = "try"
            BY <4>6, <5>2, TryUsersMoves, FrameKinds
          <6> QED
            BY <6>1 DEF Removing, Removes, Tries
        <5> QED
          BY <5>1, <5>2
      <4> QED
        BY <4>1, <4>2, <4>3, <4>5, <4>6
    <3>4. CASE Client
      BY <3>1, <3>4, ClientMoves
    <3> QED
      BY <3>2, <3>3, <3>4 DEF Next
  <2>3. ASSUME NEW f \in Frames', f.at = "result" PROVE f \in Frames
    <3>1. f # PhiFrame("fixup", top.phi)
      BY <2>3, FrameKinds
    <3>2. \A p, b, ps : /\ f # OperandsFrame(p, b, ps)
                        /\ f # OperandFrame(p, b, ps)
      BY <2>3, FrameKinds
    <3>3. \A b, ps : f # SealingFrame(b, ps)
      BY <2>3, FrameKinds
    <3> QED
      BY <1>4, <2>3, <3>1, <3>2, <3>3, NewFrames DEF Marks
  <2>4. ASSUME removals = <<>>, NEW f \in Frames', f.at \in Tries
        PROVE  f \in Frames
    <3>1. CASE TryUsers
      <4>1. top.at = "users" /\ top \in Frames
        BY <1>0, <3>1, TopFields, ShapeFacts DEF TryUsers
      <4> QED
        BY <2>4, <4>1 DEF FirstIsCompleted
    <3> QED
      BY <1>4, <2>4, <3>1, NewCallers
  <2>5. CASE removals # <<>>
    <3>1. \A f \in Frames' : f.at = "result" => removals[1].phi = f.phi
      BY <2>3, <2>5 DEF FirstIsCompleted
    <3> QED
      BY <2>1, <2>2, <2>5, <3>1 DEF FirstIsCompleted
  <2>6. CASE removals = <<>>
    <3>1. \A f \in Frames' :
            /\ f.at # "users"
            /\ f.at = "try" =>
                 \A g \in Frames' : g.at = "result" => g.phi = f.phi
      BY <2>3, <2>4, <2>6 DEF FirstIsCompleted, Tries
    <3> QED
      BY <2>1, <2>6, <3>1 DEF FirstIsCompleted
  <2> QED
    BY <2>5, <2>6
<1> QED
  BY <1>1, <1>2, <1>3, <1>4

-----------------------------------------------------------------------------
(* What a step makes of the entries                                        *)

StepOK ==
  /\ InductiveSSA /\ Construction /\ Graph /\ Stack /\ [Next]_vars

LEMMA StepFacts ==
  ASSUME StepOK
  PROVE  /\ InductiveSSA /\ TypeOK /\ InductiveSSA' /\ TypeOK' /\ [Next]_vars
         /\ Shape /\ OneVariable /\ SameVariable /\ Issued
         /\ InnerIsYounger /\ TriedAreYoung
         /\ WaitingOK /\ FillingOK /\ OthersComplete
         /\ UsesAreDefined /\ Live /\ NoFixupFault
         /\ EntryOK /\ PredecessorsTerminated
         /\ CallsLinked /\ WritersAreMissing /\ FirstIsCompleted
         /\ SingleAssignment /\ VersionsIssued
<1>1. InductiveSSA' /\ TypeOK'
  BY NextSSA DEF StepOK, InductiveSSA
<1>2. /\ Shape /\ OneVariable /\ SameVariable /\ Issued /\ InnerIsYounger
      /\ TriedAreYoung /\ WaitingOK /\ FillingOK /\ OthersComplete
      /\ UsesAreDefined /\ Live
  BY DEF StepOK, Construction, Webs, Ages, Operands, Definitions
<1>3. NoFixupFault
  BY <1>2, FixupGoesOn DEF StepOK
<1> QED
  BY <1>1, <1>2, <1>3 DEF StepOK, InductiveSSA, Graph, Stack

(* A phi holds its variable from its creation, a definition once it is     *)
(* written back, and what replaces a phi wherever the phi did.             *)
Gains(E, r, b) ==
  \/ /\ ReadUnsealed \/ ReadJoin
     /\ r = NewRegister(top.var) /\ b = top.block
  \/ WriteBack /\ r = ret /\ b = top.block
  \/ TryTrivial /\ r \in NonSelfArgs(top.phi) /\ <<top.phi, b>> \in E

NextEntries(E, F) ==
  /\ E \subseteq Reg \X Block /\ F \subseteq Reg \X Block
  /\ E \subseteq F
  /\ \A r \in Reg, b \in Block : <<r, b>> \in F <=> <<r, b>> \in E \/ Gains(E, r, b)

LEMMA EntriesExist ==
  ASSUME NEW E \in SUBSET (Reg \X Block)
  PROVE  \E F \in SUBSET (Reg \X Block) : NextEntries(E, F)
<1>1. PICK G : G = {e \in Reg \X Block : Gains(E, e[1], e[2])}
  OBVIOUS
<1>2. \A r \in Reg, b \in Block : <<r, b>> \in G <=> Gains(E, r, b)
  BY <1>1
<1>3. E \cup G \in SUBSET (Reg \X Block)
  BY <1>1
<1> QED
  BY <1>2, <1>3 DEF NextEntries

LEMMA LeavesKeep ==
  ASSUME StepOK, NEW E, NEW F, NextEntries(E, F), NEW r, NEW b \in Block,
         Leaves(E, r, b),
         \A v \in Var : AddsWrite(v) => b # active \/ VarOf(r) # v
  PROVE  Leaves(F, r, b)'
<1>1. Leaves(E, r, b)'
  BY StepFacts, LeavesNext
<1>2. E \subseteq F
  BY DEF NextEntries
<1> QED
  BY <1>1, <1>2, ReachesGrow DEF Leaves, Reaches

(* What a trivial phi is replaced by.                                      *)
ReplacedBy(E, F, by) ==
  /\ by # top.phi /\ VarOf(by) = VarOf(top.phi)
  /\ top.phi \in Reg /\ top.phi \notin WrittenRegs
  /\ NonSelfArgs(top.phi) = {by}
  /\ phis' = {q \in phis : q[2] # top.phi}
  /\ phiArgs' = {Renamed(a, top.phi, by) : a \in phiArgs}
  /\ removals' = Append(removals, [phi |-> top.phi, by |-> by])
  /\ ReplaceInOps(top.phi, by)
  /\ \A r \in Reg, b \in Block :
       <<r, b>> \in F <=> <<r, b>> \in E \/ (r = by /\ <<top.phi, b>> \in E)
  /\ top.phi \notin PhiRegs =>
       /\ top.phi \in Removed
       /\ \A b \in Block : <<top.phi, b>> \in E => <<by, b>> \in E

LEMMA Replacing ==
  ASSUME StepOK, NEW E, NEW F, NextEntries(E, F), ReplacementsHold(E),
         TryTrivial
  PROVE  \E by \in Reg : ReplacedBy(E, F, by)
<1>1. PICK by \in Reg :
        /\ by \in NonSelfArgs(top.phi) /\ NonSelfArgs(top.phi) = {by}
        /\ phis' = {q \in phis : q[2] # top.phi}
        /\ phiArgs' = {Renamed(a, top.phi, by) : a \in phiArgs}
        /\ removals' = Append(removals, [phi |-> top.phi, by |-> by])
        /\ ReplaceInOps(top.phi, by)
  BY StepFacts, TryTrivialArgs
<1>2. by # top.phi /\ VarOf(by) = VarOf(top.phi)
  BY <1>1, InNonSelfArgs, StepFacts DEF SameVariable
<1>3. /\ top.phi \in Reg /\ top.phi \in PhiRegs \cup Removed
      /\ top.phi \in Removed => top.phi \notin DefinedRegs
  BY StepFacts, TriedIsPhi
<1>4. top.phi \notin WrittenRegs
  BY <1>3, StepFacts DEF SingleAssignment, DefinedRegs
<1>5. ~ReadUnsealed /\ ~ReadJoin /\ ~WriteBack
  BY StepFacts, TopFields
  DEF TryTrivial, ReadUnsealed, ReadJoin, WriteBack, Missing, Reading, Running
<1>6. \A r \in Reg, b \in Block :
        <<r, b>> \in F <=> <<r, b>> \in E \/ (r = by /\ <<top.phi, b>> \in E)
  BY <1>1, <1>5 DEF NextEntries, Gains
<1>7. ASSUME top.phi \notin PhiRegs
      PROVE  /\ top.phi \in Removed
             /\ \A b \in Block : <<top.phi, b>> \in E => <<by, b>> \in E
  <2>1. PICK x \in Range(removals) : x.phi = top.phi
    BY <1>3, <1>7 DEF Removed
  <2>2. NonSelfArgs(top.phi) \subseteq {x.by}
        /\ \A b \in Block : <<x.phi, b>> \in E => <<x.by, b>> \in E
    BY <2>1 DEF ReplacementsHold
  <2>3. x.by = by
    BY <1>1, <2>2
  <2> QED
    BY <1>3, <1>7, <2>1, <2>2, <2>3
<1> QED
  BY <1>1, <1>2, <1>3, <1>4, <1>6, <1>7 DEF ReplacedBy

(* It reaches wherever the phi did.                                        *)
LEMMA ReplacementReaches ==
  ASSUME StepOK, NEW E, NEW F, TryTrivial, NEW by \in Reg,
         ReplacedBy(E, F, by), NEW p, p = top.phi,
         NEW r \in Reg, NEW b \in Block, NEW i \in Nat \ {0},
         i <= Len(ops[b]) + 1, Reaches(E, r, b, i)
  PROVE  Reaches(F, Replace(r, p, by), b, i)'
<1>1. /\ VarOf(by) = VarOf(p) /\ p \in Reg /\ p \notin WrittenRegs
      /\ \A x \in Reg, d \in Block :
           <<x, d>> \in F <=> <<x, d>> \in E \/ (x = by /\ <<p, d>> \in E)
  BY DEF ReplacedBy
<1>3. PICK q : q = Replace(r, p, by)
  OBVIOUS
<1>4. Reaches(F, q, b, i)
  <2>1. CASE r = p
    <3>1. q = by
      BY <1>3, <2>1 DEF Replace
    <3>2. <<p, b>> \in E => <<by, b>> \in F
      BY <1>1
    <3> QED
      BY <1>1, <2>1, <3>1, <3>2, StepFacts, ReachesReplaced
  <2>2. CASE r # p
    <3>1. q = r
      BY <1>3, <2>2 DEF Replace
    <3> QED
      BY <1>1, <3>1, ReachesGrow DEF Reaches
  <2> QED
    BY <2>1, <2>2
<1>5. Reaches(F, q, b, i)'
  BY <1>4, StepFacts, ReachesNext
<1> QED
  BY <1>3, <1>5

LEMMA ReplacementLeaves ==
  ASSUME StepOK, NEW E, NEW F, TryTrivial, NEW by \in Reg,
         ReplacedBy(E, F, by), NEW p, p = top.phi, NEW r \in Reg, NEW b \in Block, Leaves(E, r, b)
  PROVE  Leaves(F, Replace(r, p, by), b)'
<1>1. PICK i : i = Len(ops[b]) + 1
  OBVIOUS
<1>2. i \in Nat \ {0} /\ i <= Len(ops[b]) + 1
  <2>1. Len(ops[b]) \in Nat
    BY StepFacts, PrefixKept
  <2> QED
    BY <1>1, <2>1
<1>3. i = Len(ops'[b]) + 1
  BY <1>1, StepFacts, ReplacedOps DEF ReplacedBy
<1>4. PICK q : q = Replace(r, p, by)
  OBVIOUS
<1>5. Reaches(F, Replace(r, p, by), b, i)'
  BY <1>1, <1>2, ReplacementReaches DEF Leaves
<1> QED
  BY <1>3, <1>5 DEF Leaves

-----------------------------------------------------------------------------
(* The entries                                                             *)

LEMMA NewIsNotIssued ==
  ASSUME TypeOK, NEW v \in Var
  PROVE  ~IsIssued(NewRegister(v), versions)
<1>1. versions[v] \in Nat
  BY DEF TypeOK
<1> QED
  BY <1>1 DEF IsIssued, NewRegister, VersionOf, VarOf

(* What is defined by a step did not exist before.                         *)
LEMMA DefinedNext ==
  ASSUME StepOK, NEW r \in DefinedRegs', IsIssued(r, versions)
  PROVE  r \in DefinedRegs
<1>1. CASE r \in PhiRegs'
  <2>1. PICK p \in phis' : p[2] = r
    BY <1>1, InPhiRegs
  <2>2. p[2] # NewRegister(top.var) \/ ~(ReadUnsealed \/ ReadJoin)
    <3>1. ReadUnsealed \/ ReadJoin => top.var \in Var
      BY StepFacts, TopFields DEF ReadUnsealed, ReadJoin, Missing, Reading
    <3> QED
      BY <2>1, <3>1, StepFacts, NewIsNotIssued
  <2>3. p \in phis
    BY <2>2, StepFacts, PhisNext
  <2> QED
    BY <2>1, <2>3, InPhiRegs DEF DefinedRegs
<1>2. CASE r \in ParamRegs'
  BY <1>2 DEF ParamRegs, DefinedRegs
<1>3. CASE r \in WrittenRegs'
  <2>1. PICK b \in Block : \E i \in DOMAIN ops'[b] :
          ops'[b][i].kind = "write" /\ ops'[b][i].reg = r
    BY <1>3, WrittenAt
  <2>2. PICK i \in DOMAIN ops'[b] :
          ops'[b][i].kind = "write" /\ ops'[b][i].reg = r
    BY <2>1
  <2>3. i \in DOMAIN ops[b] /\ ops[b][i].kind = "write" /\ ops[b][i].reg = r
    <3>1. CASE ops' = ops
      BY <2>2, <3>1
    <3>2. CASE TryTrivial /\ \E by \in Reg : ReplaceInOps(top.phi, by)
      <4>1. PICK by \in Reg : ReplaceInOps(top.phi, by)
        BY <3>2
      <4>2. DOMAIN ops'[b] = DOMAIN ops[b] /\ WritesKept(b, Len(ops[b]))
        BY <4>1, StepFacts, ReplacedOps
      <4>3. DOMAIN ops[b] = 1..Len(ops[b])
        BY StepFacts, PrefixKept
      <4> QED
        BY <2>2, <4>2, <4>3 DEF WritesKept, SameWrites
    <3>3. ASSUME NEW o \in Op, AddOp(o), o.kind = "write" => o.reg # r
          PROVE  i \in DOMAIN ops[b] /\ ops[b][i] = ops'[b][i]
      BY <2>2, <3>3, StepFacts, AddedOp
    <3>4. CASE AddsOther
      BY <2>2, <3>3, <3>4 DEF AddsOther
    <3>5. ASSUME NEW v \in Var, AddsWrite(v)
          PROVE  i \in DOMAIN ops[b] /\ ops[b][i] = ops'[b][i]
      <4>1. PICK o : o = [kind |-> "write", reg |-> NewRegister(v)]
        OBVIOUS
      <4>2. o \in Op /\ AddOp(o) /\ o.reg # r
        BY <3>5, <4>1, StepFacts, QueryTypes, NewIsNotIssued
        DEF Op, AddsWrite
      <4> QED
        BY <3>3, <4>2
    <3> QED
      BY <2>2, <3>1, <3>2, <3>4, <3>5, StepFacts, OpsNext
  <2> QED
    BY <2>3, WrittenAt DEF DefinedRegs
<1> QED
  BY <1>1, <1>2, <1>3 DEF DefinedRegs

(* A block whose predecessors are known keeps them.                        *)
Ready(b) == b \in sealed \/ IsSealing(b) \/ fault # "none"

LEMMA ReadyStays ==
  ASSUME StepOK, NEW b \in Block, Ready(b)
  PROVE  Ready(b)' /\ preds'[b] = preds[b]
<1>1. CASE b \in sealed \/ fault # "none"
  BY <1>1, StepFacts, EdgesNext, FaultsStay DEF Ready
<1>2. CASE IsSealing(b)
  <2>1. PICK f \in Frames : f.at = "sealing" /\ f.block = b
    BY <1>2 DEF IsSealing
  <2>2. calls # <<>>
    BY <2>1, StepFacts, FramesAreTyped
  <2>3. preds'[b] = preds[b]
    BY <2>2, StepFacts, EdgesNext
  <2>4. CASE f \in Frames'
    BY <2>1, <2>3, <2>4 DEF Ready, IsSealing
  <2>5. CASE Step /\ f = top
    <3>1. CompletePhi \/ SealComplete
      BY <2>1, <2>5, StepOf
    <3>2. CASE SealComplete
      BY <2>1, <2>3, <2>5, <3>2 DEF SealComplete, Ready
    <3>3. CASE CompletePhi
      <4>1. SealingFrame(top.block, Tail(top.todo)) \in Frames'
        BY <3>3, StepFacts, CompletePhiMoves
      <4>2. SealingFrame(top.block, Tail(top.todo)).block = b
        BY <2>1, <2>5 DEF SealingFrame
      <4> QED
        BY <2>3, <4>1, <4>2, FrameKinds DEF Ready, IsSealing
    <3> QED
      BY <3>1, <3>2, <3>3
  <2> QED
    BY <2>1, <2>4, <2>5, StepFacts, BelowKept
<1> QED
  BY <1>1, <1>2 DEF Ready

(* What a phi to be removed stands for: its operands are gathered.         *)
LEMMA TriedIsComplete ==
  ASSUME StepOK, TryTrivial, NEW b \in Block, <<b, top.phi>> \in phis
  PROVE  Through(top.phi) = Range(preds[b]) /\ Ready(b)
<1>1. ~IsWaiting(top.phi) /\ ~IsFilling(top.phi)
  BY StepFacts, TriedIsFree
<1>2. PICK p : p = <<b, top.phi>>
  OBVIOUS
<1>3. /\ PhiComplete(p)
      /\ p[1] \in sealed \/ \E f \in Frames : f.at = "sealing" /\ f.block = p[1]
  BY <1>1, <1>2, StepFacts DEF OthersComplete
<1> QED
  BY <1>2, <1>3 DEF PhiComplete, Ready, IsSealing

LEMMA InheritedNext ==
  ASSUME StepOK, NEW E, NEW F, Meaning(E), NextEntries(E, F)
  PROVE  Inherited(F)'
<1> SUFFICES ASSUME NEW r \in DefinedRegs', NEW b \in Block,
                    <<r, b>> \in F, <<b, r>> \notin phis'
             PROVE  /\ \A q \in Range(preds[b])' : Leaves(F, r, q)'
                    /\ b = Entry => r \in ParamRegs'
                    /\ Ready(b)'
  BY DEF Inherited, Ready
<1> DEFINE Held == /\ \A q \in Range(preds[b]) : Leaves(F, r, q)'
                   /\ b = Entry => r \in ParamRegs
                   /\ Ready(b)
<1>0. r \in Reg /\ E \subseteq Reg \X Block /\ F \subseteq Reg \X Block
  BY DEF NextEntries
<1>a. /\ Range(preds[b]) \subseteq Block
      /\ preds[b] \in Seq(Block)
  BY StepFacts, RangeType DEF TypeOK
<1>b. /\ EntriesOK(E) /\ ArgsLeave(E) /\ ReplacementsHold(E) /\ ResultHolds(E)
  BY DEF Meaning
<1>c. ASSUME NEW x, NEW q \in Range(preds[b]), Leaves(E, x, q)
      PROVE  Leaves(F, x, q)'
  <2>1. \A v \in Var : AddsWrite(v) => q # active
    BY StepFacts, AssignsAtTheEnd
  <2> QED
    BY <1>a, <1>c, <2>1, LeavesKeep
<1>1. Held => /\ \A q \in Range(preds[b])' : Leaves(F, r, q)'
              /\ b = Entry => r \in ParamRegs'
              /\ Ready(b)'
  <2>1. Ready(b) => Ready(b)' /\ Range(preds[b])' = Range(preds[b])
    BY ReadyStays DEF Range
  <2> QED
    BY <2>1 DEF ParamRegs
<1>2. CASE <<r, b>> \in E
  <2>1. IsIssued(r, versions)
    BY <1>2, <1>b DEF EntriesOK
  <2>2. r \in DefinedRegs
    BY <2>1, DefinedNext
  <2>3. <<b, r>> \notin phis
    <3>1. SUFFICES ASSUME <<b, r>> \in phis PROVE FALSE
      OBVIOUS
    <3>2. TryTrivial /\ r = top.phi
      BY <3>1, StepFacts, PhisNext
    <3>3. top.phi \in PhiRegs
      BY <3>1, <3>2, InPhiRegs
    <3> QED
      BY <3>2, <3>3, StepFacts, RemovedDefinition
  <2>4. /\ \A q \in Range(preds[b]) : Leaves(E, r, q)
        /\ b = Entry => r \in ParamRegs
        /\ Ready(b)
    BY <1>2, <1>b, <2>2, <2>3 DEF EntriesOK, Inherited, Ready
  <2> QED
    BY <1>1, <1>c, <2>4
<1>3. CASE <<r, b>> \notin E
  <2>1. Gains(E, r, b)
    BY <1>0, <1>3 DEF NextEntries
  <2>2. CASE ReadUnsealed \/ ReadJoin
    <3>1. ~WriteBack /\ ~TryTrivial
      BY <2>2, StepFacts, TopFields
      DEF TryTrivial, ReadUnsealed, ReadJoin, WriteBack, Missing, Reading,
          Running
    <3> QED
      BY <2>1, <2>2, <3>1, StepFacts, PhisNext DEF Gains
  <2>3. CASE WriteBack /\ ~(ReadUnsealed \/ ReadJoin) /\ ~TryTrivial
    <3>1. r = ret /\ b = top.block /\ calls # <<>> /\ top.at = "write"
      BY <2>1, <2>3, StepFacts, TopFields DEF Gains, WriteBack
    <3>2. /\ b \in sealed
          /\ \E q \in Block : preds[b] = <<q>> /\ Leaves(E, r, q)
      BY <1>3, <1>b, <3>1 DEF ResultHolds
    <3>3. PICK q \in Block : preds[b] = <<q>> /\ Leaves(E, r, q)
      BY <3>2
    <3>4. Range(preds[b]) = {q} /\ b # Entry
      <4>1. b # Entry
        BY <3>3, StepFacts DEF EntryOK
      <4> QED
        BY <3>3, <4>1 DEF Range
    <3> QED
      BY <1>1, <1>c, <3>2, <3>3, <3>4 DEF Ready
  <2>4. CASE TryTrivial /\ ~(ReadUnsealed \/ ReadJoin) /\ ~WriteBack
    <3>1. PICK by \in Reg : ReplacedBy(E, F, by)
      BY <1>b, <2>4, Replacing
    <3>2. PICK p : p = top.phi
      OBVIOUS
    <3>3. /\ r = by /\ <<p, b>> \in E /\ p \in PhiRegs /\ p \in Reg
          /\ NonSelfArgs(p) = {by} /\ by # p
      BY <1>0, <1>3, <3>1, <3>2 DEF ReplacedBy
    <3>4. ASSUME NEW x \in Reg, NEW q \in Range(preds[b]), x \in {p, by},
                 Leaves(E, x, q)
          PROVE  Leaves(F, r, q)'
      <4>1. q \in Block
        BY <1>a
      <4>2. PICK y : y = Replace(x, p, by)
        OBVIOUS
      <4>3. Leaves(F, y, q)'
        <5>1. Leaves(F, Replace(x, p, by), q)'
          BY <2>4, <3>1, <3>2, <3>4, <4>1, ReplacementLeaves
        <5> QED
          BY <4>2, <5>1
      <4>4. y = r
        BY <3>3, <3>4, <4>2 DEF Replace
      <4> QED
        BY <4>3, <4>4
    <3>5. CASE <<b, p>> \in phis
      <4>1. Through(p) = Range(preds[b]) /\ Ready(b)
        BY <2>4, <3>2, <3>5, TriedIsComplete
      <4>2. \A q \in Range(preds[b]) : Leaves(F, r, q)'
        <5>1. TAKE q \in Range(preds[b])
        <5>2. PICK a \in phiArgs : a.phi = p /\ a.through = q
          BY <4>1, InThrough
        <5>3. a.value \in {p, by} /\ a.value \in Reg
          <6>1. a \in PhiArg
            BY StepFacts DEF TypeOK
          <6> QED
            BY <3>3, <5>2, <6>1, InNonSelfArgs DEF PhiArg
        <5>4. Leaves(E, a.value, q)
          BY <1>b, <3>3, <5>2 DEF ArgsLeave
        <5> QED
          BY <3>4, <5>3, <5>4
      <4>3. b # Entry
        <5>1. PICK a \in phiArgs : a.phi = p
          BY <3>3, InNonSelfArgs
        <5>2. a.through \in Range(preds[b])
          BY <4>1, <5>1, InThrough
        <5> QED
          BY <5>2, StepFacts DEF EntryOK, Range
      <4> QED
        BY <1>1, <4>1, <4>2, <4>3
    <3>6. CASE <<b, p>> \notin phis
      <4>1. p \in DefinedRegs
        BY <3>3 DEF DefinedRegs
      <4>2. /\ \A q \in Range(preds[b]) : Leaves(E, p, q)
            /\ b = Entry => p \in ParamRegs
            /\ Ready(b)
        BY <1>b, <3>3, <3>6, <4>1 DEF EntriesOK, Inherited, Ready
      <4>3. b # Entry
        BY <3>3, <4>2, StepFacts DEF SingleAssignment
      <4> QED
        BY <1>1, <3>3, <3>4, <4>2, <4>3
    <3> QED
      BY <3>5, <3>6
  <2>5. ~(WriteBack /\ TryTrivial)
    BY DEF WriteBack, TryTrivial, Running
  <2> QED
    BY <2>1, <2>2, <2>3, <2>4, <2>5 DEF Gains
<1> QED
  BY <1>2, <1>3

LEMMA EntriesOKNext ==
  ASSUME StepOK, NEW E, NEW F, Meaning(E), NextEntries(E, F)
  PROVE  EntriesOK(F)'
<1>0. /\ F \subseteq Reg \X Block
      /\ \A r \in Reg, b \in Block :
           <<r, b>> \in F => <<r, b>> \in E \/ Gains(E, r, b)
      /\ E \subseteq F /\ EntriesOK(E)
  BY DEF NextEntries, Meaning
<1>1. ASSUME NEW r \in Reg, NEW b \in Block, <<r, b>> \in F
      PROVE  IsIssued(r, versions')
  <2>1. CASE <<r, b>> \in E
    <3>1. IsIssued(r, versions)
      BY <1>0, <2>1 DEF EntriesOK
    <3> QED
      BY <3>1, StepFacts, VersionsGrow
  <2>2. CASE (ReadUnsealed \/ ReadJoin) /\ r = NewRegister(top.var)
    <3>1. top.var \in Var
      BY <2>2, StepFacts, TopFields DEF ReadUnsealed, ReadJoin, Missing, Reading
    <3>2. BumpVersion(top.var)
      BY <2>2 DEF ReadUnsealed, ReadJoin, NewPhi
    <3> QED
      BY <2>2, <3>1, <3>2, StepFacts, NewIsIssued
  <2>3. CASE WriteBack /\ r = ret
    <3>1. ret # NoReg
      BY <2>3, ConstantsAssumption DEF Reg
    <3> QED
      BY <2>3, <3>1, StepFacts, VersionsGrow DEF Issued
  <2>4. CASE TryTrivial /\ r \in NonSelfArgs(top.phi)
    <3>1. PICK a \in phiArgs : a.value = r
      BY <2>4, InNonSelfArgs
    <3> QED
      BY <3>1, StepFacts, VersionsGrow DEF Issued
  <2> QED
    BY <1>0, <1>1, <2>1, <2>2, <2>3, <2>4 DEF Gains
<1>2. ASSUME NEW p \in phis' PROVE <<p[2], p[1]>> \in F
  <2>1. CASE p \in phis
    BY <1>0, <2>1 DEF EntriesOK
  <2>2. CASE (ReadUnsealed \/ ReadJoin) /\ p = <<top.block, NewRegister(top.var)>>
    <3>1. top.var \in Var /\ top.block \in Block
      BY <2>2, StepFacts, TopFields DEF ReadUnsealed, ReadJoin, Missing, Reading
    <3>2. NewRegister(top.var) \in Reg
      BY <3>1, StepFacts, QueryTypes
    <3> QED
      BY <2>2, <3>1, <3>2 DEF NextEntries, Gains
  <2> QED
    BY <2>1, <2>2, StepFacts, PhisNext
<1>3. \A e \in F : IsIssued(e[1], versions')
  BY <1>0, <1>1
<1>4. Inherited(F)'
  BY InheritedNext
<1> QED
  BY <1>2, <1>3, <1>4 DEF EntriesOK, IsIssued

-----------------------------------------------------------------------------
(* What the builder knows                                                  *)

LEMMA ArgsLeaveNext ==
  ASSUME StepOK, NEW E, NEW F, Meaning(E), NextEntries(E, F)
  PROVE  ArgsLeave(F)'
<1> SUFFICES ASSUME NEW a \in phiArgs', a.phi \in PhiRegs'
             PROVE  Leaves(F, a.value, a.through)'
  BY DEF ArgsLeave
<1>0. ArgsLeave(E) /\ ResultHolds(E) /\ ReplacementsHold(E)
  BY DEF Meaning
<1>1. CASE TryTrivial
  <2>1. PICK by \in Reg : ReplacedBy(E, F, by)
    BY <1>0, <1>1, Replacing
  <2>2. PICK p : p = top.phi
    OBVIOUS
  <2>3. PICK c \in phiArgs : a = Renamed(c, p, by)
    BY <2>1, <2>2 DEF ReplacedBy
  <2>4. c \in PhiArg
    BY StepFacts DEF TypeOK
  <2>5. a.phi = c.phi /\ a.through = c.through
    BY <2>3, <2>4, RenamedFields
  <2>6. c.phi \in PhiRegs \ {p}
    BY <1>1, <2>2, <2>5, StepFacts, RemovedDefinition
  <2>7. a.value = Replace(c.value, p, by)
    BY <2>3, <2>4, <2>6, RenamedFields
  <2>8. Leaves(E, c.value, c.through)
    BY <1>0, <2>6 DEF ArgsLeave
  <2>9. PICK r, b : r = c.value /\ b = c.through
    OBVIOUS
  <2>10. r \in Reg /\ b \in Block
    BY <2>4, <2>9 DEF PhiArg
  <2>11. Leaves(F, Replace(r, p, by), b)'
    BY <1>1, <2>1, <2>2, <2>8, <2>9, <2>10, ReplacementLeaves
  <2> QED
    BY <2>5, <2>7, <2>9, <2>11
<1>2. CASE ~TryTrivial
  <2>1. PICK r, b : r = a.value /\ b = a.through
    OBVIOUS
  <2>2. r \in Reg /\ b \in Block
    <3>1. a \in PhiArg
      BY StepFacts DEF TypeOK
    <3> QED
      BY <2>1, <3>1 DEF PhiArg
  <2>3. CASE a \in phiArgs
    <3>1. PICK p \in phis' : p[2] = a.phi
      BY InPhiRegs
    <3>2. p \in phis
      <4>1. CASE (ReadUnsealed \/ ReadJoin) /\ p = <<top.block, NewRegister(top.var)>>
        <5>1. top.var \in Var
          BY <4>1, StepFacts, TopFields
          DEF ReadUnsealed, ReadJoin, Missing, Reading
        <5>2. a.phi # NewRegister(top.var)
          BY <2>3, <5>1, StepFacts, NewPhiIsFresh
        <5> QED
          BY <3>1, <4>1, <5>2
      <4> QED
        BY <4>1, StepFacts, PhisNext
    <3>3. Leaves(E, r, b)
      BY <1>0, <2>1, <2>3, <3>1, <3>2, InPhiRegs DEF ArgsLeave
    <3>4. ASSUME NEW v \in Var, AddsWrite(v) PROVE b # active
      <4>1. ~IsWaiting(p[2])
        BY <2>3, <3>1, StepFacts DEF WaitingOK
      <4>2. ~IsFilling(p[2])
        <5>1. Frames = {}
          BY <3>4 DEF AddsWrite, Assign, Open, Idle, Frames, Range
        <5> QED
          BY <5>1 DEF IsFilling
      <4>3. b \in Range(preds[p[1]])
        BY <2>1, <2>3, <3>1, <3>2, <4>1, <4>2, StepFacts, InThrough
        DEF OthersComplete, PhiComplete
      <4>4. p[1] \in Block
        BY <3>2, StepFacts DEF TypeOK
      <4> QED
        BY <3>4, <4>3, <4>4, StepFacts, AssignsAtTheEnd
    <3> QED
      BY <2>1, <2>2, <3>3, <3>4, LeavesKeep
  <2>4. CASE a \notin phiArgs
    <3>1. AppendOperand
      BY <1>2, <2>4, StepFacts, Changes
    <3>2. r = ret /\ b = Head(top.todo)
      BY <2>1, <2>4, <3>1 DEF AppendOperand
    <3>3. calls # <<>> /\ top.at = "operand"
      BY <3>1, StepFacts, TopFields DEF AppendOperand
    <3>4. Leaves(E, r, b)
      BY <1>0, <3>2, <3>3 DEF ResultHolds
    <3>5. \A v \in Var : ~AddsWrite(v)
      BY <3>3 DEF AddsWrite, Assign, Open, Idle
    <3> QED
      BY <2>1, <2>2, <3>4, <3>5, LeavesKeep
  <2> QED
    BY <2>3, <2>4
<1> QED
  BY <1>1, <1>2

LEMMA CacheLeavesNext ==
  ASSUME StepOK, NEW E, NEW F, Meaning(E), NextEntries(E, F)
  PROVE  CacheLeaves(F)'
<1> SUFFICES ASSUME NEW v \in Var, NEW b \in Block
             PROVE  IF currentDef'[<<v, b>>] = NoReg
                    THEN NoWrite(v, b)'
                    ELSE Leaves(F, currentDef[<<v, b>>], b)'
  BY DEF CacheLeaves
<1>0. CacheLeaves(E) /\ ReplacementsHold(E)
  BY DEF Meaning
<1>a. PICK d : d = <<v, b>>
  OBVIOUS
<1>b. /\ d \in Var \X Block
      /\ currentDef \in [Var \X Block -> Reg \cup {NoReg}]
      /\ currentDef' \in [Var \X Block -> Reg \cup {NoReg}]
      /\ NoReg \notin Reg
  BY <1>a, StepFacts, ConstantsAssumption DEF TypeOK, Reg
<1>c. PICK r : r = currentDef[d]
  OBVIOUS
<1>d. /\ r = NoReg => NoWrite(v, b)
      /\ r # NoReg => Leaves(E, r, b) /\ r \in Reg /\ VarOf(r) = v
  BY <1>0, <1>a, <1>b, <1>c, StepFacts DEF CacheLeaves, SameVariable
<1>e. PICK t : t = currentDef'[d]
  OBVIOUS
<1>f. SUFFICES /\ t = NoReg => NoWrite(v, b)'
               /\ t # NoReg => Leaves(F, t, b)'
  BY <1>a, <1>e
<1>1. ASSUME t = r, \A w \in Var : AddsWrite(w) => b # active \/ v # w
      PROVE  /\ t = NoReg => NoWrite(v, b)'
             /\ t # NoReg => Leaves(F, t, b)'
  <2>1. CASE r = NoReg
    BY <1>1, <1>d, <2>1, StepFacts, NoWriteNext
  <2>2. CASE r # NoReg
    BY <1>1, <1>d, <2>2, LeavesKeep
  <2> QED
    BY <1>1, <2>1, <2>2
(* A definition that was missing is an entry of the block.                 *)
<1>2. ASSUME NEW x \in Reg, t = x, VarOf(x) = v, NoWrite(v, b), <<x, b>> \in F,
             UNCHANGED ops
      PROVE  /\ t = NoReg => NoWrite(v, b)'
             /\ t # NoReg => Leaves(F, t, b)'
  <2>1. PICK n \in Nat : n = Len(ops[b]) /\ DOMAIN ops[b] = 1..n
    BY StepFacts, PrefixKept
  <2>2. \A j \in 1..n : ~Assigns(ops[b][j], v)
    BY <1>2, <2>1 DEF NoWrite
  <2>3. ReachesIn(ops[b], F, x, b, n + 1)
    BY <1>2, <2>2 DEF ReachesIn
  <2>4. Leaves(F, x, b)'
    BY <1>2, <2>1, <2>3 DEF Leaves, Reaches
  <2> QED
    BY <1>2, <1>b, <2>4
<1>3. ASSUME NEW w \in Var, Assign(w)
      PROVE  /\ t = NoReg => NoWrite(v, b)'
             /\ t # NoReg => Leaves(F, t, b)'
  <2>1. AddsWrite(w) /\ active \in Block
    BY <1>3, StepFacts, QueryTypes DEF Assign, AddsWrite
  <2>2. CASE w = v /\ b = active
    <3>1. t = NewRegister(w)
      BY <1>3, <1>a, <1>b, <1>e, <2>2 DEF Assign, WriteVariable
    <3>2. Leaves(F, t, active)' /\ active' = active
      BY <2>1, <3>1, StepFacts, WrittenLeaves
    <3>3. t # NoReg
      BY <1>b, <3>1, StepFacts, QueryTypes
    <3>4. PICK c : c = active
      OBVIOUS
    <3>5. Leaves(F, t, c)'
      BY <3>2, <3>4
    <3> QED
      BY <2>2, <3>3, <3>4, <3>5
  <2>3. CASE ~(w = v /\ b = active)
    <3>1. t = r
      BY <1>3, <1>a, <1>b, <1>c, <1>e, <2>1, <2>3 DEF Assign, WriteVariable
    <3>2. ASSUME NEW x \in Var, AddsWrite(x) PROVE b # active \/ v # x
      <4>1. BumpVersion(x) /\ BumpVersion(w) /\ versions \in [Var -> Nat]
        BY <1>3, <3>2, StepFacts DEF AddsWrite, Assign, TypeOK
      <4>2. x = w
        BY <4>1 DEF BumpVersion
      <4> QED
        BY <2>3, <4>2
    <3> QED
      BY <1>1, <3>1, <3>2
  <2> QED
    BY <2>2, <2>3
<1>4. CASE ReadUnsealed \/ ReadJoin
  <2>1. /\ calls # <<>> /\ top.var \in Var /\ top.block \in Block
        /\ UNCHANGED ops
        /\ WriteVariable(top.var, top.block, NewRegister(top.var))
        /\ currentDef[<<top.var, top.block>>] = NoReg
    BY <1>4, StepFacts, TopFields
    DEF ReadUnsealed, ReadJoin, Missing, Found, Reading, cfgVars
  <2>2. CASE v = top.var /\ b = top.block
    <3>1. t = NewRegister(v) /\ t \in Reg /\ VarOf(t) = v
      BY <1>a, <1>b, <1>e, <2>1, <2>2, StepFacts, QueryTypes
      DEF WriteVariable, NewRegister, VarOf
    <3>2. <<t, b>> \in F
      BY <1>4, <2>2, <3>1 DEF NextEntries, Gains
    <3>3. NoWrite(v, b)
      BY <1>a, <1>c, <1>d, <2>1, <2>2
    <3> QED
      BY <1>2, <2>1, <3>1, <3>2, <3>3
  <2>3. CASE ~(v = top.var /\ b = top.block)
    <3>1. t = r
      BY <1>a, <1>b, <1>c, <1>e, <2>1, <2>3 DEF WriteVariable
    <3> QED
      BY <1>1, <2>1, <3>1 DEF AddsWrite, Assign, Open, Idle
  <2> QED
    BY <2>2, <2>3
<1>5. CASE WriteBack
  <2>1. /\ calls # <<>> /\ top.var \in Var /\ top.block \in Block
        /\ top.at = "write" /\ top \in Frames
        /\ UNCHANGED ops /\ WriteVariable(top.var, top.block, ret)
        /\ ret \in Reg /\ VarOf(ret) = top.var
    <3>1. /\ calls # <<>> /\ top.var \in Var /\ top.block \in Block
          /\ top.at = "write" /\ calls \in Seq(Frame)
      BY <1>5, StepFacts, TopFields DEF WriteBack
    <3>2. ret \in Reg
      BY <1>5, StepFacts, GivenResult DEF WriteBack, Consumers
    <3>3. VarOf(ret) = top.var
      BY <1>5, <3>1, StepFacts, TopIsAbout DEF WriteBack, IsAbout
    <3> QED
      BY <1>5, <3>1, <3>2, <3>3, ShapeFacts, StepFacts DEF WriteBack, cfgVars
  <2>2. CASE v = top.var /\ b = top.block
    <3>1. t = ret
      BY <1>a, <1>b, <1>e, <2>1, <2>2 DEF WriteVariable
    <3>2. <<t, b>> \in F
      BY <1>5, <2>1, <2>2, <3>1 DEF NextEntries, Gains
    <3>3. NoWrite(v, b)
      BY <2>1, <2>2, StepFacts DEF WritersAreMissing
    <3> QED
      BY <1>2, <2>1, <2>2, <3>1, <3>2, <3>3
  <2>3. CASE ~(v = top.var /\ b = top.block)
    <3>1. t = r
      BY <1>a, <1>b, <1>c, <1>e, <2>1, <2>3 DEF WriteVariable
    <3> QED
      BY <1>1, <2>1, <3>1 DEF AddsWrite, Assign, Open, Idle
  <2> QED
    BY <2>2, <2>3
<1>6. CASE FixupDefinitions
  <2>1. /\ calls # <<>> /\ removals # <<>> /\ UNCHANGED ops
        /\ currentDef' = ReplaceDefinitions(VarOf(top.phi),
                           Head(removals).phi, Head(removals).by)
    <3>1. calls' = calls /\ calls # <<>>
      BY <1>6, StepFacts, TopFields DEF NoFixupFault, FixupDefinitions
    <3> QED
      BY <1>6, <3>1 DEF FixupDefinitions, Raise, cfgVars
  <2>2. \A w \in Var : ~AddsWrite(w)
    BY <2>1 DEF AddsWrite, Assign, Open, Idle
  <2>3. PICK x : x = Head(removals)
    OBVIOUS
  <2>4. /\ x \in Range(removals) /\ x.phi \in Removed
        /\ x.phi \in Reg /\ x.by \in Reg
    BY <2>1, <2>3, StepFacts, InRemoved DEF Range
  <2>5. t = r \/ (t = x.by /\ r = x.phi /\ VarOf(top.phi) = v)
    BY <1>a, <1>b, <1>c, <1>e, <2>1, <2>3 DEF ReplaceDefinitions, Replace
  <2>6. CASE t = x.by /\ r = x.phi
    <3>1. /\ Removing /\ x.phi \notin WrittenRegs
      <4>1. Removing
        BY <2>1, StepFacts DEF FirstIsCompleted
      <4> QED
        BY <2>4, <4>1, StepFacts DEF Live, DefinedRegs
    <3>2. VarOf(x.by) = VarOf(x.phi)
      <4>1. Running("fixup") /\ "fixup" \in Marks
        BY <1>6 DEF FixupDefinitions, Marks
      <4>2. PICK w \in Var : IsAbout(w)
        BY <4>1, StepFacts, TopIsAbout
      <4> QED
        BY <2>4, <3>1, <4>2 DEF IsAbout
    <3>3. <<x.phi, b>> \in E => <<x.by, b>> \in E
      BY <1>0, <2>4 DEF ReplacementsHold
    <3>4. Leaves(E, x.phi, b)
      BY <1>b, <1>d, <2>4, <2>6
    <3>5. Len(ops[b]) + 1 \in Nat
      BY StepFacts, PrefixKept
    <3>6. Leaves(E, x.by, b)
      <4>1. PICK q, y, i : q = x.phi /\ y = x.by /\ i = Len(ops[b]) + 1
        OBVIOUS
      <4>2. i \in Nat /\ i <= Len(ops[b]) + 1 /\ Reaches(E, q, b, i)
        BY <3>4, <3>5, <4>1 DEF Leaves
      <4>3. Reaches(E, y, b, i)
        BY <3>1, <3>2, <3>3, <4>1, <4>2, StepFacts, ReachesReplaced
      <4> QED
        BY <4>1, <4>3 DEF Leaves
    <3> QED
      BY <1>b, <2>2, <2>4, <2>6, <3>6, LeavesKeep
  <2> QED
    BY <1>1, <2>2, <2>5, <2>6
<1>7. CASE /\ ~ReadUnsealed /\ ~ReadJoin /\ ~WriteBack /\ ~FixupDefinitions
           /\ ~\E w \in Var : Assign(w)
  <2>1. t = r
    BY <1>7, <1>c, <1>e, StepFacts, Changes
  <2> QED
    BY <1>1, <1>7, <2>1 DEF AddsWrite
<1> QED
  BY <1>3, <1>4, <1>5, <1>6, <1>7

LEMMA ReadsReachNext ==
  ASSUME StepOK, NEW E, NEW F, Meaning(E), NextEntries(E, F)
  PROVE  ReadsReach(F)'
<1> SUFFICES ASSUME NEW b \in Block, NEW i \in DOMAIN ops'[b],
                    ops'[b][i].kind = "read"
             PROVE  Reaches(F, ops[b][i].reg, b, i)'
  BY DEF ReadsReach
<1>0. /\ ReadsReach(E) /\ ResultHolds(E) /\ ReplacementsHold(E)
      /\ E \subseteq F
  BY DEF Meaning, NextEntries
<1>a. /\ Len(ops[b]) \in Nat /\ Len(ops'[b]) \in Nat
      /\ DOMAIN ops[b] = 1..Len(ops[b]) /\ DOMAIN ops'[b] = 1..Len(ops'[b])
      /\ i \in Nat \ {0}
  <2>1. /\ Len(ops[b]) \in Nat /\ Len(ops'[b]) \in Nat
        /\ DOMAIN ops[b] = 1..Len(ops[b]) /\ DOMAIN ops'[b] = 1..Len(ops'[b])
    BY StepFacts, PrefixKept
  <2> QED
    BY <2>1
<1>1. ASSUME NEW r, Reaches(E, r, b, i), i <= Len(ops[b]) + 1,
             r = ops'[b][i].reg
      PROVE  Reaches(F, ops[b][i].reg, b, i)'
  <2>1. Reaches(E, r, b, i)'
    BY <1>1, <1>a, StepFacts, ReachesNext
  <2>2. Reaches(F, r, b, i)'
    BY <1>0, <2>1, ReachesGrow DEF Reaches
  <2> QED
    BY <1>1, <2>2
(* The ops that were there.                                                *)
<1>2. ASSUME i \in DOMAIN ops[b], ops'[b][i] = ops[b][i]
      PROVE  Reaches(F, ops[b][i].reg, b, i)'
  <2>1. PICK r : r = ops[b][i].reg
    OBVIOUS
  <2>2. Reaches(E, r, b, i)
    BY <1>0, <1>2, <2>1 DEF ReadsReach
  <2>3. i <= Len(ops[b]) + 1
    BY <1>2, <1>a
  <2> QED
    BY <1>1, <1>2, <2>1, <2>2, <2>3
(* The op that is added.                                                   *)
<1>3. ASSUME NEW o \in Op, AddOp(o),
             o.kind = "read" => Leaves(E, o.reg, active)
      PROVE  Reaches(F, ops[b][i].reg, b, i)'
  <2>1. CASE b # active
    BY <1>2, <1>3, <2>1, StepFacts, OpAppended
  <2>2. CASE b = active /\ i <= Len(ops[b])
    <3>1. i \in 1..Len(ops[b])
      BY <1>a, <2>2
    <3> QED
      BY <1>2, <1>3, <1>a, <2>2, <3>1, StepFacts, OpAppended
  <2>3. CASE b = active /\ ~(i <= Len(ops[b]))
    <3>1. i = Len(ops[b]) + 1 /\ ops'[b][i] = o
      <4>1. /\ Len(ops'[b]) = Len(ops[b]) + 1
            /\ ops'[b][Len(ops[b]) + 1] = o
        BY <1>3, <2>3, StepFacts, OpAppended
      <4>2. i = Len(ops[b]) + 1
        BY <1>a, <2>3, <4>1
      <4> QED
        BY <4>1, <4>2
    <3>2. PICK r : r = o.reg
      OBVIOUS
    <3>3. Leaves(E, r, b)
      BY <1>3, <2>3, <3>1, <3>2
    <3>4. Reaches(E, r, b, i)
      BY <3>1, <3>3 DEF Leaves
    <3> QED
      BY <1>1, <1>a, <3>1, <3>2, <3>4
  <2> QED
    BY <2>1, <2>2, <2>3
<1>4. CASE ops' = ops
  BY <1>2, <1>4
<1>5. CASE AddUse
  <2>1. Running("use") /\ calls # <<>> /\ top.at = "use" /\ ret \in Reg
    BY <1>5, StepFacts, TopFields, GivenResult DEF AddUse, Consumers
  <2>2. PICK o : o = [kind |-> "read", reg |-> ret]
    OBVIOUS
  <2>3. o \in Op /\ AddOp(o) /\ o.reg = ret
    BY <1>5, <2>1, <2>2 DEF AddUse, Op
  <2>4. Leaves(E, ret, active)
    BY <1>0, <2>1 DEF ResultHolds
  <2>5. Leaves(E, o.reg, active)
    <3>1. PICK r : r = o.reg
      OBVIOUS
    <3>2. Leaves(E, r, active)
      BY <2>3, <2>4, <3>1
    <3> QED
      BY <3>1, <3>2
  <2> QED
    BY <1>3, <2>3, <2>5
<1>6. ASSUME NEW v \in Var, Assign(v)
      PROVE  Reaches(F, ops[b][i].reg, b, i)'
  <2>1. PICK o : o = [kind |-> "write", reg |-> NewRegister(v)]
    OBVIOUS
  <2>2. o \in Op /\ AddOp(o) /\ o.kind # "read"
    BY <1>6, <2>1, StepFacts, QueryTypes DEF Assign, Op
  <2> QED
    BY <1>3, <2>2
<1>7. ASSUME NEW r \in DefinedRegs, UseHeld(r)
      PROVE  Reaches(F, ops[b][i].reg, b, i)'
  <2>1. r \in Reg
    BY StepFacts, UsedRegs
  <2>2. PICK o : o = [kind |-> "held", reg |-> r]
    OBVIOUS
  <2>3. o \in Op /\ AddOp(o) /\ o.kind # "read"
    BY <1>7, <2>1, <2>2 DEF UseHeld, Op
  <2> QED
    BY <1>3, <2>3
<1>8. CASE TryTrivial
  <2>1. PICK by \in Reg : ReplacedBy(E, F, by)
    BY <1>0, <1>8, Replacing
  <2>2. PICK p : p = top.phi
    OBVIOUS
  <2>3. /\ DOMAIN ops'[b] = DOMAIN ops[b]
        /\ \A j \in DOMAIN ops[b] : ops'[b][j].kind = ops[b][j].kind
        /\ \A j \in DOMAIN ops[b] : ops[b][j].kind = "read" =>
             ops'[b][j].reg = Replace(ops[b][j].reg, p, by)
    BY <2>1, <2>2, StepFacts, ReplacedOps DEF ReplacedBy
  <2>4. PICK r : r = ops[b][i].reg
    OBVIOUS
  <2>5. /\ i \in DOMAIN ops[b] /\ ops[b][i].kind = "read"
        /\ ops'[b][i].reg = Replace(r, p, by)
    BY <2>3, <2>4
  <2>6. Reaches(E, r, b, i) /\ i <= Len(ops[b]) + 1
    BY <1>0, <1>a, <2>4, <2>5 DEF ReadsReach
  <2>7. r \in Reg
    <3>1. ops[b][i] \in Op
      BY <2>5, StepFacts DEF TypeOK
    <3> QED
      BY <2>4, <3>1 DEF Op
  <2>8. Reaches(F, Replace(r, p, by), b, i)'
    BY <1>8, <1>a, <2>1, <2>2, <2>6, <2>7, ReplacementReaches
  <2> QED
    BY <2>5, <2>8
<1> QED
  BY <1>4, <1>5, <1>6, <1>7, <1>8, StepFacts, Changes

LEMMA ReplacementsHoldNext ==
  ASSUME StepOK, NEW E, NEW F, Meaning(E), NextEntries(E, F)
  PROVE  ReplacementsHold(F)'
<1>0. /\ ReplacementsHold(E) /\ E \subseteq F
      /\ \A r \in Reg, b \in Block :
           <<r, b>> \in F <=> <<r, b>> \in E \/ Gains(E, r, b)
      /\ removals \in Seq(Removal)
  BY StepFacts DEF Meaning, NextEntries, TypeOK
<1>a. \A x \in Range(removals) :
        x \in Removal /\ x.phi \in Reg /\ x.by \in Reg /\ x.phi \in Removed
  BY StepFacts, RemovalTypes DEF Removed
<1>1. CASE OperandsComplete
  <2>1. Range(removals') = {}
    BY <1>1 DEF OperandsComplete, Range
  <2>2. Range(removals)' = {}
    BY <2>1 DEF Range
  <2> QED
    BY <2>2 DEF ReplacementsHold
<1>2. CASE TryTrivial
  <2>1. PICK by \in Reg : ReplacedBy(E, F, by)
    BY <1>0, <1>2, Replacing
  <2>2. PICK p : p = top.phi
    OBVIOUS
  <2>3. /\ p \in Reg /\ by # p /\ NonSelfArgs(p) = {by}
        /\ phiArgs' = {Renamed(a, p, by) : a \in phiArgs}
        /\ removals' = Append(removals, [phi |-> p, by |-> by])
        /\ \A r \in Reg, b \in Block :
             <<r, b>> \in F <=> <<r, b>> \in E \/ (r = by /\ <<p, b>> \in E)
        /\ p \notin PhiRegs =>
             \A b \in Block : <<p, b>> \in E => <<by, b>> \in E
    BY <2>1, <2>2 DEF ReplacedBy
  <2>4. /\ Removed \cap DefinedRegs = {}
        /\ p \in PhiRegs => by \in DefinedRegs
    BY <1>2, <2>2, <2>3, StepFacts, TriedIsPhi, ReplacementIsDefined DEF Live
  (* The arguments of a phi that is not in its block stay.                 *)
  <2>5. ASSUME NEW q, q \notin PhiRegs \/ q = p, NEW y \in NonSelfArgs(q)'
        PROVE  y \in NonSelfArgs(q)
    <3>1. y # q /\ \E a \in phiArgs' : a.phi = q /\ a.value = y
      BY <2>5, InNonSelfArgsNext
    <3>2. PICK c \in phiArgs : /\ Renamed(c, p, by).phi = q
                               /\ Renamed(c, p, by).value = y
      BY <2>3, <3>1
    <3>3. c \in PhiArg
      BY StepFacts DEF TypeOK
    <3>4. c.phi = q /\ c.value = y
      <4>1. c.phi = q
        BY <3>2, <3>3, RenamedFields
      <4>2. c.phi \notin PhiRegs \ {p}
        BY <2>5, <4>1
      <4> QED
        BY <2>2, <3>2, <3>3, <4>1, <4>2, RenamedFields
    <3> QED
      BY <3>1, <3>4, InNonSelfArgs
  <2>6. ASSUME NEW x \in Range(removals)
        PROVE  /\ NonSelfArgs(x.phi)' \subseteq {x.by}
               /\ \A b \in Block : <<x.phi, b>> \in F => <<x.by, b>> \in F
    <3>1. /\ x.phi \in Reg /\ x.by \in Reg
          /\ x.phi \notin DefinedRegs /\ x.phi \notin PhiRegs
      BY <1>a, <2>4 DEF DefinedRegs
    <3>2. /\ NonSelfArgs(x.phi) \subseteq {x.by}
          /\ \A b \in Block : <<x.phi, b>> \in E => <<x.by, b>> \in E
      BY <1>0 DEF ReplacementsHold
    <3>3. ASSUME NEW b \in Block, <<x.phi, b>> \in F
          PROVE  <<x.by, b>> \in F
      BY <1>0, <2>3, <2>4, <3>1, <3>2, <3>3
    <3>4. PICK q : q = x.phi
      OBVIOUS
    <3>5. NonSelfArgs(q)' \subseteq {x.by}
      BY <2>5, <3>1, <3>2, <3>4
    <3> QED
      BY <3>3, <3>4, <3>5
  <2>7. ASSUME NEW x, x = [phi |-> p, by |-> by]
        PROVE  /\ NonSelfArgs(x.phi)' \subseteq {x.by}
               /\ \A b \in Block : <<x.phi, b>> \in F => <<x.by, b>> \in F
    <3>1. x.phi = p /\ x.by = by
      BY <2>7
    <3>2. NonSelfArgs(p)' \subseteq {by}
      BY <2>3, <2>5
    <3> QED
      BY <2>3, <3>1, <3>2
  <2>8. Range(removals)' \subseteq Range(removals) \cup {[phi |-> p, by |-> by]}
    <3>1. PICK z : z = [phi |-> p, by |-> by]
      OBVIOUS
    <3>2. z \in Removal
      BY <2>3, <3>1 DEF Removal
    <3>3. Range(Append(removals, z)) = Range(removals) \cup {z}
      BY <1>0, <3>2, AppendRange
    <3> QED
      BY <2>3, <3>1, <3>3 DEF Range
  <2> QED
    BY <2>6, <2>7, <2>8 DEF ReplacementsHold
<1>3. ASSUME ~OperandsComplete, ~TryTrivial, removals # <<>>
      PROVE  ReplacementsHold(F)'
  <2>1. Removing /\ calls # <<>> /\ top = calls[1] /\ top.at \in Removes
    BY <1>3, StepFacts, Positions DEF FirstIsCompleted, Removing, TypeOK
  <2>2. ~AppendOperand /\ ~ReadUnsealed /\ ~ReadJoin /\ ~WriteBack
    BY <2>1 DEF AppendOperand, ReadUnsealed, ReadJoin, Missing, Reading,
                WriteBack, Running, Removes, Tries
  <2>3. phiArgs' = phiArgs
    BY <1>3, <2>2, StepFacts, Changes
  <2>4. \A r \in Reg, b \in Block : <<r, b>> \in F <=> <<r, b>> \in E
    BY <1>0, <1>3, <2>2 DEF Gains
  <2>5. Range(removals)' \subseteq Range(removals)
    <3>1. CASE FixupDefinitions
      <4>1. removals' = Tail(removals)
        <5>1. calls' = calls
          BY <3>1, StepFacts DEF NoFixupFault
        <5> QED
          BY <2>1, <3>1, <5>1 DEF FixupDefinitions, Raise
      <4>2. Range(Tail(removals)) \subseteq Range(removals)
        BY <1>0, <1>3, TailRange
      <4> QED
        BY <4>1, <4>2 DEF Range
    <3>2. CASE ~FixupDefinitions
      BY <1>3, <3>2, StepFacts, Changes DEF Range
    <3> QED
      BY <3>1, <3>2
  <2>6. ASSUME NEW x \in Range(removals)
        PROVE  /\ NonSelfArgs(x.phi)' \subseteq {x.by}
               /\ \A b \in Block : <<x.phi, b>> \in F => <<x.by, b>> \in F
    <3>1. /\ NonSelfArgs(x.phi) \subseteq {x.by}
          /\ \A b \in Block : <<x.phi, b>> \in E => <<x.by, b>> \in E
      BY <1>0 DEF ReplacementsHold
    <3>2. NonSelfArgs(x.phi)' = NonSelfArgs(x.phi)
      BY <2>3 DEF NonSelfArgs
    <3> QED
      BY <1>a, <2>4, <3>1, <3>2
  <2> QED
    BY <2>5, <2>6 DEF ReplacementsHold
<1>4. ASSUME ~OperandsComplete, ~TryTrivial, removals = <<>>
      PROVE  ReplacementsHold(F)'
  <2>1. ~FixupDefinitions
    BY <1>4 DEF FixupDefinitions
  <2>2. removals' = <<>>
    BY <1>4, <2>1, StepFacts, Changes
  <2>3. Range(removals)' = {}
    BY <2>2 DEF Range
  <2> QED
    BY <2>3 DEF ReplacementsHold
<1> QED
  BY <1>1, <1>2, <1>3, <1>4

LEMMA PhisOfReadsNext ==
  ASSUME StepOK, NEW E, NEW F, Meaning(E), NextEntries(E, F)
  PROVE  PhisOfReads(F)'
<1> SUFFICES ASSUME NEW i \in 1..(Len(calls') - 1), calls'[i].at \in Marks,
                    calls'[i + 1].at = "write"
             PROVE  <<calls'[i].phi, calls'[i + 1].block>> \in F
  BY DEF PhisOfReads
<1>0. PhisOfReads(E) /\ E \subseteq F /\ calls \in Seq(Frame)
  BY StepFacts DEF Meaning, NextEntries, TypeOK
<1>1. PICK f, g : f = calls'[i] /\ g = calls'[i + 1]
  OBVIOUS
<1>2. f.at \in Marks /\ g.at = "write"
  BY <1>1
<1>3. CASE OldPair(f, g)
  <2>1. PICK k \in 1..(Len(calls) - 1) : f = calls[k] /\ g = calls[k + 1]
    BY <1>3 DEF OldPair
  <2> QED
    BY <1>0, <1>1, <1>2, <2>1 DEF PhisOfReads
<1>4. CASE 1 \in 1..(Len(calls) - 1) /\ g = calls[2] /\ OnSecond(f)
  <2>1. calls # <<>> /\ top = calls[1]
    BY <1>0, <1>4, Positions
  <2>2. top.at \in Marks /\ f.phi = top.phi
    BY <1>2, <1>4 DEF OnSecond
  <2> QED
    BY <1>0, <1>1, <1>2, <1>4, <2>1, <2>2 DEF PhisOfReads
<1>5. CASE NewPair(f, g)
  <2>1. /\ ReadJoin
        /\ f = OperandsFrame(NewRegister(top.var), top.block, preds[top.block])
        /\ g = WriteFrame(top.var, top.block)
    BY <1>2, <1>5, FrameKinds DEF NewPair, Marks, Gathers
  <2>2. /\ top.var \in Var /\ top.block \in Block
        /\ NewRegister(top.var) \in Reg
    BY <2>1, StepFacts, TopFields, QueryTypes DEF ReadJoin, Missing, Reading
  <2>3. f.phi = NewRegister(top.var) /\ g.block = top.block
    BY <2>1 DEF OperandsFrame, WriteFrame
  <2>4. <<f.phi, g.block>> \in F
    BY <2>1, <2>2, <2>3 DEF NextEntries, Gains
  <2> QED
    BY <1>1, <2>4
<1> QED
  BY <1>1, <1>3, <1>4, <1>5, StepFacts, PairsNext

-----------------------------------------------------------------------------
(* The results of the calls                                                *)

(* Which steps leave a frame on top that uses a result.                    *)
LEMMA ConsumersNext ==
  ASSUME StepOK, calls' # <<>>, (top').at \in Consumers
  PROVE  \/ UNCHANGED vars
         \/ /\ calls' = Tail(calls)
            /\ \/ ReadLocal \/ ReadUnsealed \/ WriteBack \/ FixupComplete
               \/ CollectResult /\ removals = <<>>
         \/ CollectResult /\ removals # <<>>
         \/ FixupDefinitions /\ calls' = calls
<1>0. InductiveSSA /\ Shape /\ [Next]_vars /\ NoFixupFault
  BY StepFacts
<1>1. CASE Client
  <2>1. (top').at \in {"read", "seal", "finalise"}
    BY <1>0, <1>1, ClientMoves, FrameKinds
  <2> QED
    BY <2>1 DEF Consumers
<1>2. CASE Step
  <2>1. ~ReadSinglePredecessor
    BY <1>0, ReadSinglePredecessorMoves, FrameKinds DEF Consumers
  <2>2. ~ReadJoin
    BY <1>0, ReadJoinMoves, FrameKinds DEF Consumers
  <2>3. ~ReadOperand
    BY <1>0, ReadOperandMoves, FrameKinds DEF Consumers
  <2>4. ~AppendOperand
    BY <1>0, AppendOperandMoves, FrameKinds DEF Consumers
  <2>5. ~OperandsComplete
    BY <1>0, OperandsCompleteMoves, FrameKinds DEF Consumers
  <2>6. ~TryTrivial
    BY <1>0, TryTrivialMoves, FrameKinds DEF Consumers
  <2>7. ~CompletePhi
    BY <1>0, CompletePhiMoves, FrameKinds DEF Consumers
  <2>8. ~FinaliseSeal
    BY <1>0, FinaliseSealMoves, FrameKinds DEF Consumers
  <2>9. ~FinaliseComplete
    BY <1>0, FinaliseCompleteMoves
  <2>10. ~StartSeal
    BY <1>0, StartSealMoves, FrameKinds DEF Consumers
  <2>11. ASSUME NEW k, Running(k), calls' = Tail(calls)
         PROVE  k \notin Tries \cup {"seal", "sealing", "use"}
    BY <1>0, <2>11, ReturnsTo DEF Consumers, Tries
  <2>12. ~TryUndefined /\ ~TryNotTrivial
    BY <1>0, <2>11, ReturnMoves DEF TryUndefined, TryNotTrivial, Tries
  <2>13. ~TryUsers
    <3>1. TryUsers => calls' = Tail(calls)
      <4>1. ASSUME TryUsers, calls' # Tail(calls)
            PROVE  (top').at = "try"
        BY <1>0, <4>1, TryUsersMoves, FrameKinds
      <4> QED
        BY <4>1 DEF Consumers
    <3> QED
      BY <2>11, <3>1 DEF TryUsers, Tries
  <2>14. ~SealComplete /\ ~AddUse
    BY <1>0, <2>11, ReturnMoves DEF SealComplete, AddUse
  <2>15. FixupDefinitions => calls' = calls
    BY <1>0 DEF NoFixupFault
  <2>16. CollectResult /\ removals = <<>> => calls' = Tail(calls)
    BY <1>0, CollectResultMoves
  <2> QED
    BY <1>0, <1>2, <2>1, <2>2, <2>3, <2>4, <2>5, <2>6, <2>7, <2>8, <2>9, <2>10,
       <2>12, <2>13, <2>14, <2>15, <2>16, ReturnMoves DEF Step
<1> QED
  BY <1>0, <1>1, <1>2 DEF Next

(* What a read returns is the definition that is now current in the block. *)
LEMMA ReadResult ==
  ASSUME StepOK, ReadLocal \/ ReadUnsealed \/ WriteBack
  PROVE  /\ top.var \in Var /\ top.block \in Block
         /\ calls # <<>> /\ top.at \in {"read", "write"} /\ Running(top.at)
         /\ currentDef'[<<top.var, top.block>>] = ret'
         /\ ret' \in Reg
<1>0. /\ InductiveSSA /\ Shape /\ TypeOK
      /\ currentDef \in [Var \X Block -> Reg \cup {NoReg}]
  BY StepFacts DEF TypeOK
<1>1. CASE ReadLocal \/ ReadUnsealed
  <2>1. /\ Running("read") /\ calls # <<>> /\ top.at = "read"
        /\ top.var \in Var /\ top.block \in Block
    BY <1>0, <1>1, TopFields DEF ReadLocal, ReadUnsealed, Missing, Reading
  <2>2. PICK d \in Var \X Block : d = <<top.var, top.block>>
    BY <2>1
  <2>3. CASE ReadLocal
    <3>1. ret' = currentDef[d] /\ currentDef' = currentDef /\ ret' # NoReg
      BY <2>2, <2>3 DEF ReadLocal, Found, Return, ssaVars
    <3> QED
      BY <1>0, <2>1, <2>2, <3>1
  <2>4. CASE ReadUnsealed
    <3>1. /\ ret' = NewRegister(top.var)
          /\ currentDef' = [currentDef EXCEPT ![d] = NewRegister(top.var)]
      BY <2>2, <2>4 DEF ReadUnsealed, Return, WriteVariable
    <3>2. NewRegister(top.var) \in Reg
      BY <1>0, <2>1, QueryTypes
    <3> QED
      BY <1>0, <2>1, <2>2, <3>1, <3>2
  <2> QED
    BY <1>1, <2>3, <2>4
<1>2. CASE WriteBack
  <2>1. /\ Running("write") /\ calls # <<>> /\ top.at = "write"
        /\ top.var \in Var /\ top.block \in Block
    BY <1>0, <1>2, TopFields DEF WriteBack
  <2>2. PICK d \in Var \X Block : d = <<top.var, top.block>>
    BY <2>1
  <2>3. ret \in Reg
    BY <1>0, <2>1, GivenResult DEF Consumers
  <2>4. ret' = ret /\ currentDef' = [currentDef EXCEPT ![d] = ret]
    BY <1>2, <2>2 DEF WriteBack, Return, WriteVariable
  <2> QED
    BY <1>0, <2>1, <2>2, <2>3, <2>4
<1> QED
  BY <1>1, <1>2

LEMMA ResultHoldsNext ==
  ASSUME StepOK, NEW E, NEW F, Meaning(E), NextEntries(E, F), CacheLeaves(F)'
  PROVE  ResultHolds(F)'
<1> SUFFICES ASSUME calls' # <<>>
             PROVE  /\ (top').at = "write" =>
                         \/ <<ret', (top').block>> \in F
                         \/ /\ (top').block \in sealed'
                            /\ \E q \in Block : /\ preds'[(top').block] = <<q>>
                                                /\ Leaves(F, ret, q)'
                    /\ (top').at = "operand" => Leaves(F, ret, Head(top.todo))'
                    /\ (top').at = "use" => Leaves(F, ret, active)'
                    /\ (top').at = "fixup" /\ Len(calls') > 1 =>
                         (calls'[2].at = "write" => <<ret', calls'[2].block>> \in F)
  BY DEF ResultHolds
<1>0. /\ InductiveSSA /\ Shape /\ [Next]_vars /\ E \subseteq F
      /\ calls \in Seq(Frame) /\ calls' \in Seq(Frame)
      /\ ResultHolds(E) /\ PhisOfReads(E) /\ ReplacementsHold(E)
      /\ active \in Block
  BY StepFacts, QueryTypes DEF Meaning, NextEntries, TypeOK
<1>a. CASE (top').at \notin Consumers
  BY <1>a DEF Consumers
<1>1. CASE UNCHANGED vars
  <2>1. /\ calls' = calls /\ top' = top /\ ret' = ret /\ sealed' = sealed
        /\ preds' = preds /\ active' = active /\ blocks' = blocks
    BY <1>1 DEF vars, callVars, cfgVars, ssaVars, top, active
  <2>2. ASSUME NEW b \in Block, NEW r, Leaves(E, r, b)
        PROVE  Leaves(F, r, b)'
    <3>1. \A v \in Var : ~AddsWrite(v)
      BY <2>1 DEF AddsWrite, Assign, Open, Idle
    <3> QED
      BY <2>2, <3>1, LeavesKeep
  <2>3. PICK r : r = ret
    OBVIOUS
  <2>4. ASSUME NEW b \in Block, Leaves(E, ret, b)
        PROVE  Leaves(F, ret, b)'
    <3>1. Leaves(E, r, b)
      BY <2>3, <2>4
    <3>2. Leaves(F, r, b)'
      BY <2>2, <3>1
    <3> QED
      BY <2>1, <2>3, <3>2
  <2>5. CASE top.at = "write"
    BY <1>0, <2>1, <2>4, <2>5 DEF ResultHolds
  <2>6. CASE top.at = "operand"
    <3>1. PICK b : b = Head(top.todo)
      OBVIOUS
    <3>2. b \in Block
      <4>1. top \in Frame
        BY <1>0, <2>1 DEF top
      <4>2. top.todo \in Seq(Block) /\ top.todo # <<>>
        BY <2>6, <4>1, FrameFields
      <4> QED
        BY <3>1, <4>2
    <3>3. Leaves(F, ret, b)'
      BY <1>0, <2>1, <2>4, <2>6, <3>1, <3>2 DEF ResultHolds
    <3> QED
      BY <2>1, <2>6, <3>1, <3>3
  <2>7. CASE top.at = "use"
    <3>1. PICK b : b = active
      OBVIOUS
    <3>2. Leaves(F, ret, b)'
      BY <1>0, <2>1, <2>4, <2>7, <3>1 DEF ResultHolds
    <3> QED
      BY <2>1, <2>7, <3>1, <3>2
  <2>8. CASE top.at = "fixup"
    BY <1>0, <2>1, <2>8 DEF ResultHolds
  <2> QED
    BY <1>a, <2>1, <2>5, <2>6, <2>7, <2>8 DEF Consumers
(* The frame that is returned to is the one below.                         *)
<1>2. ASSUME calls # <<>>, calls' = Tail(calls)
      PROVE  /\ top' = calls[2] /\ top' \in Frame /\ Len(calls) > 1
             /\ 1 \in 1..(Len(calls) - 1) /\ calls[1] = top
  BY <1>0, <1>2 DEF top
<1>3. CASE /\ calls' = Tail(calls)
           /\ ReadLocal \/ ReadUnsealed \/ WriteBack
  <2>1. /\ top.var \in Var /\ top.block \in Block
        /\ calls # <<>> /\ top.at \in {"read", "write"} /\ Running(top.at)
        /\ currentDef'[<<top.var, top.block>>] = ret'
        /\ ret' \in Reg
    BY <1>3, ReadResult
  <2>2. PICK v \in Var, b \in Block : v = top.var /\ b = top.block
    BY <2>1
  <2>3. Leaves(F, ret, b)'
    <3>1. currentDef'[<<v, b>>] = ret' /\ ret' # NoReg
      BY <2>1, <2>2, ConstantsAssumption DEF Reg
    <3>2. Leaves(F, currentDef[<<v, b>>], b)'
      BY <3>1 DEF CacheLeaves
    <3> QED
      BY <3>1, <3>2
  <2>4. ReadsFrom(calls[2], b)
    BY <1>2, <1>3, <2>1, <2>2, StepFacts DEF CallsLinked
  <2>5. (top').at \in {"write", "operand", "use"}
    BY <1>0, <1>3, <2>1, ReturnsTo
  <2>6. CASE (top').at = "write"
    <3>1. PICK c : c = (top').block
      OBVIOUS
    <3>2. c \in Block /\ c \in sealed /\ preds[c] = <<b>>
      BY <1>2, <1>3, <2>1, <2>4, <2>6, <3>1, FrameFields DEF ReadsFrom
    <3>3. c \in sealed' /\ preds'[c] = <<b>>
      BY <1>0, <3>2, EdgesNext
    <3> QED
      BY <2>3, <2>6, <3>1, <3>3
  <2>7. CASE (top').at = "operand"
    <3>1. b = Head((top').todo)
      BY <1>2, <1>3, <2>1, <2>4, <2>7 DEF ReadsFrom
    <3>2. Leaves(F, ret, Head(top.todo))'
      BY <2>3, <3>1
    <3> QED
      BY <2>7, <3>2
  <2>8. CASE (top').at = "use"
    <3>1. b = active
      BY <1>2, <1>3, <2>1, <2>4, <2>8 DEF ReadsFrom
    <3>2. active' = active
      <4>1. blocks' = blocks
        BY <1>0, <2>1, Changes DEF Activate, ActivateOpen, ActivateThen, Idle
      <4> QED
        BY <4>1 DEF active
    <3>3. Leaves(F, ret, active)'
      BY <2>3, <3>1, <3>2
    <3> QED
      BY <2>8, <3>3
  <2> QED
    BY <2>5, <2>6, <2>7, <2>8
<1>4. CASE /\ calls' = Tail(calls)
           /\ FixupComplete \/ (CollectResult /\ removals = <<>>)
  <2>1. /\ calls # <<>> /\ Running(top.at)
        /\ FixupComplete => top.at = "fixup" /\ ret' = ret
        /\ CollectResult => top.at = "result" /\ ret' = top.phi
    BY <1>0, <1>4, TopFields DEF FixupComplete, CollectResult, Return, Running
  <2>2. (top').at \in {"write", "sealing"}
    BY <1>0, <1>4, <2>1, ReturnsTo
  <2>3. ASSUME (top').at = "write"
        PROVE  <<ret', (top').block>> \in F
    <3>1. calls[2].at = "write" /\ top' = calls[2]
      BY <1>2, <1>4, <2>1, <2>3
    <3>2. CASE FixupComplete
      BY <1>0, <1>2, <1>4, <2>1, <3>1, <3>2 DEF ResultHolds
    <3>3. CASE CollectResult
      BY <1>0, <1>2, <1>4, <2>1, <3>1, <3>3 DEF PhisOfReads, Marks
    <3> QED
      BY <1>4, <3>2, <3>3
  <2> QED
    BY <2>2, <2>3
<1>5. CASE CollectResult /\ removals # <<>>
  <2>1. /\ calls # <<>> /\ top.at = "result" /\ ret' = removals[1].by
        /\ top = calls[1] /\ top \in Frames
    BY <1>0, <1>5, TopFields, ShapeFacts DEF CollectResult
  <2>2. (top').at = "fixup"
    BY <1>0, <1>5, CollectResultMoves, FrameKinds
  <2>3. ASSUME Len(calls') > 1, calls'[2].at = "write"
        PROVE  <<ret', calls'[2].block>> \in F
    <3>1. Len(calls') = Len(calls) /\ calls'[2] = calls[2] /\ Len(calls) \in Nat
          /\ 1 \in 1..(Len(calls) - 1)
      <4>1. PICK f \in Frame : Become(<<f>>)
        BY <1>0, <1>5, CollectResultMoves
      <4> QED
        BY <1>0, <2>1, <2>3, <4>1, PositionsOne, Positions
    <3>2. removals[1].phi = top.phi
      BY <1>5, <2>1, StepFacts DEF FirstIsCompleted
    <3>3. <<top.phi, calls[2].block>> \in E
      BY <1>0, <2>1, <2>3, <3>1 DEF PhisOfReads, Marks
    <3>4. calls[2].block \in Block
      <4>1. calls[2] \in Frame
        BY <1>0, <3>1
      <4> QED
        BY <2>3, <3>1, <4>1, FrameFields
    <3>5. removals[1] \in Range(removals)
      BY <1>5, StepFacts, InRemoved DEF Range
    <3> QED
      BY <1>0, <2>1, <3>1, <3>2, <3>3, <3>4, <3>5 DEF ReplacementsHold
  <2> QED
    BY <2>2, <2>3
<1>6. CASE FixupDefinitions /\ calls' = calls
  <2>1. /\ top.at = "fixup" /\ top' = top /\ removals # <<>>
        /\ ret' = Replace(ret, Head(removals).phi, Head(removals).by)
    BY <1>0, <1>6, TopFields DEF FixupDefinitions, Raise, top
  <2>2. ASSUME Len(calls') > 1, calls'[2].at = "write"
        PROVE  <<ret', calls'[2].block>> \in F
    <3>1. <<ret, calls[2].block>> \in E
      BY <1>0, <1>6, <2>1, <2>2 DEF ResultHolds
    <3>2. calls[2].block \in Block
      <4>1. calls[2] \in Frame
        BY <1>0, <1>6, <2>2
      <4> QED
        BY <1>6, <2>2, <4>1, FrameFields
    <3>3. Head(removals) \in Range(removals)
      BY <2>1, StepFacts, InRemoved DEF Range
    <3> QED
      BY <1>0, <1>6, <2>1, <3>1, <3>2, <3>3 DEF ReplacementsHold, Replace
  <2> QED
    BY <2>1, <2>2
<1> QED
  BY <1>a, <1>1, <1>3, <1>4, <1>5, <1>6, ConsumersNext

-----------------------------------------------------------------------------
(* The construction                                                        *)

LEMMA MeaningNext ==
  ASSUME StepOK, NEW E, NEW F, Meaning(E), NextEntries(E, F)
  PROVE  Meaning(F)'
<1>1. EntriesOK(F)' /\ ArgsLeave(F)' /\ ReadsReach(F)'
  BY EntriesOKNext, ArgsLeaveNext, ReadsReachNext
<1>2. CacheLeaves(F)' /\ ReplacementsHold(F)' /\ PhisOfReads(F)'
  BY CacheLeavesNext, ReplacementsHoldNext, PhisOfReadsNext
<1>3. ResultHolds(F)'
  BY <1>2, ResultHoldsNext
<1> QED
  BY <1>1, <1>2, <1>3 DEF Meaning

LEMMA HasMeaningNext ==
  ASSUME StepOK, HasMeaning
  PROVE  Graph' /\ Stack' /\ HasMeaning'
<1>1. PICK E \in SUBSET (Reg \X Block) : Meaning(E)
  BY DEF HasMeaning
<1>2. PICK F \in SUBSET (Reg \X Block) : NextEntries(E, F)
  BY EntriesExist
<1>3. HasMeaning'
  BY <1>1, <1>2, MeaningNext DEF HasMeaning
<1>4. Graph'
  BY StepFacts, GraphNext DEF StepOK
<1>5. CacheLeaves(E)
  BY <1>1 DEF Meaning
<1>6. CallsLinked' /\ WritersAreMissing' /\ FirstIsCompleted'
  BY <1>5, StepFacts, CallsLinkedNext, WritersAreMissingNext,
     FirstIsCompletedNext
<1> QED
  BY <1>3, <1>4, <1>6 DEF Stack

(* At first the parameters hold their values on entry.                     *)
LEMMA InitMeaning ==
  ASSUME Init
  PROVE  Graph /\ Stack /\ HasMeaning
<1>0. /\ Entry \in Block /\ Param \subseteq Var /\ NoReg \notin Reg
      /\ \A v \in Param : <<v, 0>> \in Reg /\ <<v, 0>> \in ParamRegs
                          /\ VarOf(<<v, 0>>) = v
  BY ConstantsAssumption DEF Reg, ParamRegs, VarOf
<1>1. /\ preds = [b \in Block |-> <<>>] /\ terminated = {}
      /\ ops = [b \in Block |-> <<>>] /\ sealed = {Entry}
      /\ currentDef = [d \in Var \X Block |->
           IF d[1] \in Param /\ d[2] = Entry THEN <<d[1], 0>> ELSE NoReg]
      /\ versions = [v \in Var |-> IF v \in Param THEN 1 ELSE 0]
      /\ phis = {} /\ phiArgs = {} /\ calls = <<>> /\ removals = <<>>
  BY DEF Init
<1>2. /\ Frames = {} /\ Range(removals) = {}
      /\ \A b \in Block : Range(preds[b]) = {}
  BY <1>1 DEF Frames, Range
<1>3. Graph
  <2>1. \A v \in Param : currentDef[<<v, Entry>>] # NoReg
    <3>1. ASSUME NEW v \in Param PROVE currentDef[<<v, Entry>>] # NoReg
      <4>1. PICK d \in Var \X Block : d = <<v, Entry>>
        BY <1>0
      <4>2. currentDef[d] = <<v, 0>>
        BY <1>1, <4>1
      <4> QED
        BY <1>0, <4>1, <4>2
    <3> QED
      BY <3>1
  <2> QED
    BY <1>0, <1>1, <1>2, <2>1 DEF Graph, EntryOK, PredecessorsTerminated
<1>4. Stack
  BY <1>1, <1>2
  DEF Stack, CallsLinked, WritersAreMissing, FirstIsCompleted
<1>5. PICK E \in SUBSET (Reg \X Block) :
        E = {e \in Reg \X Block : e[1] \in ParamRegs /\ e[2] = Entry}
  OBVIOUS
<1>6. EntriesOK(E)
  <2>1. \A e \in E : IsIssued(e[1], versions)
    <3>1. ASSUME NEW e \in E PROVE IsIssued(e[1], versions)
      <4>1. PICK v \in Param : e[1] = <<v, 0>>
        BY <1>5 DEF ParamRegs
      <4> QED
        BY <1>0, <1>1, <4>1 DEF IsIssued, VersionOf, VarOf
    <3> QED
      BY <3>1
  <2>2. Inherited(E)
    BY <1>1, <1>2, <1>5 DEF Inherited
  <2> QED
    BY <1>1, <2>1, <2>2 DEF EntriesOK
<1>7. CacheLeaves(E)
  <2>1. SUFFICES ASSUME NEW v \in Var, NEW b \in Block
                 PROVE  IF currentDef[<<v, b>>] = NoReg
                        THEN NoWrite(v, b)
                        ELSE Leaves(E, currentDef[<<v, b>>], b)
    BY DEF CacheLeaves
  <2>2. PICK d \in Var \X Block : d = <<v, b>>
    OBVIOUS
  <2>3. CASE v \in Param /\ b = Entry
    <3>1. PICK r : r = <<v, 0>>
      OBVIOUS
    <3>2. currentDef[d] = r /\ r # NoReg /\ <<r, b>> \in E
      BY <1>0, <1>1, <1>5, <2>2, <2>3, <3>1
    <3>3. ops[b] = <<>>
      BY <1>1
    <3>4. Leaves(E, r, b)
      BY <3>2, <3>3 DEF Leaves, Reaches, ReachesIn
    <3> QED
      BY <2>2, <3>2, <3>4
  <2>4. CASE ~(v \in Param /\ b = Entry)
    <3>1. currentDef[d] = NoReg
      BY <1>1, <2>2, <2>4
    <3>2. NoWrite(v, b)
      BY <1>1 DEF NoWrite
    <3> QED
      BY <2>2, <3>1, <3>2
  <2> QED
    BY <2>3, <2>4
<1>8. /\ ArgsLeave(E) /\ ReadsReach(E) /\ ReplacementsHold(E)
      /\ PhisOfReads(E) /\ ResultHolds(E)
  BY <1>1, <1>2
  DEF ArgsLeave, ReadsReach, ReplacementsHold, PhisOfReads, ResultHolds
<1>9. HasMeaning
  BY <1>6, <1>7, <1>8 DEF HasMeaning, Meaning
<1> QED
  BY <1>3, <1>4, <1>9

-----------------------------------------------------------------------------
(* The machine                                                             *)

(* What holds of a finished subroutine stays.                              *)
LEMMA MeaningStays ==
  ASSUME StepOK, UNCHANGED vars, finalised,
         NEW E \in SUBSET (Reg \X Block), Meaning(E)
  PROVE  Meaning(E)'
<1>1. calls = <<>>
  BY StepFacts DEF Shape
<1>2. NextEntries(E, E)
  BY <1>1 DEF NextEntries, Gains, ReadUnsealed, ReadJoin, Missing, Reading,
              WriteBack, TryTrivial, Running
<1> QED
  BY <1>2, MeaningNext

LEMMA MachineFollows ==
  ASSUME StepOK, UNCHANGED vars, finalised, MachineOK,
         at' \in [block : Block, op : Nat \ {0}],
         at'.op <= Len(ops[at'.block]) + 1,
         current' \subseteq Reg,
         \A E \in SUBSET (Reg \X Block) :
           Meaning(E) /\ (\A r \in DefinedRegs : Reaches(E, r, at.block, at.op)
                            => r \in current \/ VarOf(r) \in unassigned)
             => \A r \in DefinedRegs : Reaches(E, r, at'.block, at'.op)
                  => r \in current' \/ VarOf(r) \in unassigned'
  PROVE  MachineOK'
<1>1. /\ ops' = ops /\ phis' = phis /\ finalised' = finalised
      /\ DefinedRegs' = DefinedRegs
  BY DEF vars, cfgVars, ssaVars, DefinedRegs, PhiRegs, ParamRegs, WrittenRegs
<1>2. PICK E \in SUBSET (Reg \X Block) :
        /\ Meaning(E)
        /\ \A r \in DefinedRegs : Reaches(E, r, at.block, at.op)
             => r \in current \/ VarOf(r) \in unassigned
  BY DEF MachineOK
<1>3. \A r \in DefinedRegs : Reaches(E, r, at'.block, at'.op)
        => r \in current' \/ VarOf(r) \in unassigned'
  BY <1>2
<1>4. Meaning(E)'
  BY <1>2, MeaningStays
<1>5. \A r \in DefinedRegs' : Reaches(E, r, at.block, at.op)'
        => r \in current' \/ VarOf(r) \in unassigned'
  BY <1>1, <1>3 DEF Reaches
<1>6. at'.op <= Len(ops'[at'.block]) + 1
  BY <1>1
<1> QED
  BY <1>1, <1>4, <1>5, <1>6 DEF MachineOK

(* While the builder works, the machine waits; when it has finished, what  *)
(* the program begins with is what the entry block is entered with.        *)
LEMMA MachineWaits ==
  ASSUME StepOK, HasMeaning, MachineOK, UNCHANGED machine
  PROVE  MachineOK'
<1>0. /\ InductiveSSA /\ Shape /\ [Next]_vars
      /\ at' = at /\ current' = current /\ written' = written
      /\ unassigned' = unassigned
  BY StepFacts DEF machine
<1>1. CASE finalised
  <2>1. UNCHANGED vars
    <3>1. calls = <<>>
      BY <1>0, <1>1 DEF Shape
    <3>2. ~Step /\ ~Client
      BY <1>0, <1>1, <3>1, RunningStep, ClientMoves
    <3> QED
      BY <1>0, <3>2 DEF Next
  <2> QED
    BY <1>0, <1>1, <2>1, MachineFollows DEF MachineOK
<1>2. CASE ~finalised
  <2>1. MachineInit /\ Entry \in Block
    BY <1>2, ConstantsAssumption DEF MachineOK
  <2>2. /\ at = [block |-> Entry, op |-> 1] /\ at.block = Entry /\ at.op = 1
        /\ current = ParamRegs /\ unassigned = Var \ Param
    BY <2>1 DEF MachineInit
  <2>3. MachineInit'
    BY <1>0, <2>1 DEF MachineInit, ParamRegs
  <2>4. /\ at' \in [block : Block, op : Nat \ {0}]
        /\ at'.op <= Len(ops'[at'.block]) + 1
        /\ current' \subseteq Reg
    <3>1. Len(ops'[Entry]) \in Nat
      BY <2>1, StepFacts, PrefixKept
    <3> QED
      BY <1>0, <2>2, <3>1 DEF MachineOK
  <2>5. CASE ~finalised'
    BY <2>3, <2>4, <2>5 DEF MachineOK
  <2>6. CASE finalised'
    <3>1. PICK E \in SUBSET (Reg \X Block) : Meaning(E)'
      BY HasMeaningNext DEF HasMeaning
    <3>2. EntryOK' /\ TypeOK'
      BY StepFacts, HasMeaningNext DEF Graph
    <3>3. ASSUME NEW r \in DefinedRegs', <<r, Entry>> \in E
          PROVE  r \in current' \/ VarOf(r) \in unassigned'
      <4>1. CASE <<Entry, r>> \in phis'
        <5>1. PICK p \in phis' : p = <<Entry, r>>
          BY <4>1
        <5>2. p[1] = Entry /\ p[2] = r
          BY <5>1
        <5>3. VarOf(r) \notin Param
          BY <3>2, <5>2 DEF EntryOK
        <5>4. VarOf(r) \in Var
          BY <3>3 DEF VarOf, Reg
        <5> QED
          BY <1>0, <2>2, <5>3, <5>4
      <4>2. CASE <<Entry, r>> \notin phis'
        <5>1. Inherited(E)'
          BY <3>1 DEF Meaning, EntriesOK
        <5>2. r \in ParamRegs'
          BY <2>1, <3>3, <4>2, <5>1 DEF Inherited
        <5> QED
          BY <1>0, <2>2, <5>2 DEF ParamRegs
      <4> QED
        BY <4>1, <4>2
    <3>4. ASSUME NEW r \in DefinedRegs', Reaches(E, r, at.block, at.op)'
          PROVE  r \in current' \/ VarOf(r) \in unassigned'
      <4>1. ReachesIn(ops'[Entry], E, r, Entry, 1)
        BY <1>0, <2>2, <3>4 DEF Reaches
      <4>2. <<r, Entry>> \in E
        BY <4>1 DEF ReachesIn
      <4> QED
        BY <3>3, <4>2
    <3> QED
      BY <2>4, <2>6, <3>1, <3>4 DEF MachineOK
  <2> QED
    BY <2>5, <2>6
<1> QED
  BY <1>1, <1>2

LEMMA ExecWriteOK ==
  ASSUME StepOK, MachineOK, ExecWrite
  PROVE  MachineOK'
<1>1. PICK b \in Block, n \in Nat \ {0} :
        /\ at.block = b /\ at.op = n
        /\ at' = [block |-> b, op |-> n + 1]
        /\ at'.block = b /\ at'.op = n + 1
  <2>1. at \in [block : Block, op : Nat \ {0}]
    BY DEF MachineOK
  <2>2. at' = [at EXCEPT !.op = @ + 1]
    BY DEF ExecWrite
  <2>3. at' = [block |-> at.block, op |-> at.op + 1]
    BY <2>1, <2>2
  <2> QED
    BY <2>1, <2>3
<1>2. PICK r : r = ops[b][n].reg
  OBVIOUS
<1>3. /\ finalised /\ UNCHANGED vars /\ n \in DOMAIN ops[b]
      /\ ops[b][n].kind = "write"
      /\ current' = {q \in current : VarOf(q) # VarOf(r)} \cup {r}
      /\ unassigned' = unassigned \ {VarOf(r)}
  BY <1>1, <1>2 DEF ExecWrite, AtUse, AtOp, NextOp
<1>4. ops[b] \in Seq(Op) /\ r \in Reg
  <2>1. ops[b] \in Seq(Op)
    BY StepFacts DEF TypeOK
  <2>2. ops[b][n] \in Op
    BY <1>3, <2>1
  <2> QED
    BY <1>2, <2>1, <2>2 DEF Op
<1>5. /\ at' \in [block : Block, op : Nat \ {0}]
      /\ at'.op <= Len(ops[at'.block]) + 1
      /\ current' \subseteq Reg
  BY <1>1, <1>3, <1>4 DEF MachineOK
<1>6. ASSUME NEW E \in SUBSET (Reg \X Block),
             \A q \in DefinedRegs : Reaches(E, q, at.block, at.op)
               => q \in current \/ VarOf(q) \in unassigned,
             NEW q \in DefinedRegs, Reaches(E, q, at'.block, at'.op)
      PROVE  q \in current' \/ VarOf(q) \in unassigned'
  <2>1. ReachesIn(ops[b], E, q, b, n + 1)
    BY <1>1, <1>6 DEF Reaches
  <2>2. CASE VarOf(r) = VarOf(q)
    <3>1. Assigns(ops[b][n], VarOf(q))
      BY <1>2, <1>3, <2>2 DEF Assigns
    <3>2. q = r
      BY <1>2, <2>1, <3>1, ReachesFrom
    <3> QED
      BY <1>3, <3>2
  <2>3. CASE VarOf(r) # VarOf(q)
    <3>1. ~Assigns(ops[b][n], VarOf(q))
      BY <1>2, <2>3 DEF Assigns
    <3>2. ReachesIn(ops[b], E, q, b, n)
      BY <2>1, <3>1, ReachesOver
    <3>3. q \in current \/ VarOf(q) \in unassigned
      BY <1>1, <1>6, <3>2 DEF Reaches
    <3> QED
      BY <1>3, <2>3, <3>3
  <2> QED
    BY <2>2, <2>3
<1> QED
  BY <1>3, <1>5, <1>6, MachineFollows

LEMMA ExecUseOK ==
  ASSUME StepOK, MachineOK, ExecUse
  PROVE  MachineOK'
<1>1. PICK b \in Block, n \in Nat \ {0} :
        /\ at.block = b /\ at.op = n
        /\ at' = [block |-> b, op |-> n + 1]
        /\ at'.block = b /\ at'.op = n + 1
  <2>1. at \in [block : Block, op : Nat \ {0}]
    BY DEF MachineOK
  <2>2. at' = [at EXCEPT !.op = @ + 1]
    BY DEF ExecUse
  <2>3. at' = [block |-> at.block, op |-> at.op + 1]
    BY <2>1, <2>2
  <2> QED
    BY <2>1, <2>3
<1>2. /\ finalised /\ UNCHANGED vars /\ n \in DOMAIN ops[b]
      /\ ops[b][n].kind # "write"
      /\ current' = current /\ unassigned' = unassigned
  BY <1>1 DEF ExecUse, AtUse, AtOp, NextOp
<1>3. ops[b] \in Seq(Op)
  BY StepFacts DEF TypeOK
<1>4. /\ at' \in [block : Block, op : Nat \ {0}]
      /\ at'.op <= Len(ops[at'.block]) + 1
      /\ current' \subseteq Reg
  BY <1>1, <1>2, <1>3 DEF MachineOK
<1>5. ASSUME NEW E \in SUBSET (Reg \X Block),
             \A q \in DefinedRegs : Reaches(E, q, at.block, at.op)
               => q \in current \/ VarOf(q) \in unassigned,
             NEW q \in DefinedRegs, Reaches(E, q, at'.block, at'.op)
      PROVE  q \in current' \/ VarOf(q) \in unassigned'
  <2>1. ReachesIn(ops[b], E, q, b, n + 1)
    BY <1>1, <1>5 DEF Reaches
  <2>2. ~Assigns(ops[b][n], VarOf(q))
    BY <1>2 DEF Assigns
  <2>3. ReachesIn(ops[b], E, q, b, n)
    BY <2>1, <2>2, ReachesOver
  <2> QED
    BY <1>1, <1>2, <1>5, <2>3 DEF Reaches
<1> QED
  BY <1>2, <1>4, <1>5, MachineFollows

(* A block is entered with what leaves the predecessor; its phis take the  *)
(* arguments that came through it.                                         *)
LEMMA ExecJumpOK ==
  ASSUME StepOK, MachineOK, NEW c \in Block, ExecJump(c)
  PROVE  MachineOK'
<1>1. PICK b \in Block, n \in Nat \ {0} : at.block = b /\ at.op = n
  BY DEF MachineOK
<1>2. /\ finalised /\ UNCHANGED vars /\ n \notin DOMAIN ops[b]
      /\ b \in Range(preds[c])
      /\ at' = [block |-> c, op |-> 1] /\ at'.block = c /\ at'.op = 1
      /\ current' = (current \ PhisOf(c)) \cup Taken(b, c, current)
      /\ unassigned' = unassigned
  BY <1>1 DEF ExecJump, AtOp
<1>3. ops[b] \in Seq(Op) /\ ops[c] \in Seq(Op) /\ phis \subseteq Block \X Reg
      /\ phiArgs \subseteq PhiArg
  BY StepFacts DEF TypeOK
<1>4. n = Len(ops[b]) + 1
  BY <1>1, <1>2, <1>3 DEF MachineOK
<1>5. PhisOf(c) = {r \in Reg : <<c, r>> \in phis}
  BY <1>3 DEF PhisOf
<1>6. /\ at' \in [block : Block, op : Nat \ {0}]
      /\ at'.op <= Len(ops[at'.block]) + 1
      /\ current' \subseteq Reg
  BY <1>2, <1>3, <1>5 DEF MachineOK, Taken
<1>7. \A p \in phis : PhiComplete(p)
  <2>1. Shape /\ OthersComplete /\ Finished /\ InductiveSSA
    BY StepFacts DEF StepOK, Construction, Operands
  <2>2. calls = <<>> /\ Frames = {}
    BY <1>2, <2>1, FramesAreTyped DEF Shape
  <2>3. \A x : ~IsWaiting(x) /\ ~IsFilling(x)
    BY <1>2, <2>1, <2>2 DEF Finished, IsWaiting, IsFilling, Range
  <2> QED
    BY <2>1, <2>3 DEF OthersComplete
<1>8. ASSUME NEW E \in SUBSET (Reg \X Block), Meaning(E),
             \A q \in DefinedRegs : Reaches(E, q, at.block, at.op)
               => q \in current \/ VarOf(q) \in unassigned,
             NEW r \in DefinedRegs, Reaches(E, r, at'.block, at'.op)
      PROVE  r \in current' \/ VarOf(r) \in unassigned'
  <2>1. <<r, c>> \in E
    <3>1. ReachesIn(ops[c], E, r, c, 1)
      BY <1>2, <1>8 DEF Reaches
    <3> QED
      BY <3>1 DEF ReachesIn
  <2>2. ASSUME NEW q \in DefinedRegs, Leaves(E, q, b)
        PROVE  q \in current \/ VarOf(q) \in unassigned
    BY <1>1, <1>4, <1>8, <2>2 DEF Leaves
  <2>3. CASE <<c, r>> \in phis
    <3>1. PICK p \in phis : p = <<c, r>>
      BY <2>3
    <3>2. b \in Through(r)
      BY <1>2, <1>7, <3>1 DEF PhiComplete
    <3>3. PICK a \in phiArgs : a.phi = r /\ a.through = b
      BY <3>2, InThrough
    <3>4. r \in PhiRegs
      BY <2>3, InPhiRegs
    <3>5. PICK x \in DefinedRegs : x = a.value
      BY <3>3, <3>4, StepFacts DEF UsesAreDefined
    <3>6. Leaves(E, x, b)
      BY <1>8, <3>3, <3>4, <3>5 DEF Meaning, ArgsLeave
    <3>7. VarOf(x) = VarOf(r)
      BY <3>3, <3>5, StepFacts DEF SameVariable
    <3>8. CASE x \in current
      <4>1. r \in Taken(b, c, current)
        BY <1>5, <2>1, <2>3, <3>3, <3>5, <3>8 DEF Taken
      <4> QED
        BY <1>2, <4>1
    <3>9. CASE VarOf(x) \in unassigned
      BY <1>2, <3>7, <3>9
    <3> QED
      BY <2>2, <3>6, <3>8, <3>9
  <2>4. CASE <<c, r>> \notin phis
    <3>1. Leaves(E, r, b)
      BY <1>2, <1>8, <2>1, <2>4 DEF Meaning, EntriesOK, Inherited
    <3>2. r \in current \/ VarOf(r) \in unassigned
      BY <2>2, <3>1
    <3> QED
      BY <1>2, <1>5, <2>4, <3>2
  <2> QED
    BY <2>3, <2>4
<1> QED
  BY <1>2, <1>6, <1>8, MachineFollows

-----------------------------------------------------------------------------
(* The subroutine as it runs                                               *)

Execution ==
  /\ InductiveSSA /\ Construction
  /\ Graph /\ Stack /\ HasMeaning
  /\ MachineOK

LEMMA ExecutionInit == ExecInit => Execution
<1> SUFFICES ASSUME ExecInit PROVE Execution
  OBVIOUS
<1>1. InductiveSSA /\ Construction /\ Graph /\ Stack /\ HasMeaning
  BY InitSSA, InitConstruction, InitMeaning DEF ExecInit
<1>2. Entry \in Block /\ ops[Entry] = <<>> /\ ~finalised
  BY ConstantsAssumption DEF ExecInit, Init
<1>3. ParamRegs \subseteq Reg
  BY ConstantsAssumption DEF ParamRegs, Reg
<1>4. MachineOK
  BY <1>2, <1>3 DEF ExecInit, MachineInit, MachineOK
<1> QED
  BY <1>1, <1>4 DEF Execution

LEMMA ExecutionNext ==
  Execution /\ [ExecNext]_<<vars, machine>> => Execution'
<1> SUFFICES ASSUME Execution, [ExecNext]_<<vars, machine>>
             PROVE  Execution'
  OBVIOUS
<1>1. [Next]_vars
  BY DEF ExecNext, Execute, ExecWrite, ExecUse, ExecJump
<1>2. StepOK
  BY <1>1 DEF Execution, StepOK
<1>3. /\ InductiveSSA' /\ Construction'
      /\ Graph' /\ Stack' /\ HasMeaning'
  BY <1>1, <1>2, ConstructionNext, HasMeaningNext DEF Execution
<1>4. MachineOK'
  BY <1>2, MachineWaits, ExecWriteOK, ExecUseOK, ExecJumpOK
  DEF Execution, ExecNext, Execute
<1> QED
  BY <1>3, <1>4 DEF Execution

(* On every path through a finished subroutine, and whatever its graph,    *)
(* each read of a variable finds, in the register that read_variable chose *)
(* for it, the value most recently assigned to the variable, unless none   *)
(* has been.                                                               *)
THEOREM ReadsFindTheirValue == ExecSpec => []ReadsAreCurrent
<1>1. ExecInit => Execution
  BY ExecutionInit
<1>2. Execution /\ [ExecNext]_<<vars, machine>> => Execution'
  BY ExecutionNext
<1>3. ASSUME Execution, AtUse("read")
      PROVE  NextOp.reg \in current \/ VarOf(NextOp.reg) \in unassigned
  <2>1. PICK b \in Block, n \in Nat \ {0} : at.block = b /\ at.op = n
    BY <1>3 DEF Execution, MachineOK
  <2>2. /\ finalised /\ n \in DOMAIN ops[b] /\ ops[b][n].kind = "read"
        /\ NextOp = ops[b][n]
    BY <1>3, <2>1 DEF AtUse, AtOp, NextOp
  <2>3. PICK E \in SUBSET (Reg \X Block) :
          /\ Meaning(E)
          /\ \A r \in DefinedRegs : Reaches(E, r, b, n)
               => r \in current \/ VarOf(r) \in unassigned
    BY <1>3, <2>1, <2>2 DEF Execution, MachineOK
  <2>4. PICK r : r = ops[b][n].reg
    OBVIOUS
  <2>5. Reaches(E, r, b, n)
    BY <2>2, <2>3, <2>4 DEF Meaning, ReadsReach
  <2>6. r \in DefinedRegs
    <3>1. ops[b][n] \in Range(ops[b])
      BY <2>2 DEF Range
    <3> QED
      BY <1>3, <2>4, <3>1
      DEF Execution, Construction, Definitions, UsesAreDefined
  <2> QED
    BY <2>2, <2>3, <2>4, <2>5, <2>6
<1>4. Execution => ReadsAreCurrent
  BY <1>3 DEF ReadsAreCurrent
<1> QED
  BY <1>1, <1>2, <1>4, PTL DEF ExecSpec

-----------------------------------------------------------------------------
(* What is warned about                                                    *)

WarnedStepOK == StepOK /\ Warnings

LEMMA WritesOf ==
  TypeOK => \A v : \A b \in Block : Writes(v, b) <=> ~NoWrite(v, b)
<1> SUFFICES ASSUME TypeOK, NEW v, NEW b \in Block
             PROVE  Writes(v, b) <=> ~NoWrite(v, b)
  OBVIOUS
<1>1. ops[b] \in Seq(Op)
  BY DEF TypeOK
<1> QED
  BY <1>1 DEF Writes, NoWrite, Assigns, Range

LEMMA WritesOfNext ==
  TypeOK' => \A v : \A b \in Block : Writes(v, b)' <=> ~NoWrite(v, b)'
<1>1. (TypeOK => \A v : \A b \in Block : Writes(v, b) <=> ~NoWrite(v, b))'
  BY WritesOf, PTL
<1> QED
  BY <1>1

LEMMA EdgesGrow ==
  ASSUME StepOK, NEW b \in Block
  PROVE  Range(preds[b]) \subseteq Range(preds'[b])
<1>1. CASE preds' = preds
  BY <1>1
<1>2. ASSUME NEW ts \in SUBSET Block, Terminate(ts), preds' # preds
      PROVE  Range(preds[b]) \subseteq Range(preds'[b])
  <2>1. preds'[b] = IF b \in ts THEN AddPred(preds[b], active) ELSE preds[b]
    BY <1>2 DEF Terminate
  <2>2. active \in Block /\ preds[b] \in Seq(Block)
    BY StepFacts, QueryTypes DEF TypeOK
  <2>3. Range(Append(preds[b], active)) = Range(preds[b]) \cup {active}
    BY <2>2, AppendRange
  <2> QED
    BY <2>1, <2>3 DEF AddPred
<1> QED
  BY <1>1, <1>2, StepFacts, Changes

LEMMA FollowsNext ==
  ASSUME StepOK, NEW v, NEW b, NEW e \in Follows(v, b)
  PROVE  e \in Follows(v, b)'
<1>1. e \in Block
  BY DEF Follows
<1>2. ASSUME NEW S \in SUBSET Block, b \in S, IsClosed(v, S)'
      PROVE  IsClosed(v, S)
  <2> SUFFICES ASSUME NEW c \in Block, NEW d \in Block, c \in S,
                      ~Writes(v, c), c \in Range(preds[d])
               PROVE  d \in S
    BY DEF IsClosed
  <2>1. \A w \in Var : AddsWrite(w) => c # active
    BY StepFacts, AssignsAtTheEnd
  <2>2. NoWrite(v, c)'
    <3>1. NoWrite(v, c)
      BY StepFacts, WritesOf
    <3> QED
      BY <2>1, <3>1, StepFacts, NoWriteNext
  <2>3. ~Writes(v, c)'
    BY <2>2, StepFacts, WritesOfNext
  <2>4. c \in Range(preds[d])'
    <3>1. c \in Range(preds'[d])
      BY EdgesGrow
    <3> QED
      BY <3>1 DEF Range
  <2> QED
    BY <1>2, <2>3, <2>4 DEF IsClosed
<1>3. ASSUME NEW S \in SUBSET Block, b \in S, IsClosed(v, S)'
      PROVE  e \in S
  BY <1>2, <1>3 DEF Follows
<1> QED
  BY <1>1, <1>3 DEF Follows

LEMMA FirstNext ==
  ASSUME WarnedStepOK, NEW r \in reads
  PROVE  /\ r[1] \in Var /\ r[2] \in Block /\ r[3] \in Nat
         /\ r[3] <= Len(ops'[r[2]])
         /\ IsFirst(r)' <=> IsFirst(r)
<1>1. r[1] \in Var /\ r[2] \in Block /\ r[3] \in Nat
  BY StepFacts DEF WarnedStepOK, TypeOK
<1>2. PICK b \in Block : b = r[2]
  BY <1>1
<1>3. /\ Len(ops[b]) \in Nat /\ Len(ops'[b]) \in Nat
      /\ Len(ops[b]) <= Len(ops'[b]) /\ WritesKept(b, Len(ops[b]))
  BY StepFacts, PrefixKept DEF WarnedStepOK
<1>4. r[3] <= Len(ops[b])
  BY <1>2 DEF WarnedStepOK, Warnings
<1>5. \A j \in 1..r[3] : Assigns(ops'[b][j], r[1]) <=> Assigns(ops[b][j], r[1])
  BY <1>1, <1>3, <1>4 DEF WritesKept, SameWrites, Assigns
<1>6. r[3] <= Len(ops'[b])
  BY <1>1, <1>3, <1>4
<1> QED
  BY <1>1, <1>2, <1>5, <1>6 DEF IsFirst, Assigns

(* A read that the client begins.                                          *)
Begins(r) ==
  /\ Idle /\ ops' = ops
  /\ \E v \in Var :
       r = <<v, active, Len(ops[active])>> /\ ReadFrame(v, active) \in Frames'

LEMMA ReadsNext ==
  ASSUME StepOK
  PROVE  /\ reads \subseteq reads'
         /\ \A r \in reads' : r \in reads \/ Begins(r)
<1>1. \/ reads' = reads
      \/ \E v \in Var : UseVariable(v) \/ ReadVariable(v)
  <2>1. CASE Step
    BY <2>1
    DEF Step, ReadLocal, ReadUnsealed, ReadSinglePredecessor, ReadJoin,
        WriteBack, ReadOperand, AppendOperand, OperandsComplete,
        CollectResult, FixupDefinitions, FixupComplete, TryUndefined,
        TryNotTrivial, TryTrivial, TryUsers, StartSeal, CompletePhi,
        SealComplete, AddUse, FinaliseSeal, FinaliseComplete, cfgVars
  <2>2. CASE Client
    BY <2>2
    DEF Client, Assign, UseHeld, Terminate, Activate, ActivateOpen,
        ActivateThen, CloseOpen, Finalise, cfgVars
  <2>3. CASE UNCHANGED vars
    BY <2>3 DEF vars, cfgVars
  <2> QED
    BY <2>1, <2>2, <2>3, StepFacts DEF Next
<1>2. ASSUME NEW v \in Var, UseVariable(v) \/ ReadVariable(v)
      PROVE  /\ reads' = reads \cup {<<v, active, Len(ops[active])>>}
             /\ Idle /\ ops' = ops /\ ReadFrame(v, active) \in Frames'
  <2>1. PICK f, g : f = ReadFrame(v, active) /\ g = UseFrame
    OBVIOUS
  <2>2. /\ reads' = reads \cup {<<v, active, Len(ops[active])>>}
        /\ Idle /\ ops' = ops /\ (Push(<<f>>) \/ Push(<<f, g>>))
    BY <1>2, <2>1 DEF UseVariable, ReadVariable, NoteRead, Open
  <2>3. calls' = <<f>> \/ calls' = <<f, g>>
    BY <2>2 DEF Idle, Push
  <2>4. 1 \in DOMAIN calls' /\ calls'[1] = f
    BY <2>3
  <2> QED
    BY <2>1, <2>2, <2>4 DEF Frames, Range
<1> QED
  BY <1>1, <1>2 DEF Begins

LEMMA AskedNext ==
  ASSUME WarnedStepOK, NEW v, NEW b, IsAsked(v, b)
  PROVE  IsAsked(v, b)'
<1>1. PICK r \in reads : r[1] = v /\ r[2] \in Follows(v, b) /\ IsFirst(r)
  BY DEF IsAsked
<1>2. r \in reads' /\ IsFirst(r)' /\ r[2] \in Follows(v, b)'
  BY <1>1, ReadsNext, FirstNext, FollowsNext DEF WarnedStepOK
<1> QED
  BY <1>1, <1>2 DEF IsAsked

(* What is asked for on entry to a block, its predecessors are asked for.  *)
LEMMA AskedBefore ==
  ASSUME TypeOK, NEW v, NEW c \in Block, NEW d \in Block,
         c \in Range(preds[d]), NoWrite(v, c), IsAsked(v, d)
  PROVE  IsAsked(v, c)
<1>1. PICK r \in reads : r[1] = v /\ r[2] \in Follows(v, d) /\ IsFirst(r)
  BY DEF IsAsked
<1>2. ASSUME NEW S \in SUBSET Block, c \in S, IsClosed(v, S)
      PROVE  d \in S
  BY <1>2, WritesOf DEF IsClosed
<1>3. r[2] \in Follows(v, c)
  BY <1>1, <1>2 DEF Follows
<1> QED
  BY <1>1, <1>3 DEF IsAsked

LEMMA ClientReads ==
  ASSUME StepOK, Client, NEW f \in Frames', f.at = "read"
  PROVE  \E v \in Var :
           /\ f = ReadFrame(v, active) /\ UNCHANGED <<ops, preds, blocks>>
           /\ <<v, active, Len(ops[active])>> \in reads'
<1>0. calls = <<>>
  BY StepFacts, ClientMoves
<1>1. ASSUME NEW v \in Var, UseVariable(v) \/ ReadVariable(v)
      PROVE  /\ f = ReadFrame(v, active) /\ UNCHANGED <<ops, preds, blocks>>
             /\ <<v, active, Len(ops[active])>> \in reads'
  <2>1. PICK g, h : g = ReadFrame(v, active) /\ h = UseFrame
    OBVIOUS
  <2>2. /\ <<v, active, Len(ops[active])>> \in reads'
        /\ UNCHANGED <<ops, preds, blocks>> /\ (Push(<<g>>) \/ Push(<<g, h>>))
    BY <1>1, <2>1 DEF UseVariable, ReadVariable, NoteRead, Open
  <2>3. calls' = <<g>> \/ calls' = <<g, h>>
    BY <1>0, <2>2 DEF Push
  <2>4. f \in {g, h}
    BY <2>3 DEF Frames, Range
  <2>5. h.at = "use"
    BY <2>1, FrameKinds
  <2> QED
    BY <2>1, <2>2, <2>4, <2>5
<1>2. ASSUME NEW g, calls' = <<g>> PROVE f = g
  BY <1>2 DEF Frames, Range
<1>3. calls' # <<>>
  BY DEF Frames, Range
<1>4. ASSUME NEW b \in Block, Activate(b) \/ ActivateOpen(b) \/ CloseOpen(b)
      PROVE  FALSE
  <2>1. PICK g : g = SealFrame(b)
    OBVIOUS
  <2>2. Push(<<>>) \/ Push(<<g>>) \/ calls' = <<>>
    BY <1>4, <2>1 DEF Activate, ActivateOpen, ActivateThen, CloseOpen,
                      SealIfUnlabelled, Raise
  <2>3. calls' = <<>> \/ calls' = <<g>>
    BY <1>0, <2>2 DEF Push
  <2> QED
    BY <1>2, <1>3, <2>1, <2>3, FrameKinds
<1>5. CASE Finalise
  <2>1. PICK bs : calls' = <<FinaliseFrame(bs)>>
    BY <1>0, <1>5 DEF Finalise, Push
  <2> QED
    BY <1>2, <2>1, FrameKinds
<1>6. CASE \/ \E v \in Var : Assign(v)
           \/ \E r \in DefinedRegs : UseHeld(r)
           \/ \E ts \in SUBSET Block : Terminate(ts)
  BY <1>0, <1>3, <1>6 DEF Assign, UseHeld, Terminate, Raise, callVars
<1> QED
  BY <1>1, <1>4, <1>5, <1>6 DEF Client

(* The client asks where it reads.                                         *)
LEMMA AskedHere ==
  ASSUME StepOK, Client, NEW f \in Frames', f.at = "read",
         NoWrite(f.var, f.block)'
  PROVE  IsAsked(f.var, f.block)'
<1>1. PICK v \in Var :
        /\ f = ReadFrame(v, active) /\ UNCHANGED <<ops, preds, blocks>>
        /\ <<v, active, Len(ops[active])>> \in reads'
  BY ClientReads
<1>2. PICK b : b = active
  OBVIOUS
<1>3. f.var = v /\ f.block = b /\ b \in Block
  BY <1>1, <1>2, StepFacts, QueryTypes DEF ReadFrame
<1>4. PICK r \in reads' : r = <<v, b, Len(ops[b])>>
  BY <1>1, <1>2
<1>5. r[1] = v /\ r[2] = b /\ r[3] = Len(ops[b])
  BY <1>4
<1>6. b \in Follows(v, b)'
  BY <1>3 DEF Follows
<1>7. IsFirst(r)'
  <2>1. DOMAIN ops[b] = 1..Len(ops[b])
    BY <1>3, StepFacts, PrefixKept
  <2>2. \A j \in DOMAIN ops'[b] : ~Assigns(ops'[b][j], v)
    BY <1>3 DEF NoWrite, Assigns
  <2> QED
    BY <1>1, <1>5, <2>1, <2>2 DEF IsFirst, Assigns
<1> QED
  BY <1>3, <1>4, <1>5, <1>6, <1>7 DEF IsAsked

-----------------------------------------------------------------------------
(* Every block that is activated can be reached                            *)

LEMMA BlocksAreReachedNext ==
  ASSUME StepOK, BlocksAreReached, PredecessorsActivated
  PROVE  BlocksAreReached'
<1> SUFFICES ASSUME NEW b \in Range(blocks)', NEW S \in SUBSET Block,
                    Entry \in S,
                    \A c, d \in Block :
                      c \in S /\ c \in Range(preds[d])' => d \in S
             PROVE  b \in S
  BY DEF BlocksAreReached
<1>1. \A c, d \in Block : c \in S /\ c \in Range(preds[d]) => d \in S
  <2>1. \A d \in Block : Range(preds[d]) \subseteq Range(preds[d])'
    BY EdgesGrow DEF Range
  <2> QED
    BY <2>1
<1>2. Range(blocks) \subseteq S
  BY <1>1 DEF BlocksAreReached
<1>3. CASE blocks' = blocks
  BY <1>2, <1>3 DEF Range
<1>4. ASSUME NEW e \in Block, NEW fs, ActivateThen(e, fs), blocks' # blocks
      PROVE  b \in S
  <2>1. blocks' = Append(blocks, e) /\ preds[e] # <<>>
    BY <1>4 DEF ActivateThen
  <2>2. blocks \in Seq(Block) /\ preds[e] \in Seq(Block)
    BY StepFacts DEF TypeOK
  <2>3. Range(Append(blocks, e)) = Range(blocks) \cup {e}
    BY <2>2, AppendRange
  <2>4. b \in Range(blocks) \/ b = e
    BY <2>1, <2>3 DEF Range
  <2>5. preds[e][1] \in Range(preds[e]) /\ preds[e][1] \in Block
    BY <2>1, <2>2 DEF Range
  <2>6. preds[e][1] \in Range(blocks)
    BY <2>5 DEF PredecessorsActivated
  <2> QED
    BY <1>1, <1>2, <2>4, <2>5, <2>6
<1> QED
  BY <1>3, <1>4, StepFacts, Changes DEF Activate, ActivateOpen

-----------------------------------------------------------------------------
(* Only what a read asks for is looked up                                  *)

LEMMA LeavesUnwritten ==
  ASSUME InductiveSSA, NEW E, NEW r, r \notin WrittenRegs, NEW b \in Block,
         Leaves(E, r, b)
  PROVE  <<r, b>> \in E
<1>1. ops[b] \in Seq(Op)
  BY DEF InductiveSSA, TypeOK
<1>2. \A j \in 1..((Len(ops[b]) + 1) - 1) : j \in DOMAIN ops[b]
  BY <1>1
<1>3. \A j \in 1..((Len(ops[b]) + 1) - 1) :
        ~(ops[b][j].kind = "write" /\ ops[b][j].reg = r)
  BY <1>2, WrittenAt
<1> QED
  BY <1>3 DEF Leaves, Reaches, ReachesIn

LEMMA NoWriteBefore ==
  ASSUME StepOK, NEW w, NEW b \in Block, NoWrite(w, b)'
  PROVE  NoWrite(w, b)
<1>1. /\ Len(ops[b]) \in Nat /\ Len(ops'[b]) \in Nat
      /\ DOMAIN ops[b] = 1..Len(ops[b]) /\ DOMAIN ops'[b] = 1..Len(ops'[b])
      /\ Len(ops[b]) <= Len(ops'[b]) /\ WritesKept(b, Len(ops[b]))
  BY StepFacts, PrefixKept
<1> QED
  BY <1>1 DEF NoWrite, Assigns, WritesKept, SameWrites

(* A read that is passed on finds nothing in its block.                    *)
LEMMA MissingReads ==
  ASSUME WarnedStepOK, NEW E, Meaning(E),
         ReadUnsealed \/ ReadJoin \/ ReadSinglePredecessor
  PROVE  /\ top.var \in Var /\ top.block \in Block /\ top \in Frames
         /\ top.at = "read" /\ calls # <<>>
         /\ NoWrite(top.var, top.block) /\ IsAsked(top.var, top.block)
<1>1. Running("read") /\ currentDef[<<top.var, top.block>>] = NoReg
  BY DEF ReadUnsealed, ReadJoin, ReadSinglePredecessor, Missing, Found, Reading
<1>2. /\ top.var \in Var /\ top.block \in Block /\ top \in Frames
      /\ top.at = "read" /\ calls # <<>>
  BY <1>1, StepFacts, TopFields, ShapeFacts DEF WarnedStepOK
<1>3. NoWrite(top.var, top.block)
  BY <1>1, <1>2 DEF Meaning, CacheLeaves
<1> QED
  BY <1>2, <1>3 DEF WarnedStepOK, Warnings, OnlyAskedFor

(* A phi without arguments is one of the entry block.                      *)
LEMMA UndefinedAtEntry ==
  ASSUME WarnedStepOK, NEW E, Meaning(E), TryUndefined
  PROVE  <<Entry, top.phi>> \in phis
<1>1. PICK r : r = top.phi
  OBVIOUS
<1>2. /\ Running("try") /\ NonSelfArgs(r) = {}
      /\ calls \in Seq(Frame) /\ calls # <<>> /\ top.at = "try" /\ r \in Reg
  BY <1>1, StepFacts, TopFields DEF TryUndefined, WarnedStepOK
<1>3. r \in PhiRegs
  <2>1. top \in Frames /\ IsTried(top, r)
    BY <1>1, <1>2, StepFacts, ShapeFacts DEF IsTried, WarnedStepOK
  <2>2. Removing
    BY <1>2, Positions DEF Removing, Removes, Tries
  <2>3. r \in PhiRegs \cup Removed
    BY <1>2, <2>1, <2>2, StepFacts DEF Live, WarnedStepOK
  <2>4. r \notin Removed
    BY <1>2 DEF Removed, WarnedStepOK, Warnings
  <2> QED
    BY <2>3, <2>4
<1>4. PICK p \in phis : p[2] = r
  BY <1>3, InPhiRegs
<1>5. PICK b \in Block : b = p[1] /\ p = <<b, r>>
  <2>1. p \in Block \X Reg
    BY StepFacts DEF WarnedStepOK, TypeOK
  <2> QED
    BY <1>4, <2>1
<1>6. Through(r) = Range(preds[b])
  <2>1. OnlyCompletePhisTried
    BY CompleteWhenTried DEF WarnedStepOK, StepOK
  <2>2. PhiComplete(p)
    BY <1>1, <1>2, <1>4, <2>1 DEF OnlyCompletePhisTried
  <2>3. p[1] = b /\ p[2] = r
    BY <1>4, <1>5
  <2> QED
    BY <2>2, <2>3 DEF PhiComplete
<1>7. r \notin WrittenRegs /\ r \notin ParamRegs
      /\ \A q \in phis : q[2] = r => q = p
  BY <1>3, <1>4, StepFacts DEF SingleAssignment, WarnedStepOK
<1>8. ASSUME b # Entry PROVE FALSE
  <2> DEFINE S == {c \in Block : <<r, c>> \notin E}
  <2>1. ASSUME NEW c \in Block, NEW d \in Block, c \in Range(preds[d]),
               <<r, d>> \in E
        PROVE  <<r, c>> \in E
    <3>1. CASE d = b
      <4>1. PICK a \in phiArgs : a.phi = r /\ a.through = c
        BY <1>6, <2>1, <3>1, InThrough
      <4>2. a.value = r
        BY <1>2, <4>1, InNonSelfArgs
      <4>3. Leaves(E, r, c)
        BY <1>3, <4>1, <4>2 DEF Meaning, ArgsLeave
      <4> QED
        BY <1>7, <4>3, StepFacts, LeavesUnwritten DEF WarnedStepOK
    <3>2. CASE d # b
      <4>1. <<d, r>> \notin phis
        BY <1>5, <1>7, <3>2
      <4>2. Leaves(E, r, c)
        BY <1>3, <2>1, <4>1
        DEF Meaning, EntriesOK, Inherited, DefinedRegs
      <4> QED
        BY <1>7, <4>2, StepFacts, LeavesUnwritten DEF WarnedStepOK
    <3> QED
      BY <3>1, <3>2
  <2>2. Entry \in S
    <3>1. Entry \in Block
      BY ConstantsAssumption
    <3>2. <<Entry, r>> \notin phis
      BY <1>5, <1>7, <1>8
    <3>3. <<r, Entry>> \notin E
      BY <1>3, <1>7, <3>1, <3>2
      DEF Meaning, EntriesOK, Inherited, DefinedRegs
    <3> QED
      BY <3>1, <3>3
  <2>3. \A c, d \in Block : c \in S /\ c \in Range(preds[d]) => d \in S
    BY <2>1
  <2>4. b \in Range(blocks)
    BY <1>5 DEF WarnedStepOK, Warnings
  <2>5. S \in SUBSET Block
    OBVIOUS
  <2>6. b \in S
    <3> HIDE DEF S
    <3> QED
      BY <2>2, <2>3, <2>4, <2>5 DEF WarnedStepOK, Warnings, BlocksAreReached
  <2>7. <<r, b>> \in E
    BY <1>5 DEF Meaning, EntriesOK
  <2> QED
    BY <2>6, <2>7
<1> QED
  BY <1>1, <1>5, <1>8

LEMMA WarnsNext ==
  ASSUME [Next]_vars
  PROVE  \/ undefinedRead' = undefinedRead
         \/ /\ TryUndefined
            /\ undefinedRead' = undefinedRead \cup {VarOf(top.phi)}
<1>1. CASE Step
  BY <1>1
  DEF Step, ReadLocal, ReadUnsealed, ReadSinglePredecessor, ReadJoin,
      WriteBack, ReadOperand, AppendOperand, OperandsComplete,
      CollectResult, FixupDefinitions, FixupComplete, TryUndefined, Warn,
      TryNotTrivial, TryTrivial, TryUsers, StartSeal, CompletePhi,
      SealComplete, AddUse, FinaliseSeal, FinaliseComplete, ssaVars
<1>2. CASE Client
  BY <1>2
  DEF Client, Assign, UseVariable, ReadVariable, UseHeld, Terminate,
      Activate, ActivateOpen, ActivateThen, CloseOpen, Finalise, ssaVars
<1>3. CASE UNCHANGED vars
  BY <1>3 DEF vars, ssaVars
<1> QED
  BY <1>1, <1>2, <1>3 DEF Next

LEMMA OnlyAskedForNext ==
  ASSUME WarnedStepOK, NEW E, Meaning(E)
  PROVE  OnlyAskedFor'
<1>0. /\ StepOK /\ OnlyAskedFor /\ InductiveSSA /\ Shape /\ [Next]_vars
      /\ TypeOK
  BY StepFacts DEF WarnedStepOK, Warnings
<1>1. ASSUME NEW p \in phis'
      PROVE  IsAsked(VarOf(p[2]), p[1])'
  <2>1. CASE p \in phis
    BY <2>1, AskedNext DEF WarnedStepOK, Warnings, OnlyAskedFor
  <2>2. CASE /\ ReadUnsealed \/ ReadJoin
             /\ p = <<top.block, NewRegister(top.var)>>
    <3>1. VarOf(p[2]) = top.var /\ p[1] = top.block
      BY <2>2 DEF NewRegister, VarOf
    <3>2. IsAsked(top.var, top.block)
      BY <2>2, MissingReads
    <3> QED
      BY <3>1, <3>2, AskedNext
  <2> QED
    BY <1>0, <2>1, <2>2, PhisNext
<1>2. ASSUME NEW f \in Frames', f.at = "read", NoWrite(f.var, f.block)'
      PROVE  IsAsked(f.var, f.block)'
  <2>1. CASE f \in Frames
    <3>1. f.block \in Block
      BY <1>0, <1>2, <2>1, FramesAreTyped, FrameFields
    <3>2. NoWrite(f.var, f.block)
      BY <1>0, <1>2, <3>1, NoWriteBefore
    <3>3. IsAsked(f.var, f.block)
      BY <1>0, <1>2, <2>1, <3>2 DEF OnlyAskedFor
    <3> QED
      BY <3>3, AskedNext
  <2>2. ASSUME NEW v, NEW c, NEW d \in Block, f = ReadFrame(v, c),
               IsAsked(v, d), c \in Range(preds[d])
        PROVE  IsAsked(f.var, f.block)'
    <3>1. f.var = v /\ f.block = c
      BY <2>2 DEF ReadFrame
    <3>2. c \in Block
      <4>1. preds[d] \in Seq(Block)
        BY <1>0 DEF TypeOK
      <4> QED
        BY <2>2, <4>1, RangeType
    <3>3. NoWrite(v, c)
      BY <1>0, <1>2, <3>1, <3>2, NoWriteBefore
    <3>4. IsAsked(v, c)
      BY <1>0, <2>2, <3>2, <3>3, AskedBefore
    <3> QED
      BY <3>1, <3>4, AskedNext
  <2>3. CASE /\ ReadSinglePredecessor
             /\ f = ReadFrame(top.var, Head(preds[top.block]))
    <3>1. top.block \in Block /\ IsAsked(top.var, top.block)
      BY <2>3, MissingReads
    <3>2. Head(preds[top.block]) \in Range(preds[top.block])
      BY <1>0, <2>3, ReadSinglePredecessorMoves
    <3> QED
      BY <2>2, <2>3, <3>1, <3>2
  <2>4. CASE ReadOperand /\ f = ReadFrame(VarOf(top.phi), Head(top.todo))
    <3>1. /\ top.block \in Block /\ top.todo \in Seq(Block)
          /\ top.todo # <<>> /\ top \in Frames /\ top.at = "operands"
      BY <1>0, <2>4, TopFields, ShapeFacts DEF ReadOperand
    <3>2. /\ <<top.block, top.phi>> \in phis
          /\ Range(top.todo) \subseteq Range(preds[top.block])
      BY <3>1, StepFacts DEF WarnedStepOK, FillingOK, Gathers
    <3>3. Head(top.todo) \in Range(top.todo)
      BY <3>1 DEF Range
    <3>4. IsAsked(VarOf(top.phi), top.block)
      BY <1>0, <3>2 DEF OnlyAskedFor
    <3> QED
      BY <2>2, <2>4, <3>1, <3>2, <3>3, <3>4
  <2>5. CASE Client
    BY <1>0, <1>2, <2>5, AskedHere
  <2> QED
    BY <1>0, <1>2, <2>1, <2>3, <2>4, <2>5, NewReads
<1>3. ASSUME NEW v \in undefinedRead'
      PROVE  IsAsked(v, Entry)'
  <2>1. CASE v \in undefinedRead
    BY <1>0, <2>1, AskedNext DEF OnlyAskedFor
  <2>2. CASE TryUndefined /\ v = VarOf(top.phi)
    <3>1. PICK p \in phis : p = <<Entry, top.phi>>
      BY <2>2, UndefinedAtEntry
    <3>2. IsAsked(v, Entry)
      BY <1>0, <2>2, <3>1 DEF OnlyAskedFor
    <3> QED
      BY <3>2, AskedNext
  <2> QED
    BY <1>0, <2>1, <2>2, WarnsNext
<1>4. \A f \in Frames' : f.at = "read" /\ NoWrite(f.var, f.block)'
        => IsAsked(f.var, f.block)'
  BY <1>2
<1> QED
  BY <1>1, <1>3, <1>4 DEF OnlyAskedFor

-----------------------------------------------------------------------------
(* What is asked for at the entry is warned about                          *)

LEMMA EntryHasNoArguments ==
  ASSUME StepOK, NEW r, <<Entry, r>> \in phis
  PROVE  /\ Through(r) = {} /\ NonSelfArgs(r) = {}
         /\ \A b \in Block : <<b, r>> \in phis => b = Entry
<1>0. /\ Entry \in sealed /\ Entry \in Block /\ Range(preds[Entry]) = {}
      /\ \A p, q \in phis : p[2] = q[2] => p = q
      /\ phis \subseteq Block \X Reg
  <2>1. preds[Entry] = <<>> /\ Entry \in sealed
    BY StepFacts DEF EntryOK
  <2> QED
    BY <2>1, ConstantsAssumption, StepFacts
    DEF Range, SingleAssignment, TypeOK
<1>1. PICK p \in phis : p = <<Entry, r>>
  OBVIOUS
<1>2. p[1] = Entry /\ p[2] = r /\ r \in Reg
  BY <1>0, <1>1
<1>3. \A b \in Block : <<b, r>> \in phis => b = Entry
  <2> SUFFICES ASSUME NEW b \in Block, NEW q \in phis, q = <<b, r>>
               PROVE  b = Entry
    OBVIOUS
  <2>1. q[2] = r /\ q[1] = b
    OBVIOUS
  <2> QED
    BY <1>0, <1>2, <2>1
<1>4. ~IsWaiting(r)
  <2>1. ASSUME NEW b \in Block, r \in Range(incomplete[b]) PROVE FALSE
    <3>1. <<b, r>> \in phis /\ b \notin sealed
      BY <2>1, StepFacts DEF WaitingOK, Range
    <3> QED
      BY <1>0, <1>3, <3>1
  <2>2. ASSUME NEW f \in Frames, f.at = "sealing", r \in Range(f.todo)
        PROVE  FALSE
    <3>1. <<f.block, r>> \in phis /\ f.block \notin sealed
      BY <2>2, StepFacts DEF WaitingOK
    <3>2. f.block \in Block
      BY <1>0, <3>1
    <3> QED
      BY <1>0, <1>3, <3>1, <3>2
  <2> QED
    BY <2>1, <2>2 DEF IsWaiting
<1>5. Through(r) = {}
  <2>1. CASE IsFilling(r)
    <3>1. PICK f \in Frames : f.at \in Gathers /\ f.phi = r
      BY <2>1 DEF IsFilling
    <3>2. /\ <<f.block, r>> \in phis
          /\ Through(r) = Range(preds[f.block]) \ Range(f.todo)
      BY <3>1, StepFacts DEF FillingOK
    <3>3. f.block = Entry
      <4>1. f.block \in Block
        BY <1>0, <3>2
      <4> QED
        BY <1>3, <3>2, <4>1
    <3> QED
      BY <1>0, <3>2, <3>3
  <2>2. CASE ~IsFilling(r)
    <3>1. PhiComplete(p)
      BY <1>2, <1>4, <2>2, StepFacts DEF OthersComplete
    <3> QED
      BY <1>0, <1>2, <3>1 DEF PhiComplete
  <2> QED
    BY <2>1, <2>2
<1>6. ASSUME NEW x \in NonSelfArgs(r) PROVE FALSE
  <2>1. PICK a \in phiArgs : a.phi = r
    BY <1>6, InNonSelfArgs
  <2>2. a.through \in Through(r)
    BY <2>1, InThrough
  <2> QED
    BY <1>5, <2>2
<1> QED
  BY <1>3, <1>5, <1>6

LEMMA EntryIsWarnedNext ==
  ASSUME WarnedStepOK
  PROVE  EntryIsWarned'
<1>0. /\ StepOK /\ EntryIsWarned /\ InductiveSSA /\ Shape /\ [Next]_vars
      /\ TypeOK /\ NoFixupFault
  BY StepFacts DEF WarnedStepOK, Warnings
<1> SUFFICES ASSUME NEW p \in phis', p[1] = Entry
             PROVE  \/ VarOf(p[2]) \in undefinedRead'
                    \/ fault' # "none"
                    \/ \E f \in Frames' :
                         f.at \in {"operands", "try"} /\ f.phi = p[2]
  BY DEF EntryIsWarned
<1>1. CASE p \notin phis
  <2>1. /\ ReadUnsealed \/ ReadJoin
        /\ p = <<top.block, NewRegister(top.var)>>
    BY <1>0, <1>1, PhisNext
  <2>2. ~ReadUnsealed
    BY <1>0, <2>1, StepFacts DEF ReadUnsealed, EntryOK
  <2>3. PICK f : f = OperandsFrame(NewRegister(top.var), top.block,
                                   preds[top.block])
    OBVIOUS
  <2>4. f \in Frames'
    BY <1>0, <2>1, <2>2, <2>3, ReadJoinMoves
  <2>5. f.at = "operands" /\ f.phi = p[2]
    BY <2>1, <2>3 DEF OperandsFrame
  <2> QED
    BY <2>4, <2>5
<1>2. CASE p \in phis
  <2>1. PICK r : r = p[2] /\ p = <<Entry, r>>
    <3>1. p \in Block \X Reg
      BY <1>0, <1>2 DEF TypeOK
    <3> QED
      BY <3>1
  <2>2. /\ Through(r) = {} /\ NonSelfArgs(r) = {}
        /\ \A b \in Block : <<b, r>> \in phis => b = Entry
    BY <1>0, <1>2, <2>1, EntryHasNoArguments
  <2>3. CASE VarOf(r) \in undefinedRead \/ fault # "none"
    BY <1>0, <2>1, <2>3, WarnsNext, FaultsStay
  <2>4. ASSUME NEW f \in Frames, f.at \in {"operands", "try"}, f.phi = r
        PROVE  \/ VarOf(r) \in undefinedRead'
               \/ \E g \in Frames' :
                    g.at \in {"operands", "try"} /\ g.phi = r
    <3>1. CASE f \in Frames'
      BY <2>4, <3>1
    <3>2. CASE Step /\ f = top /\ f.at = "operands"
      <4>1. ReadOperand \/ OperandsComplete
        BY <3>2, StepOf
      <4>2. ~ReadOperand
        <5>1. SUFFICES ASSUME ReadOperand PROVE FALSE
          OBVIOUS
        <5>2. top.todo \in Seq(Block) /\ top.todo # <<>>
          BY <1>0, <5>1, TopFields DEF ReadOperand
        <5>3. /\ <<top.block, r>> \in phis
              /\ Range(top.todo) \subseteq Range(preds[top.block])
          BY <2>4, <3>2, StepFacts DEF FillingOK, Gathers, WarnedStepOK
        <5>4. top.block = Entry
          <6>1. top.block \in Block
            BY <1>0, <5>3 DEF TypeOK
          <6> QED
            BY <2>2, <5>3, <6>1
        <5>5. Range(preds[Entry]) = {}
          BY <1>0, StepFacts DEF EntryOK, Range
        <5>6. Head(top.todo) \in Range(top.todo)
          BY <5>2 DEF Range
        <5>7. Head(top.todo) \in Range(preds[Entry])
          BY <5>3, <5>4, <5>6
        <5> QED
          BY <5>5, <5>7
      <4>3. PICK g : g = PhiFrame("try", r)
        OBVIOUS
      <4>4. g \in Frames' /\ g.at = "try" /\ g.phi = r
        BY <1>0, <2>4, <3>2, <4>1, <4>2, <4>3, OperandsCompleteMoves, FrameKinds
      <4> QED
        BY <4>4
    <3>3. CASE Step /\ f = top /\ f.at = "try"
      <4>1. TryUndefined \/ TryNotTrivial \/ TryTrivial
        BY <3>3, StepOf
      <4>2. TryUndefined
        BY <2>2, <2>4, <3>3, <4>1 DEF TryNotTrivial, TryTrivial
      <4> QED
        BY <2>4, <3>3, <4>2 DEF TryUndefined, Warn
    <3> QED
      BY <1>0, <2>4, <3>1, <3>2, <3>3, BelowKept
  <2> QED
    BY <1>0, <1>2, <2>1, <2>3, <2>4 DEF EntryIsWarned
<1> QED
  BY <1>1, <1>2

-----------------------------------------------------------------------------
(* The other parts                                                         *)

LEMMA FinishedWell ==
  ASSUME WarnedStepOK
  PROVE  (finalised => fault = "none")'
<1>1. CASE FinaliseComplete /\ finalised' # finalised
  BY <1>1 DEF FinaliseComplete, Running
<1>2. CASE finalised' = finalised /\ fault' # fault
  <2>1. \/ calls # <<>>
        \/ Idle
    <3>1. CASE Step
      BY <3>1, RunningStep
    <3>2. CASE Client
      BY <3>2
      DEF Client, Assign, UseVariable, ReadVariable, UseHeld, Terminate,
          Activate, ActivateOpen, ActivateThen, CloseOpen, Finalise, Open
    <3>3. CASE UNCHANGED vars
      BY <1>2, <3>3 DEF vars
    <3> QED
      BY <3>1, <3>2, <3>3, StepFacts DEF WarnedStepOK, Next
  <2>2. finalised = FALSE
    <3>1. finalised \in BOOLEAN
      BY StepFacts DEF WarnedStepOK, TypeOK
    <3> QED
      BY <2>1, <3>1, StepFacts DEF WarnedStepOK, Shape, Idle
  <2> QED
    BY <1>2, <2>2
<1>3. CASE finalised' = finalised /\ fault' = fault
  BY <1>3 DEF WarnedStepOK, Warnings
<1> QED
  BY <1>1, <1>2, <1>3, StepFacts, Changes DEF WarnedStepOK

LEMMA RemovedHaveArguments ==
  ASSUME WarnedStepOK, NEW x \in Range(removals')
  PROVE  NonSelfArgs(x.phi)' # {}
<1>0. /\ StepOK /\ InductiveSSA /\ Shape /\ [Next]_vars /\ TypeOK /\ Live
      /\ FirstIsCompleted /\ removals \in Seq(Removal) /\ NoFixupFault
      /\ \A y \in Range(removals) : NonSelfArgs(y.phi) # {}
      /\ phiArgs \subseteq PhiArg
  BY StepFacts DEF WarnedStepOK, Warnings, TypeOK
<1>1. CASE TryTrivial
  <2>1. PICK by \in Reg :
          /\ by \in NonSelfArgs(top.phi) /\ NonSelfArgs(top.phi) = {by}
          /\ phiArgs' = {Renamed(a, top.phi, by) : a \in phiArgs}
          /\ removals' = Append(removals, [phi |-> top.phi, by |-> by])
    BY <1>0, <1>1, TryTrivialArgs
  <2>2. PICK p : p = top.phi
    OBVIOUS
  <2>3. Removed \cap DefinedRegs = {} /\ p \in Reg
    BY <1>0, <1>1, <2>2, TriedIsPhi DEF Live
  (* The arguments of a phi that is not in its block stay.                 *)
  <2>4. ASSUME NEW q, q \notin PhiRegs \/ q = p, NEW y \in NonSelfArgs(q)
        PROVE  y \in NonSelfArgs(q)'
    <3>1. PICK a \in phiArgs : a.phi = q /\ a.value = y /\ y # q
      BY InNonSelfArgs
    <3>2. PICK c \in phiArgs' : c = Renamed(a, p, by)
      BY <2>1, <2>2
    <3>3. c.phi = q /\ c.value = y
      <4>1. a \in PhiArg /\ a.phi \notin PhiRegs \ {p}
        BY <1>0, <2>4, <3>1
      <4> QED
        BY <3>1, <3>2, <4>1, RenamedFields
    <3> QED
      BY <3>1, <3>3, InNonSelfArgsNext
  <2>5. x \in Range(removals) \/ x = [phi |-> p, by |-> by]
    <3>1. PICK z : z = [phi |-> p, by |-> by]
      OBVIOUS
    <3>2. z \in Removal
      BY <2>3, <3>1 DEF Removal
    <3>3. Range(Append(removals, z)) = Range(removals) \cup {z}
      BY <1>0, <3>2, AppendRange
    <3> QED
      BY <2>1, <2>2, <3>1, <3>3
  <2>6. CASE x = [phi |-> p, by |-> by]
    <3>1. x.phi = p
      BY <2>6
    <3> QED
      BY <2>1, <2>2, <2>4, <3>1
  <2>7. CASE x \in Range(removals)
    <3>1. x.phi \notin PhiRegs
      BY <2>3, <2>7 DEF Removed, DefinedRegs
    <3>2. PICK y \in NonSelfArgs(x.phi) : TRUE
      BY <1>0, <2>7
    <3>3. PICK q : q = x.phi
      OBVIOUS
    <3> QED
      BY <2>4, <3>1, <3>2, <3>3
  <2> QED
    BY <2>5, <2>6, <2>7
<1>2. CASE ~TryTrivial
  <2>1. ~OperandsComplete
    <3>1. OperandsComplete => Range(removals') = {}
      BY DEF OperandsComplete, Range
    <3> QED
      BY <3>1
  <2>2. x \in Range(removals)
    <3>1. CASE removals' = removals
      BY <3>1
    <3>2. CASE FixupDefinitions /\ removals' # removals
      <4>1. removals' = Tail(removals) /\ removals # <<>>
        BY <3>2 DEF FixupDefinitions
      <4>2. Range(Tail(removals)) \subseteq Range(removals)
        BY <1>0, <4>1, TailRange
      <4> QED
        BY <4>1, <4>2
    <3> QED
      BY <1>0, <1>2, <2>1, <3>1, <3>2, Changes
  <2>3. removals # <<>>
    BY <2>2 DEF Range
  <2>4. Removing /\ calls # <<>> /\ top = calls[1] /\ top.at \in Removes
    BY <1>0, <2>3, Positions DEF FirstIsCompleted, Removing, TypeOK
  <2>5. ~AppendOperand
    BY <2>4 DEF AppendOperand, Running, Removes, Tries
  <2>6. phiArgs' = phiArgs
    BY <1>0, <1>2, <2>5, Changes
  <2>7. NonSelfArgs(x.phi)' = NonSelfArgs(x.phi)
    BY <2>6 DEF NonSelfArgs
  <2> QED
    BY <1>0, <2>2, <2>7
<1> QED
  BY <1>1, <1>2

LEMMA WarningsNext ==
  ASSUME WarnedStepOK, NEW E, Meaning(E)
  PROVE  Warnings'
<1>0. StepOK /\ InductiveSSA /\ Shape /\ [Next]_vars /\ TypeOK'
  BY StepFacts DEF WarnedStepOK
<1>1. \A r \in reads' : r[3] <= Len(ops'[r[2]])
  <2>1. ASSUME NEW r, Begins(r) PROVE r[3] <= Len(ops'[r[2]])
    <3>1. active \in Block /\ ops[active] \in Seq(Op)
      BY <1>0, StepFacts, QueryTypes DEF TypeOK
    <3> QED
      BY <2>1, <3>1 DEF Begins
  <2> QED
    BY <1>0, <2>1, ReadsNext, FirstNext
<1>2. \A p \in phis' : p[1] \in Range(blocks)'
  <2>1. Range(blocks) \subseteq Range(blocks)'
    BY <1>0, BlocksGrow DEF Range
  <2>2. ReadUnsealed \/ ReadJoin => top.block \in Range(blocks)
    <3>1. SUFFICES ASSUME ReadUnsealed \/ ReadJoin
                   PROVE  top.block \in Range(blocks)
      OBVIOUS
    <3>2. Running("read")
      BY <3>1 DEF ReadUnsealed, ReadJoin, Missing, Reading
    <3>3. top \in Frames /\ top.at = "read"
      BY <1>0, <3>2, TopFields, ShapeFacts
    <3> QED
      BY <3>3
      DEF WarnedStepOK, StepOK, Construction, Operands, PredecessorsActivated
  <2>3. \A p \in phis : p[1] \in Range(blocks)
    BY DEF WarnedStepOK, Warnings
  <2> QED
    BY <1>0, <2>1, <2>2, <2>3, PhisNext
<1>3. BlocksAreReached'
  BY BlocksAreReachedNext
  DEF WarnedStepOK, Warnings, StepOK, Construction, Operands
<1>4. OnlyAskedFor' /\ EntryIsWarned' /\ (finalised => fault = "none")'
  BY OnlyAskedForNext, EntryIsWarnedNext, FinishedWell
<1>5. \A x \in Range(removals)' : NonSelfArgs(x.phi)' # {}
  BY RemovedHaveArguments DEF Range
<1> QED
  BY <1>1, <1>2, <1>3, <1>4, <1>5 DEF Warnings

-----------------------------------------------------------------------------
(* A read finds what it asks for                                           *)

(* Some register holds the value of v on entry to b.                       *)
Holds(E, v, b) == \E q \in DefinedRegs : VarOf(q) = v /\ <<q, b>> \in E

LEMMA HoldsNext ==
  ASSUME StepOK, NEW E, NEW F, Meaning(E), NextEntries(E, F),
         NEW v, NEW b \in Block, Holds(E, v, b)
  PROVE  Holds(F, v, b)'
<1>1. PICK q \in DefinedRegs : VarOf(q) = v /\ <<q, b>> \in E
  BY DEF Holds
<1>2. E \subseteq F
  BY DEF NextEntries
<1>3. CASE q \in DefinedRegs'
  BY <1>1, <1>2, <1>3 DEF Holds
<1>4. CASE TryTrivial /\ q = top.phi
  <2>1. PICK by \in Reg : ReplacedBy(E, F, by)
    BY <1>4, Replacing DEF Meaning
  <2>2. q \in PhiRegs
    BY <1>1, <1>4, StepFacts, TriedIsPhi
  <2>3. by \in DefinedRegs'
    BY <1>4, <2>1, <2>2, StepFacts, ReplacementIsDefined DEF ReplacedBy
  <2>4. VarOf(by) = v /\ <<by, b>> \in F
    BY <1>1, <1>4, <2>1 DEF ReplacedBy
  <2> QED
    BY <2>3, <2>4 DEF Holds
<1> QED
  BY <1>1, <1>3, <1>4, StepFacts, RemovedDefinition, DefinedGrow

(* A value that leaves a block without a write is one of its entry.        *)
LEMMA LeavesPassed ==
  ASSUME TypeOK, NEW E, NEW q, NEW b \in Block, NoWrite(VarOf(q), b),
         Leaves(E, q, b)
  PROVE  <<q, b>> \in E
<1>1. ops[b] \in Seq(Op)
  BY DEF TypeOK
<1>2. \A j \in 1..((Len(ops[b]) + 1) - 1) : j \in DOMAIN ops[b]
  BY <1>1
<1>3. \A j \in 1..((Len(ops[b]) + 1) - 1) :
        ~(ops[b][j].kind = "write" /\ ops[b][j].reg = q)
  BY <1>2 DEF NoWrite, Assigns
<1> QED
  BY <1>3 DEF Leaves, Reaches, ReachesIn

(* A call that reads leaves its block with what was asked for.             *)
LEMMA ReaderFinds ==
  ASSUME StepOK, NEW E, NEW F, Meaning(E), NextEntries(E, F), Step,
         calls # <<>>, top.at \in {"read", "write"},
         NEW v, NEW b \in Block, v = top.var, b = top.block, NoWrite(v, b)
  PROVE  \/ Holds(F, v, b)'
         \/ \E f \in Frames' :
              f.at \in {"read", "write"} /\ f.var = v /\ f.block = b
<1>0. /\ InductiveSSA /\ Shape /\ TypeOK /\ TypeOK' /\ Live /\ SameVariable
      /\ OneVariable /\ [Next]_vars /\ calls \in Seq(Frame)
  BY StepFacts DEF TypeOK
<1>1. ASSUME ReadLocal PROVE Holds(F, v, b)'
  <2>1. /\ Running("read") /\ top = calls[1] /\ v \in Var
        /\ currentDef[<<v, b>>] # NoReg
    BY <1>0, <1>1, TopFields DEF ReadLocal, Reading, Found
  <2>2. PICK q : q = currentDef[<<v, b>>]
    OBVIOUS
  <2>3. VarOf(q) = v /\ Leaves(E, q, b)
    BY <1>0, <2>1, <2>2 DEF SameVariable, Meaning, CacheLeaves
  <2>4. <<q, b>> \in E
    BY <1>0, <2>3, LeavesPassed
  <2>5. q \in DefinedRegs
    <3>1. q \in Range(currentDef)
      BY <1>0, <2>1, <2>2, InCurrentDef
    <3>2. ~Removing
      BY <2>1 DEF Removing, Removes, Tries, Running
    <3> QED
      BY <1>0, <2>1, <2>2, <3>1, <3>2 DEF Live
  <2> QED
    BY <2>3, <2>4, <2>5, HoldsNext DEF Holds
<1>2. ASSUME ReadUnsealed \/ ReadJoin PROVE Holds(F, v, b)'
  <2>1. v \in Var
    BY <1>0, <1>2, TopFields DEF ReadUnsealed, ReadJoin, Missing, Reading
  <2>2. PICK q \in Reg : q = NewRegister(v)
    BY <1>0, <2>1, QueryTypes
  <2>3. VarOf(q) = v
    BY <2>2 DEF NewRegister, VarOf
  <2>4. q \in DefinedRegs'
    <3>1. PICK p \in phis' : p = <<b, q>>
      BY <1>0, <1>2, <2>2, PhisNext
    <3>2. q \in PhiRegs'
      BY <3>1, InPhiRegs
    <3> QED
      BY <3>2 DEF DefinedRegs
  <2>5. <<q, b>> \in F
    BY <1>2, <2>2 DEF NextEntries, Gains
  <2> QED
    BY <2>3, <2>4, <2>5 DEF Holds
<1>3. ASSUME ReadSinglePredecessor
      PROVE  \E f \in Frames' : f.at = "write" /\ f.var = v /\ f.block = b
  <2>1. PICK f : f = WriteFrame(top.var, top.block)
    OBVIOUS
  <2>2. f \in Frames'
    BY <1>0, <1>3, <2>1, ReadSinglePredecessorMoves
  <2> QED
    BY <2>1, <2>2 DEF WriteFrame
<1>4. ASSUME WriteBack PROVE Holds(F, v, b)'
  <2>1. /\ Running("write") /\ v \in Var /\ top.at = "write" /\ ret \in Reg
    BY <1>0, <1>4, TopFields, GivenResult DEF WriteBack, Consumers
  <2>2. PICK q \in Reg : q = ret
    BY <2>1
  <2>3. VarOf(q) = v
    BY <1>0, <2>1, <2>2, TopIsAbout DEF IsAbout
  <2>4. q \in DefinedRegs'
    <3>1. q \in DefinedRegs
      BY <1>0, <2>1, <2>2 DEF Live
    <3>2. ~TryTrivial
      BY <2>1 DEF TryTrivial, Running
    <3> QED
      BY <1>0, <3>1, <3>2, DefinedGrow
  <2>5. <<q, b>> \in F
    BY <1>4, <2>2 DEF NextEntries, Gains
  <2> QED
    BY <2>3, <2>4, <2>5 DEF Holds
<1> QED
  BY <1>1, <1>2, <1>3, <1>4, StepOf

LEMMA ReadsFindNext ==
  ASSUME WarnedStepOK, NEW E, NEW F, Meaning(E), NextEntries(E, F),
         ReadsFind(E)
  PROVE  ReadsFind(F)'
<1>0. /\ StepOK /\ InductiveSSA /\ Shape /\ [Next]_vars /\ NoFixupFault
      /\ TypeOK /\ TypeOK' /\ Live
  BY StepFacts DEF WarnedStepOK
<1> SUFFICES ASSUME NEW r \in reads', IsFirst(r)'
             PROVE  \/ fault' # "none"
                    \/ Holds(F, r[1], r[2])'
                    \/ /\ NoWrite(r[1], r[2])'
                       /\ \E f \in Frames' : /\ f.at \in {"read", "write"}
                                             /\ f.var = r[1]
                                             /\ f.block = r[2]
  BY DEF ReadsFind, Holds
<1>1. CASE Begins(r)
  <2>1. PICK v \in Var :
          r = <<v, active, Len(ops[active])>> /\ ReadFrame(v, active) \in Frames'
    BY <1>1 DEF Begins
  <2>2. PICK b \in Block : b = active
    BY <1>0, QueryTypes
  <2>3. r[1] = v /\ r[2] = b /\ r[3] = Len(ops[b]) /\ ops' = ops
    BY <1>1, <2>1, <2>2 DEF Begins
  <2>4. DOMAIN ops[b] = 1..Len(ops[b])
    BY <1>0, PrefixKept
  <2>5. NoWrite(v, b)'
    BY <2>3, <2>4 DEF IsFirst, NoWrite, Assigns
  <2>6. PICK f \in Frames' : f = ReadFrame(v, b)
    BY <2>1, <2>2
  <2> QED
    BY <2>3, <2>5, <2>6 DEF ReadFrame
<1>2. CASE r \in reads
  <2>1. PICK v \in Var, b \in Block : v = r[1] /\ b = r[2]
    BY <1>2, FirstNext
  <2>2. IsFirst(r)
    BY <1>2, FirstNext
  <2>3. CASE fault # "none"
    BY <1>0, <2>3, FaultsStay
  <2>4. CASE Holds(E, v, b)
    BY <1>0, <2>1, <2>4, HoldsNext
  <2>5. ASSUME NoWrite(v, b), NEW f \in Frames, f.at \in {"read", "write"},
               f.var = v, f.block = b
        PROVE  \/ Holds(F, v, b)'
               \/ /\ NoWrite(v, b)'
                  /\ \E g \in Frames' :
                       g.at \in {"read", "write"} /\ g.var = v /\ g.block = b
    <3>1. calls # <<>>
      BY <1>0, <2>5, FramesAreTyped
    <3>2. NoWrite(v, b)'
      <4>1. \A w \in Var : ~AddsWrite(w)
        BY <3>1 DEF AddsWrite, Assign, Open, Idle
      <4> QED
        BY <1>0, <2>5, <4>1, NoWriteNext
    <3>3. CASE f \in Frames'
      BY <2>5, <3>2, <3>3
    <3>4. CASE Step /\ f = top
      BY <1>0, <2>5, <3>1, <3>2, <3>4, ReaderFinds
    <3> QED
      BY <1>0, <2>5, <3>3, <3>4, BelowKept
  <2> QED
    BY <1>2, <2>1, <2>2, <2>3, <2>4, <2>5 DEF ReadsFind, Holds
<1> QED
  BY <1>0, <1>1, <1>2, ReadsNext

-----------------------------------------------------------------------------
(* The warnings                                                            *)

Warned ==
  /\ InductiveSSA /\ Construction /\ Graph /\ Stack /\ Warnings
  /\ \E E \in SUBSET (Reg \X Block) : Meaning(E) /\ ReadsFind(E)

LEMMA WarnedInit == Init => Warned
<1> SUFFICES ASSUME Init PROVE Warned
  OBVIOUS
<1>1. /\ InductiveSSA /\ Construction /\ Graph /\ Stack /\ HasMeaning
  BY InitSSA, InitConstruction, InitMeaning
<1>2. PICK E \in SUBSET (Reg \X Block) : Meaning(E)
  BY <1>1 DEF HasMeaning
<1>3. /\ reads = {} /\ phis = {} /\ undefinedRead = {} /\ removals = <<>>
      /\ calls = <<>> /\ fault = "none" /\ blocks = <<Entry>>
  BY DEF Init
<1>4. Frames = {} /\ Range(removals) = {} /\ Range(blocks) = {Entry}
  BY <1>3 DEF Frames, Range
<1>5. BlocksAreReached
  BY <1>4 DEF BlocksAreReached
<1>6. Warnings
  BY <1>3, <1>4, <1>5 DEF Warnings, OnlyAskedFor, EntryIsWarned
<1>7. ReadsFind(E)
  BY <1>3 DEF ReadsFind
<1> QED
  BY <1>1, <1>2, <1>6, <1>7 DEF Warned

LEMMA WarnedNext == Warned /\ [Next]_vars => Warned'
<1> SUFFICES ASSUME Warned, [Next]_vars PROVE Warned'
  OBVIOUS
<1>1. StepOK /\ WarnedStepOK
  BY DEF Warned, WarnedStepOK, StepOK
<1>2. PICK E \in SUBSET (Reg \X Block) : Meaning(E) /\ ReadsFind(E)
  BY DEF Warned
<1>3. PICK F \in SUBSET (Reg \X Block) : NextEntries(E, F)
  BY EntriesExist
<1>4. InductiveSSA' /\ Construction'
  BY ConstructionNext DEF Warned
<1>5. Graph' /\ Stack'
  BY <1>1, <1>2, HasMeaningNext DEF HasMeaning
<1>6. Meaning(F)' /\ ReadsFind(F)'
  BY <1>1, <1>2, <1>3, MeaningNext, ReadsFindNext
<1>7. Warnings'
  BY <1>1, <1>2, WarningsNext
<1> QED
  BY <1>4, <1>5, <1>6, <1>7 DEF Warned

(* In a finished subroutine the value of v on entry to a block comes from  *)
(* every predecessor that does not assign v.                               *)
LEMMA HeldBefore ==
  ASSUME InductiveSSA, Construction, finalised, NEW E, Meaning(E),
         NEW v, NEW c \in Block, NEW d \in Block,
         c \in Range(preds[d]), ~Writes(v, c), Holds(E, v, d)
  PROVE  Holds(E, v, c)
<1>0. /\ TypeOK /\ Shape /\ OthersComplete /\ Finished /\ SameVariable
      /\ UsesAreDefined
  BY DEF InductiveSSA, Construction, Operands, Webs, Definitions
<1>1. PICK q \in DefinedRegs : VarOf(q) = v /\ <<q, d>> \in E
  BY DEF Holds
<1>2. NoWrite(v, c)
  BY <1>0, WritesOf
<1>3. CASE <<d, q>> \notin phis
  <2>1. Leaves(E, q, c)
    BY <1>1, <1>3 DEF Meaning, EntriesOK, Inherited
  <2>2. <<q, c>> \in E
    BY <1>0, <1>1, <1>2, <2>1, LeavesPassed
  <2> QED
    BY <1>1, <2>2 DEF Holds
<1>4. CASE <<d, q>> \in phis
  <2>1. PICK p \in phis : p = <<d, q>>
    BY <1>4
  <2>2. p[1] = d /\ p[2] = q
    BY <2>1
  <2>3. calls = <<>> /\ Frames = {}
    BY <1>0, FramesAreTyped DEF Shape
  <2>4. ~IsWaiting(q) /\ ~IsFilling(q)
    BY <1>0, <2>3 DEF Finished, IsWaiting, IsFilling, Range
  <2>5. Through(q) = Range(preds[d])
    BY <1>0, <2>2, <2>4 DEF OthersComplete, PhiComplete
  <2>6. PICK a \in phiArgs : a.phi = q /\ a.through = c
    BY <2>5, InThrough
  <2>7. q \in PhiRegs
    BY <2>1, <2>2, InPhiRegs
  <2>8. PICK x \in DefinedRegs : x = a.value
    BY <1>0, <2>6, <2>7 DEF UsesAreDefined
  <2>9. VarOf(x) = v /\ Leaves(E, x, c)
    BY <1>0, <1>1, <2>6, <2>7, <2>8 DEF SameVariable, Meaning, ArgsLeave
  <2>10. <<x, c>> \in E
    BY <1>0, <1>2, <2>9, LeavesPassed
  <2> QED
    BY <2>9, <2>10 DEF Holds
<1> QED
  BY <1>3, <1>4

LEMMA UnassignedIsAsked ==
  ASSUME NEW v
  PROVE  ReadsUnassigned(v) <=> IsAsked(v, Entry)
<1>1. ReachUnassigned(v) = Follows(v, Entry)
  BY DEF ReachUnassigned, Follows, IsClosed
<1> QED
  BY <1>1 DEF ReadsUnassigned, IsAsked, IsFirst, Assigns

(* In a finished subroutine a variable that is not a parameter has been    *)
(* warned about exactly when some path from the entry reaches a read of it *)
(* with no assignment before it: no warning is missing, and none is given  *)
(* for a read that always finds a value.                                   *)
THEOREM WarningsAreExact == Spec => []WarnedWhenUnassigned
<1>1. ASSUME Warned, finalised, NEW v \in Var \ Param, v \in undefinedRead
      PROVE  ReadsUnassigned(v)
  BY <1>1, UnassignedIsAsked DEF Warned, Warnings, OnlyAskedFor
<1>2. ASSUME Warned, finalised, NEW v \in Var \ Param, ReadsUnassigned(v)
      PROVE  v \in undefinedRead
  <2>1. /\ InductiveSSA /\ Construction /\ Shape /\ TypeOK
        /\ EntryIsWarned /\ fault = "none" /\ Entry \in Block
    BY <1>2, ConstantsAssumption
    DEF Warned, Construction, InductiveSSA, Warnings
  <2>2. PICK E \in SUBSET (Reg \X Block) : Meaning(E) /\ ReadsFind(E)
    BY <1>2 DEF Warned
  <2>3. Frames = {}
    BY <1>2, <2>1, FramesAreTyped DEF Shape
  <2>4. PICK r \in reads :
          r[1] = v /\ r[2] \in Follows(v, Entry) /\ IsFirst(r)
    BY <1>2, UnassignedIsAsked DEF IsAsked
  <2>5. Holds(E, v, r[2])
    BY <2>1, <2>2, <2>3, <2>4 DEF ReadsFind, Holds
  (* Backwards along the path to the read, v is held on entry.             *)
  <2>6. Holds(E, v, Entry)
    <3>1. PICK S \in SUBSET Block : S = {b \in Block : ~Holds(E, v, b)}
      OBVIOUS
    <3>2. IsClosed(v, S)
      BY <1>2, <2>1, <2>2, <3>1, HeldBefore DEF IsClosed
    <3>3. r[2] \notin S
      BY <2>5, <3>1
    <3>4. Entry \notin S
      BY <2>4, <3>2, <3>3 DEF Follows
    <3> QED
      BY <2>1, <3>1, <3>4
  <2>7. PICK q \in DefinedRegs : VarOf(q) = v /\ <<q, Entry>> \in E
    BY <2>6 DEF Holds
  <2>8. <<Entry, q>> \in phis
    <3>1. SUFFICES ASSUME <<Entry, q>> \notin phis PROVE FALSE
      OBVIOUS
    <3>2. q \in ParamRegs
      BY <2>1, <2>2, <2>7, <3>1 DEF Meaning, EntriesOK, Inherited
    <3>3. VarOf(q) \in Param
      BY <3>2 DEF ParamRegs, VarOf
    <3> QED
      BY <1>2, <2>7, <3>3
  <2>9. PICK p \in phis : p = <<Entry, q>>
    BY <2>8
  <2>10. p[1] = Entry /\ p[2] = q
    BY <2>9
  <2> QED
    BY <2>1, <2>3, <2>7, <2>10 DEF EntryIsWarned
<1>3. Warned => WarnedWhenUnassigned
  BY <1>1, <1>2 DEF WarnedWhenUnassigned
<1> QED
  BY <1>3, WarnedInit, WarnedNext, PTL DEF Spec

-----------------------------------------------------------------------------
(* The calls between two operations of a client                            *)

(* What a step of a call does to the stack.                                *)
LEMMA StepStack ==
  ASSUME StepOK, Step
  PROVE  /\ calls \in Seq(Frame) /\ calls # <<>> /\ fault = "none"
         /\ top \in Frames /\ UNCHANGED <<blocks, preds, terminated>>
         /\ \/ calls' = calls \/ calls' = Tail(calls)
            \/ \E f \in Frame : Become(<<f>>)
            \/ \E f, g \in Frame : Become(<<f, g>>)
            \/ calls' = <<>> /\ fault' # "none"
<1>0. /\ InductiveSSA /\ Shape /\ [Next]_vars /\ NoFixupFault
      /\ calls \in Seq(Frame)
  BY StepFacts DEF TypeOK
<1>1. calls # <<>> /\ fault = "none"
  BY RunningStep
  DEF Step, ReadLocal, ReadUnsealed, ReadSinglePredecessor, ReadJoin,
      WriteBack, ReadOperand, AppendOperand, OperandsComplete,
      CollectResult, FixupDefinitions, FixupComplete, TryUndefined,
      TryNotTrivial, TryTrivial, TryUsers, StartSeal, CompletePhi,
      SealComplete, AddUse, FinaliseSeal, FinaliseComplete, Running,
      Missing, Reading
<1>2. top \in Frames
  BY <1>0, <1>1, ShapeFacts
<1>3. UNCHANGED <<blocks, preds, terminated>>
  BY DEF Step, ReadLocal, ReadUnsealed, ReadSinglePredecessor, ReadJoin,
      WriteBack, ReadOperand, AppendOperand, OperandsComplete,
      CollectResult, FixupDefinitions, FixupComplete, TryUndefined,
      TryNotTrivial, TryTrivial, TryUsers, StartSeal, CompletePhi,
      SealComplete, AddUse, FinaliseSeal, FinaliseComplete, cfgVars
<1> DEFINE Moves == \/ calls' = calls \/ calls' = Tail(calls)
                    \/ \E f \in Frame : Become(<<f>>)
                    \/ \E f, g \in Frame : Become(<<f, g>>)
                    \/ calls' = <<>> /\ fault' # "none"
<1> SUFFICES Moves
  BY <1>0, <1>1, <1>2, <1>3
<1>4. CASE ReadSinglePredecessor
  BY <1>0, <1>4, ReadSinglePredecessorMoves
<1>5. CASE ReadJoin
  BY <1>0, <1>5, ReadJoinMoves
<1>6. CASE ReadOperand
  BY <1>0, <1>6, ReadOperandMoves
<1>7. CASE AppendOperand
  BY <1>0, <1>7, AppendOperandMoves
<1>8. CASE OperandsComplete
  BY <1>0, <1>8, OperandsCompleteMoves
<1>9. CASE CollectResult
  BY <1>0, <1>9, CollectResultMoves
<1>10. CASE TryTrivial
  BY <1>0, <1>10, TryTrivialMoves
<1>11. CASE TryUsers
  BY <1>0, <1>11, TryUsersMoves
<1>12. CASE CompletePhi
  BY <1>0, <1>12, CompletePhiMoves
<1>13. CASE StartSeal
  <2>1. CASE calls' = <<>>
    <3>1. Become(<<SealingFrame(top.block, incomplete[top.block])>>) =>
            calls' # <<>>
      BY <1>0, <1>1 DEF Become
    <3> QED
      BY <1>13, <2>1, <3>1 DEF StartSeal, Raise
  <2> QED
    BY <1>0, <1>13, <2>1, StartSealMoves
<1>14. CASE FinaliseSeal
  BY <1>0, <1>14, FinaliseSealMoves
<1>15. CASE FinaliseComplete
  BY <1>15 DEF FinaliseComplete, Raise, Return
<1>16. CASE FixupDefinitions
  BY <1>0, <1>16 DEF NoFixupFault
<1> QED
  BY <1>0, <1>4, <1>5, <1>6, <1>7, <1>8, <1>9, <1>10, <1>11, <1>12, <1>13,
     <1>14, <1>15, <1>16, ReturnMoves DEF Step

(* The frame at the bottom stays there, but for a read.                    *)
Bottom == calls[Len(calls)]

LEMMA BottomNext ==
  ASSUME StepOK, Step, fault' = "none",
         Bottom.at \in {"read", "write"}
  PROVE  /\ calls' # <<>> => (Bottom').at \in {"read", "write"}
         /\ calls' = <<>> => ret' \in DefinedRegs'
<1>0. /\ InductiveSSA /\ Shape /\ calls \in Seq(Frame) /\ calls # <<>>
      /\ top = calls[1] /\ Len(calls) \in Nat /\ Len(calls) >= 1
  BY StepFacts, StepStack, Positions
<1>1. CASE Len(calls) > 1
  <2>1. CASE calls' = calls
    BY <1>0, <2>1 DEF Bottom
  <2>2. CASE calls' = Tail(calls)
    <3>1. /\ Len(calls') = Len(calls) - 1
          /\ \A i \in 1..(Len(calls) - 1) : calls'[i] = calls[i + 1]
      BY <1>0, <2>2, PositionsReturn
    <3>2. calls'[Len(calls')] = calls[Len(calls)] /\ calls' # <<>>
      BY <1>0, <1>1, <3>1
    <3> QED
      BY <3>2 DEF Bottom
  <2>3. ASSUME NEW f \in Frame, Become(<<f>>)
        PROVE  calls'[Len(calls')] = calls[Len(calls)] /\ calls' # <<>>
    BY <1>0, <1>1, <2>3, PositionsOne
  <2>4. ASSUME NEW f \in Frame, NEW g \in Frame, Become(<<f, g>>)
        PROVE  calls'[Len(calls')] = calls[Len(calls)] /\ calls' # <<>>
    <3>1. /\ Len(calls') = Len(calls) + 1
          /\ \A i \in 3..(Len(calls) + 1) : calls'[i] = calls[i - 1]
      BY <1>0, <2>4, PositionsTwo
    <3>2. Len(calls) + 1 \in 3..(Len(calls) + 1)
      BY <1>0, <1>1
    <3> QED
      BY <1>0, <3>1, <3>2
  <2> QED
    BY <2>1, <2>2, <2>3, <2>4, StepStack DEF Bottom
<1>2. CASE Len(calls) = 1
  <2>1. top.at \in {"read", "write"}
    BY <1>0, <1>2 DEF Bottom
  <2>5. Len(Tail(calls)) = 0 /\ Tail(calls) \in Seq(Frame)
    BY <1>0, <1>2
  <2>2. CASE ReadSinglePredecessor \/ ReadJoin
    <3>1. PICK f \in Frame, g \in Frame :
            Become(<<f, g>>) /\ g = WriteFrame(top.var, top.block)
      BY <1>0, <2>2, ReadSinglePredecessorMoves, ReadJoinMoves
    <3>2. Len(calls') = 2 /\ calls'[2] = g
      BY <1>0, <1>2, <3>1, PositionsTwo
    <3> QED
      BY <3>1, <3>2, FrameKinds DEF Bottom
  <2>3. CASE ReadLocal \/ ReadUnsealed \/ WriteBack
    <3>1. calls' = <<>>
      BY <1>0, <2>5, <2>3, ReturnMoves
    <3>2. /\ top.var \in Var /\ top.block \in Block
          /\ currentDef'[<<top.var, top.block>>] = ret' /\ ret' \in Reg
      BY <2>3, ReadResult
    <3>3. Live' /\ TypeOK'
      BY ConstructionNext, StepFacts DEF StepOK, Construction, Definitions
    <3>4. Range(currentDef)' \subseteq DefinedRegs' \cup {NoReg}
      BY <3>1, <3>3 DEF Live, Removing
    <3>5. <<top.var, top.block>> \in DOMAIN currentDef'
      BY <3>2, <3>3 DEF TypeOK
    <3>6. ret' \in Range(currentDef)'
      BY <3>2, <3>5 DEF Range
    <3>7. ret' # NoReg
      BY <3>2, ConstantsAssumption DEF Reg
    <3> QED
      BY <3>1, <3>4, <3>6, <3>7
  <2> QED
    BY <2>1, <2>2, <2>3, StepOf
<1>3. \A n \in Nat : n >= 1 => n > 1 \/ n = 1
  OBVIOUS
<1> QED
  BY <1>0, <1>1, <1>2, <1>3

(* Where the frames come from that seal blocks.                            *)
LEMMA NewSeals ==
  ASSUME StepOK, Step, NEW f \in Frames', f.at \in {"seal", "finalise"}
  PROVE  \/ f \in Frames
         \/ /\ FinaliseSeal /\ top.at = "finalise" /\ top \in Frames
            /\ \E b \in top.blocks :
                 f \in {SealFrame(b), FinaliseFrame(top.blocks \ {b})}
<1>0. /\ InductiveSSA /\ Shape /\ [Next]_vars
      /\ calls \in Seq(Frame) /\ calls # <<>> /\ top \in Frames
  BY StepFacts, StepStack
<1>1. Below \subseteq Frames
  BY <1>0, ShapeFacts
<1>2. CASE ReadSinglePredecessor
  BY <1>0, <1>1, <1>2, ReadSinglePredecessorMoves, FrameKinds
<1>3. CASE ReadJoin
  BY <1>0, <1>1, <1>3, ReadJoinMoves, FrameKinds
<1>4. CASE ReadOperand
  BY <1>0, <1>1, <1>4, ReadOperandMoves, FrameKinds
<1>5. CASE AppendOperand
  BY <1>0, <1>1, <1>5, AppendOperandMoves, FrameKinds
<1>6. CASE OperandsComplete
  BY <1>0, <1>1, <1>6, OperandsCompleteMoves, FrameKinds
<1>7. CASE CollectResult
  BY <1>0, <1>1, <1>7, CollectResultMoves, FrameKinds
<1>8. CASE TryTrivial
  BY <1>0, <1>1, <1>8, TryTrivialMoves, FrameKinds
<1>9. CASE TryUsers
  <2>1. CASE Frames' = Below
    BY <1>1, <2>1
  <2>2. CASE Frames' # Below
    <3>1. PICK u \in top.users :
            Frames' = {PhiFrame("try", u), UsersFrame(top.users \ {u})}
                      \cup Below
      BY <1>0, <1>9, <2>2, TryUsersMoves
    <3> QED
      BY <1>1, <3>1, FrameKinds
  <2> QED
    BY <2>1, <2>2
<1>10. CASE CompletePhi
  BY <1>0, <1>1, <1>10, CompletePhiMoves, FrameKinds
<1>11. CASE StartSeal
  BY <1>0, <1>1, <1>11, StartSealMoves, FrameKinds
<1>12. CASE FinaliseSeal
  <2>1. PICK b \in top.blocks :
          Frames' = {SealFrame(b), FinaliseFrame(top.blocks \ {b})} \cup Below
    BY <1>0, <1>12, FinaliseSealMoves
  <2>2. top.at = "finalise"
    BY <1>12 DEF FinaliseSeal, Running, top
  <2> QED
    BY <1>0, <1>1, <1>12, <2>1, <2>2
<1>13. CASE FixupDefinitions
  BY <1>0, <1>13, FixupDefinitionsMoves DEF Frames
<1> QED
  BY <1>0, <1>1, <1>2, <1>3, <1>4, <1>5, <1>6, <1>7, <1>8, <1>9, <1>10,
     <1>11, <1>12, <1>13, ReturnMoves, FinaliseCompleteMoves DEF Step
=============================================================================
