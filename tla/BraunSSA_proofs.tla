-------------------------- MODULE BraunSSA_proofs --------------------------
(***************************************************************************)
(* What BraunSSA guarantees for every graph, every number of variables and *)
(* every client, and the first layers of the invariant of                  *)
(* BraunSSA_invariant: the shape of the call stack, the variable that a    *)
(* read is about, the age of the phis whose operands are being gathered.   *)
(***************************************************************************)
EXTENDS BraunSSA_invariant, SequenceTheorems, TLAPS

-----------------------------------------------------------------------------
(* The call stack                                                          *)

(* What the kind of a frame says about its fields.                         *)
LEMMA FrameFields ==
  ASSUME NEW f \in Frame
  PROVE  /\ f.at \in {"read", "write"} => f.var \in Var /\ f.block \in Block
         /\ f.at \in {"operands", "operand"} =>
              f.phi \in Reg /\ f.block \in Block /\ f.todo \in Seq(Block)
         /\ f.at = "operand" => f.todo # <<>>
         /\ f.at \in {"try", "result", "fixup"} => f.phi \in Reg
         /\ f.at = "users" => f.users \subseteq Reg
         /\ f.at = "seal" => f.block \in Block
         /\ f.at = "sealing" => f.block \in Block /\ f.todo \in Seq(Reg)
         /\ f.at = "finalise" => f.blocks \subseteq Block
  BY DEF Frame

(* The constructors of frames build frames.                                *)
LEMMA FrameTypes ==
  /\ UseFrame \in Frame
  /\ \A v \in Var, b \in Block : ReadFrame(v, b) \in Frame
                                 /\ WriteFrame(v, b) \in Frame
  /\ \A p \in Reg, b \in Block, ps \in Seq(Block) :
       /\ OperandsFrame(p, b, ps) \in Frame
       /\ ps # <<>> => OperandFrame(p, b, ps) \in Frame
  /\ \A p \in Reg : \A k \in {"try", "result", "fixup"} :
       PhiFrame(k, p) \in Frame
  /\ \A us \in SUBSET Reg : UsersFrame(us) \in Frame
  /\ \A b \in Block : SealFrame(b) \in Frame
  /\ \A b \in Block, ps \in Seq(Reg) : SealingFrame(b, ps) \in Frame
  /\ \A bs \in SUBSET Block : FinaliseFrame(bs) \in Frame
  BY DEF Frame, UseFrame, ReadFrame, WriteFrame, OperandsFrame, OperandFrame,
         PhiFrame, UsersFrame, SealFrame, SealingFrame, FinaliseFrame

(* The stack below the top frame, and with one or two new frames on it.    *)
LEMMA StackShape ==
  ASSUME calls \in Seq(Frame), calls # <<>>
  PROVE  /\ top \in Frame /\ top = calls[1]
         /\ Tail(calls) \in Seq(Frame)
         /\ Len(Tail(calls)) = Len(calls) - 1
         /\ \A i \in 1..(Len(calls) - 1) : Tail(calls)[i] = calls[i + 1]
         /\ \A f \in Frame :
              /\ <<f>> \o Tail(calls) \in Seq(Frame)
              /\ Len(<<f>> \o Tail(calls)) = Len(calls)
              /\ (<<f>> \o Tail(calls))[1] = f
              /\ \A i \in 2..Len(calls) : (<<f>> \o Tail(calls))[i] = calls[i]
         /\ \A f, g \in Frame :
              /\ <<f, g>> \o Tail(calls) \in Seq(Frame)
              /\ Len(<<f, g>> \o Tail(calls)) = Len(calls) + 1
              /\ (<<f, g>> \o Tail(calls))[1] = f
              /\ (<<f, g>> \o Tail(calls))[2] = g
              /\ \A i \in 3..(Len(calls) + 1) :
                   (<<f, g>> \o Tail(calls))[i] = calls[i - 1]
<1>1. top \in Frame /\ top = calls[1]
  BY DEF top
<1>2. /\ Tail(calls) \in Seq(Frame)
      /\ Len(Tail(calls)) = Len(calls) - 1
      /\ \A i \in 1..(Len(calls) - 1) : Tail(calls)[i] = calls[i + 1]
  OBVIOUS
<1>3. ASSUME NEW f \in Frame
      PROVE  /\ <<f>> \o Tail(calls) \in Seq(Frame)
             /\ Len(<<f>> \o Tail(calls)) = Len(calls)
             /\ (<<f>> \o Tail(calls))[1] = f
             /\ \A i \in 2..Len(calls) : (<<f>> \o Tail(calls))[i] = calls[i]
  BY <1>2
<1>4. ASSUME NEW f \in Frame, NEW g \in Frame
      PROVE  /\ <<f, g>> \o Tail(calls) \in Seq(Frame)
             /\ Len(<<f, g>> \o Tail(calls)) = Len(calls) + 1
             /\ (<<f, g>> \o Tail(calls))[1] = f
             /\ (<<f, g>> \o Tail(calls))[2] = g
             /\ \A i \in 3..(Len(calls) + 1) :
                  (<<f, g>> \o Tail(calls))[i] = calls[i - 1]
  BY <1>2
<1> QED
  BY <1>1, <1>2, <1>3, <1>4

CallsOK == calls \in Seq(Frame) /\ ret \in Reg \cup {NoReg} /\ ResultsAreGiven

(* A frame returns: with a register, or silently with the last result.     *)
LEMMA ReturnOK ==
  ASSUME CallsOK, calls # <<>>, NEW r, Return(r),
         r \in Reg \/ (r = ret /\ top.at \in Silent)
  PROVE  CallsOK'
<1>1. calls' \in Seq(Frame) /\ Len(calls') = Len(calls) - 1
  BY StackShape DEF CallsOK, Return
<1>2. \A i \in 1..(Len(calls) - 1) : calls'[i] = calls[i + 1]
  BY StackShape DEF CallsOK, Return
<1>3. ret' \in Reg \cup {NoReg}
  BY DEF CallsOK, Return
<1>4. ASSUME NEW i \in 1..(Len(calls') - 1), calls'[i].at \in Silent
      PROVE  calls'[i + 1].at \notin Consumers
  BY <1>1, <1>2, <1>4 DEF CallsOK, ResultsAreGiven
<1>5. ASSUME calls' # <<>>, Head(calls').at \in Consumers
      PROVE  ret' \in Reg
  <2>1. CASE r \in Reg
    BY <2>1 DEF Return
  <2>2. CASE r = ret /\ top.at \in Silent
    <3>1. Head(calls') = calls[2] /\ 1 \in 1..(Len(calls) - 1)
      BY <1>1, <1>2, <1>5
    <3>2. calls[1].at \in Silent
      BY <2>2, StackShape DEF CallsOK
    <3> QED
      BY <1>5, <3>1, <3>2 DEF CallsOK, ResultsAreGiven
  <2> QED
    BY <2>1, <2>2
<1> QED
  BY <1>1, <1>3, <1>4, <1>5 DEF CallsOK, ResultsAreGiven

(* A frame goes on as another one.                                         *)
LEMMA BecomeOneOK ==
  ASSUME CallsOK, calls # <<>>, NEW f \in Frame, Become(<<f>>),
         ret' \in Reg \cup {NoReg},
         f.at \in Silent => top.at \in Silent,
         f.at \in Consumers => ret' \in Reg
  PROVE  CallsOK'
<1>1. /\ calls' \in Seq(Frame)
      /\ Len(calls') = Len(calls)
      /\ calls'[1] = f
      /\ \A i \in 2..Len(calls) : calls'[i] = calls[i]
  BY StackShape DEF CallsOK, Become
<1>2. top = calls[1]
  BY StackShape DEF CallsOK
<1>3. ASSUME NEW i \in 1..(Len(calls') - 1), calls'[i].at \in Silent
      PROVE  calls'[i + 1].at \notin Consumers
  <2>1. calls[i].at \in Silent /\ calls'[i + 1] = calls[i + 1]
    <3>1. CASE i = 1
      BY <1>1, <1>2, <1>3, <3>1
    <3>2. CASE i # 1
      BY <1>1, <1>3, <3>2
    <3> QED
      BY <3>1, <3>2
  <2> QED
    BY <1>1, <1>3, <2>1 DEF CallsOK, ResultsAreGiven
<1>4. Head(calls') = f
  BY <1>1
<1> QED
  BY <1>1, <1>3, <1>4 DEF CallsOK, ResultsAreGiven

(* A frame calls another one.                                              *)
LEMMA BecomeTwoOK ==
  ASSUME CallsOK, calls # <<>>, NEW f \in Frame, NEW g \in Frame,
         Become(<<f, g>>), ret' \in Reg \cup {NoReg},
         f.at \notin Consumers,
         f.at \in Silent => g.at \notin Consumers,
         g.at \in Silent => top.at \in Silent
  PROVE  CallsOK'
<1>1. /\ calls' \in Seq(Frame)
      /\ Len(calls') = Len(calls) + 1
      /\ calls'[1] = f
      /\ calls'[2] = g
      /\ \A i \in 3..(Len(calls) + 1) : calls'[i] = calls[i - 1]
  BY StackShape DEF CallsOK, Become
<1>2. top = calls[1]
  BY StackShape DEF CallsOK
<1>3. ASSUME NEW i \in 1..(Len(calls') - 1), calls'[i].at \in Silent
      PROVE  calls'[i + 1].at \notin Consumers
  <2>1. CASE i = 1
    BY <1>1, <1>3, <2>1
  <2>2. CASE i > 1
    <3>1. calls'[i + 1] = calls[i] /\ i - 1 \in 1..(Len(calls) - 1)
      BY <1>1, <2>2
    <3>2. calls[i - 1].at \in Silent
      <4>1. CASE i = 2
        BY <1>1, <1>2, <1>3, <4>1
      <4>2. CASE i > 2
        BY <1>1, <1>3, <4>2
      <4> QED
        BY <2>2, <4>1, <4>2
    <3>3. calls[(i - 1) + 1].at \notin Consumers
      BY <3>1, <3>2 DEF CallsOK, ResultsAreGiven
    <3> QED
      BY <3>1, <3>3
  <2> QED
    BY <2>1, <2>2
<1>4. Head(calls') = f
  BY <1>1
<1> QED
  BY <1>1, <1>3, <1>4 DEF CallsOK, ResultsAreGiven

(* The client calls the builder; an error ends all calls.                  *)
LEMMA PushOK ==
  ASSUME CallsOK, calls = <<>>, UNCHANGED ret, NEW f \in Frame, NEW g \in Frame,
         f.at \notin Consumers, f.at \notin Silent,
         Push(<<f>>) \/ Push(<<f, g>>)
  PROVE  CallsOK'
<1>1. calls' \in {<<f>>, <<f, g>>}
  BY DEF Push
<1> QED
  BY <1>1 DEF CallsOK, ResultsAreGiven

LEMMA PushSilentOK ==
  ASSUME CallsOK, calls = <<>>, UNCHANGED ret, NEW f \in Frame,
         f.at \notin Consumers, Push(<<f>>) \/ Push(<<>>)
  PROVE  CallsOK'
<1>1. CASE Push(<<f>>)
  BY <1>1 DEF Push, CallsOK, ResultsAreGiven
<1>2. CASE Push(<<>>)
  <2>1. calls' = <<>>
    BY <1>2 DEF Push
  <2> QED
    BY <2>1 DEF CallsOK, ResultsAreGiven
<1> QED
  BY <1>1, <1>2

LEMMA RaiseOK ==
  ASSUME CallsOK, UNCHANGED ret, NEW e, Raise(e)
  PROVE  CallsOK'
  BY DEF CallsOK, ResultsAreGiven, Raise

-----------------------------------------------------------------------------
(* Types                                                                   *)

(* What the queries on a well-typed state return.                          *)
LEMMA QueryTypes ==
  ASSUME TypeOK
  PROVE  /\ active \in Block
         /\ PhiRegs \subseteq Reg
         /\ \A v \in Var : NewRegister(v) \in Reg
         /\ \A r \in Reg : VarOf(r) \in Var
         /\ \A p \in Reg : NonSelfArgs(p) \subseteq Reg
                           /\ UsersOf(p) \subseteq Reg
         /\ \A v \in Var, b \in Block :
              currentDef[<<v, b>>] \in Reg \cup {NoReg}
<1>1. active \in Block
  BY DEF TypeOK, active
<1>2. PhiRegs \subseteq Reg
  BY DEF TypeOK, PhiRegs
<1>3. \A v \in Var : NewRegister(v) \in Reg
  BY DEF TypeOK, NewRegister, Reg
<1>4. \A r \in Reg : VarOf(r) \in Var
  BY DEF VarOf, Reg
<1>5. \A p \in Reg : NonSelfArgs(p) \subseteq Reg
  BY DEF TypeOK, NonSelfArgs, PhiArg
<1>6. \A p \in Reg : UsersOf(p) \subseteq Reg
  BY <1>2 DEF UsersOf
<1>7. \A v \in Var, b \in Block : currentDef[<<v, b>>] \in Reg \cup {NoReg}
  BY DEF TypeOK
<1> QED
  BY <1>1, <1>2, <1>3, <1>4, <1>5, <1>6, <1>7

(* A register that is defined is a register.                               *)
LEMMA UsedRegs ==
  ASSUME TypeOK
  PROVE  DefinedRegs \subseteq Reg
<1>1. PhiRegs \subseteq Reg
  BY QueryTypes
<1>2. ParamRegs \subseteq Reg
  BY ConstantsAssumption DEF ParamRegs, Reg
<1>3. WrittenRegs \subseteq Reg
  <2>1. ASSUME NEW b \in Block, NEW o \in Range(ops[b]) PROVE o.reg \in Reg
    <3>1. ops[b] \in Seq(Op)
      BY DEF TypeOK
    <3>2. PICK i \in DOMAIN ops[b] : o = ops[b][i]
      BY <2>1 DEF Range
    <3>3. o \in Op
      BY <3>1, <3>2
    <3> QED
      BY <3>3 DEF Op
  <2> QED
    BY <2>1 DEF WrittenRegs
<1> QED
  BY <1>1, <1>2, <1>3 DEF DefinedRegs

(* Writing a register in the cache of definitions.                         *)
LEMMA WriteTypes ==
  ASSUME TypeOK, NEW v \in Var, NEW b \in Block, NEW r \in Reg,
         WriteVariable(v, b, r)
  PROVE  currentDef' \in [Var \X Block -> Reg \cup {NoReg}]
  BY DEF TypeOK, WriteVariable

(* A new phi.                                                              *)
LEMMA NewPhiTypes ==
  ASSUME TypeOK, NEW v \in Var, NEW b \in Block, NewPhi(v, b)
  PROVE  versions' \in [Var -> Nat] /\ phis' \subseteq Block \X Reg
<1>1. versions' \in [Var -> Nat]
  BY DEF TypeOK, NewPhi, BumpVersion
<1>2. NewRegister(v) \in Reg
  BY QueryTypes
<1>3. phis' \subseteq Block \X Reg
  BY <1>2 DEF TypeOK, NewPhi
<1> QED
  BY <1>1, <1>3

(* A new op in the active block.                                           *)
LEMMA AddOpTypes ==
  ASSUME TypeOK, NEW o \in Op, AddOp(o)
  PROVE  ops' \in [Block -> Seq(Op)]
<1>1. active \in Block
  BY QueryTypes
<1>2. Append(ops[active], o) \in Seq(Op)
  BY <1>1 DEF TypeOK
<1> QED
  BY <1>1, <1>2 DEF TypeOK, AddOp

(* The replacement of a phi by a register.                                 *)
LEMMA ReplacePhiTypes ==
  ASSUME TypeOK, NEW p \in Reg, NEW by \in Reg, ReplacePhi(p, by)
  PROVE  /\ phis' \subseteq Block \X Reg
         /\ phiArgs' \subseteq PhiArg
         /\ ops' \in [Block -> Seq(Op)]
<1>1. phis' \subseteq Block \X Reg
  BY DEF TypeOK, ReplacePhi, ReplaceInOps
<1>2. ASSUME NEW a \in phiArgs
      PROVE  (IF a.phi \in PhiRegs \ {p}
                THEN [a EXCEPT !.value = Replace(@, p, by)] ELSE a) \in PhiArg
  BY DEF TypeOK, PhiArg, Replace
<1>3. phiArgs' \subseteq PhiArg
  BY <1>2 DEF ReplacePhi, ReplaceInOps
<1>4. ASSUME NEW b \in Block
      PROVE  [i \in DOMAIN ops[b] |->
                IF ops[b][i].kind = "write"
                  THEN ops[b][i]
                  ELSE [ops[b][i] EXCEPT !.reg = Replace(@, p, by)]]
             \in Seq(Op)
  <2>1. ops[b] \in Seq(Op)
    BY DEF TypeOK
  <2>2. ASSUME NEW i \in DOMAIN ops[b]
        PROVE  (IF ops[b][i].kind = "write"
                  THEN ops[b][i]
                  ELSE [ops[b][i] EXCEPT !.reg = Replace(@, p, by)]) \in Op
    <3>1. ops[b][i] \in Op
      BY <2>1
    <3> QED
      BY <3>1 DEF Op, Replace
  <2>3. Len(ops[b]) \in Nat /\ DOMAIN ops[b] = 1..Len(ops[b])
    BY <2>1
  <2> QED
    BY <2>2, <2>3, SeqDef
<1>5. ops' \in [Block -> Seq(Op)]
  BY <1>4 DEF ReplacePhi, ReplaceInOps
<1> QED
  BY <1>1, <1>3, <1>5

(* The types hold at the start.                                            *)
LEMMA InitTypes == Init => TypeOK /\ ResultsAreGiven
<1> SUFFICES ASSUME Init PROVE TypeOK /\ ResultsAreGiven
  OBVIOUS
<1>1. currentDef \in [Var \X Block -> Reg \cup {NoReg}]
  BY ConstantsAssumption DEF Init, Reg
<1>2. blocks \in Seq(Block) \ {<<>>}
  BY ConstantsAssumption DEF Init
<1>3. ResultsAreGiven
  BY DEF Init, ResultsAreGiven
<1>4. sealed \subseteq Block
  BY ConstantsAssumption DEF Init
<1>5. /\ preds \in [Block -> Seq(Block)]
      /\ ops \in [Block -> Seq(Op)]
      /\ incomplete \in [Block -> Seq(Reg)]
      /\ versions \in [Var -> Nat]
      /\ calls \in Seq(Frame)
      /\ removals \in Seq(Removal)
  BY DEF Init
<1> QED
  BY <1>1, <1>2, <1>3, <1>4, <1>5 DEF Init, TypeOK, Faults

(* The types of all but the stack and the result of the last call.         *)
DataOK ==
  /\ blocks \in Seq(Block) \ {<<>>}
  /\ preds \in [Block -> Seq(Block)]
  /\ terminated \subseteq Block
  /\ ops \in [Block -> Seq(Op)]
  /\ reads \subseteq Var \X Block \X Nat
  /\ sealed \subseteq Block
  /\ currentDef \in [Var \X Block -> Reg \cup {NoReg}]
  /\ incomplete \in [Block -> Seq(Reg)]
  /\ versions \in [Var -> Nat]
  /\ phis \subseteq Block \X Reg
  /\ phiArgs \subseteq PhiArg
  /\ undefinedRead \subseteq Var
  /\ removals \in Seq(Removal)
  /\ fault \in Faults
  /\ finalised \in BOOLEAN

LEMMA TypeParts == TypeOK /\ ResultsAreGiven <=> DataOK /\ CallsOK
  BY DEF TypeOK, DataOK, CallsOK

(* The frame on top while a kind of frame runs.                            *)
LEMMA RunningFrame ==
  ASSUME CallsOK, NEW k, Running(k)
  PROVE  calls # <<>> /\ top \in Frame /\ top.at = k
  BY StackShape DEF CallsOK, Running, top

-----------------------------------------------------------------------------
(* Each step of a call keeps the types                                     *)

LEMMA ReadLocalTypes ==
  ASSUME DataOK, CallsOK, ReadLocal
  PROVE  DataOK' /\ CallsOK'
<1> DEFINE r == currentDef[<<top.var, top.block>>]
<1>1. calls # <<>> /\ top.var \in Var /\ top.block \in Block
  BY RunningFrame, FrameFields DEF ReadLocal, Found, Reading
<1>2. r \in Reg /\ Return(r)
  BY <1>1 DEF DataOK, ReadLocal, Found
<1>3. CallsOK'
  BY <1>1, <1>2, ReturnOK
<1> QED
  BY <1>3 DEF ReadLocal, Found, DataOK, cfgVars, ssaVars

LEMMA ReadUnsealedTypes ==
  ASSUME DataOK, CallsOK, ReadUnsealed
  PROVE  DataOK' /\ CallsOK'
<1> DEFINE p == NewRegister(top.var)
<1>1. calls # <<>> /\ top.var \in Var /\ top.block \in Block
  BY RunningFrame, FrameFields DEF ReadUnsealed, Missing, Found, Reading
<1>2. TypeOK /\ p \in Reg
  BY <1>1, TypeParts, QueryTypes DEF CallsOK
<1>3. CallsOK'
  BY <1>1, <1>2, ReturnOK DEF ReadUnsealed
<1>4. versions' \in [Var -> Nat] /\ phis' \subseteq Block \X Reg
  BY <1>1, <1>2, NewPhiTypes DEF ReadUnsealed
<1>5. currentDef' \in [Var \X Block -> Reg \cup {NoReg}]
  BY <1>1, <1>2, WriteTypes DEF ReadUnsealed
<1>6. incomplete' \in [Block -> Seq(Reg)]
  <2>1. Append(incomplete[top.block], p) \in Seq(Reg)
    BY <1>1, <1>2 DEF DataOK
  <2> QED
    BY <1>1, <2>1 DEF DataOK, ReadUnsealed
<1> QED
  BY <1>3, <1>4, <1>5, <1>6 DEF ReadUnsealed, DataOK, cfgVars

LEMMA ReadSinglePredecessorTypes ==
  ASSUME DataOK, CallsOK, ReadSinglePredecessor
  PROVE  DataOK' /\ CallsOK'
<1> DEFINE f == ReadFrame(top.var, Head(preds[top.block]))
           g == WriteFrame(top.var, top.block)
<1>1. calls # <<>> /\ top.var \in Var /\ top.block \in Block
  BY RunningFrame, FrameFields DEF ReadSinglePredecessor, OnePredecessor,
     Missing, Found, Reading
<1>2. Head(preds[top.block]) \in Block
  <2>1. preds[top.block] \in Seq(Block) /\ Len(preds[top.block]) = 1
    BY <1>1 DEF DataOK, ReadSinglePredecessor, OnePredecessor
  <2> QED
    BY <2>1
<1>3. f \in Frame /\ g \in Frame /\ f.at = "read" /\ g.at = "write"
  BY <1>1, <1>2, FrameTypes DEF ReadFrame, WriteFrame
<1>4. Become(<<f, g>>) /\ ret' \in Reg \cup {NoReg}
  BY DEF ReadSinglePredecessor, OnePredecessor, CallsOK
<1>5. CallsOK'
  BY <1>1, <1>3, <1>4, BecomeTwoOK DEF Consumers, Silent
<1> QED
  BY <1>5 DEF ReadSinglePredecessor, OnePredecessor, DataOK, cfgVars, ssaVars

LEMMA ReadJoinTypes ==
  ASSUME DataOK, CallsOK, ReadJoin
  PROVE  DataOK' /\ CallsOK'
<1> DEFINE p == NewRegister(top.var)
           f == OperandsFrame(p, top.block, preds[top.block])
           g == WriteFrame(top.var, top.block)
<1>1. calls # <<>> /\ top.var \in Var /\ top.block \in Block
  BY RunningFrame, FrameFields DEF ReadJoin, Missing, Found, Reading
<1>2. TypeOK /\ p \in Reg
  BY <1>1, TypeParts, QueryTypes DEF CallsOK
<1>3. preds[top.block] \in Seq(Block)
  BY <1>1 DEF DataOK
<1>4. f \in Frame /\ g \in Frame /\ f.at = "operands" /\ g.at = "write"
  BY <1>1, <1>2, <1>3, FrameTypes DEF OperandsFrame, WriteFrame
<1>5. Become(<<f, g>>) /\ ret' \in Reg \cup {NoReg}
  BY DEF ReadJoin, CallsOK
<1>6. CallsOK'
  BY <1>1, <1>4, <1>5, BecomeTwoOK DEF Consumers, Silent
<1>7. versions' \in [Var -> Nat] /\ phis' \subseteq Block \X Reg
  BY <1>1, <1>2, NewPhiTypes DEF ReadJoin
<1>8. currentDef' \in [Var \X Block -> Reg \cup {NoReg}]
  BY <1>1, <1>2, WriteTypes DEF ReadJoin
<1> QED
  BY <1>6, <1>7, <1>8 DEF ReadJoin, DataOK, cfgVars

LEMMA WriteBackTypes ==
  ASSUME DataOK, CallsOK, WriteBack
  PROVE  DataOK' /\ CallsOK'
<1>1. calls # <<>> /\ top.var \in Var /\ top.block \in Block
  BY RunningFrame, FrameFields DEF WriteBack
<1>2. ret \in Reg
  BY RunningFrame DEF WriteBack, CallsOK, ResultsAreGiven, Consumers, top
<1>3. CallsOK'
  BY <1>1, <1>2, ReturnOK DEF WriteBack
<1>4. TypeOK
  BY TypeParts
<1>5. currentDef' \in [Var \X Block -> Reg \cup {NoReg}]
  BY <1>1, <1>2, <1>4, WriteTypes DEF WriteBack
<1> QED
  BY <1>3, <1>5 DEF WriteBack, DataOK, cfgVars

LEMMA ReadOperandTypes ==
  ASSUME DataOK, CallsOK, ReadOperand
  PROVE  DataOK' /\ CallsOK'
<1> DEFINE f == ReadFrame(VarOf(top.phi), Head(top.todo))
           g == OperandFrame(top.phi, top.block, top.todo)
<1>1. /\ calls # <<>> /\ top.phi \in Reg /\ top.block \in Block
      /\ top.todo \in Seq(Block) /\ top.todo # <<>>
  BY RunningFrame, FrameFields DEF ReadOperand
<1>2. VarOf(top.phi) \in Var /\ Head(top.todo) \in Block
  BY <1>1 DEF VarOf, Reg
<1>3. f \in Frame /\ g \in Frame /\ f.at = "read" /\ g.at = "operand"
  BY <1>1, <1>2, FrameTypes DEF ReadFrame, OperandFrame
<1>4. Become(<<f, g>>) /\ ret' \in Reg \cup {NoReg}
  BY DEF ReadOperand, CallsOK
<1>5. CallsOK'
  BY <1>1, <1>3, <1>4, BecomeTwoOK DEF Consumers, Silent
<1> QED
  BY <1>5 DEF ReadOperand, DataOK, cfgVars, ssaVars

LEMMA AppendOperandTypes ==
  ASSUME DataOK, CallsOK, AppendOperand
  PROVE  DataOK' /\ CallsOK'
<1> DEFINE f == OperandsFrame(top.phi, top.block, Tail(top.todo))
<1>1. /\ calls # <<>> /\ top.phi \in Reg /\ top.block \in Block
      /\ top.todo \in Seq(Block) /\ top.todo # <<>>
  BY RunningFrame, FrameFields DEF AppendOperand, NextOperand
<1>2. ret \in Reg
  BY RunningFrame DEF AppendOperand, NextOperand, CallsOK, ResultsAreGiven,
     Consumers, top
<1>3. Head(top.todo) \in Block /\ Tail(top.todo) \in Seq(Block)
  BY <1>1
<1>4. f \in Frame /\ f.at = "operands"
  BY <1>1, <1>3, FrameTypes DEF OperandsFrame
<1>5. Become(<<f>>) /\ ret' \in Reg \cup {NoReg}
  BY DEF AppendOperand, NextOperand, CallsOK
<1>6. CallsOK'
  BY <1>1, <1>4, <1>5, BecomeOneOK DEF Consumers, Silent
<1>7. [phi |-> top.phi, through |-> Head(top.todo), value |-> ret] \in PhiArg
  BY <1>1, <1>2, <1>3 DEF PhiArg
<1>8. phiArgs' \subseteq PhiArg
  BY <1>7 DEF AppendOperand, NextOperand, DataOK
<1> QED
  BY <1>6, <1>8 DEF AppendOperand, NextOperand, DataOK, cfgVars

LEMMA OperandsCompleteTypes ==
  ASSUME DataOK, CallsOK, OperandsComplete
  PROVE  DataOK' /\ CallsOK'
<1> DEFINE f == PhiFrame("try", top.phi)
           g == PhiFrame("result", top.phi)
<1>1. calls # <<>> /\ top.phi \in Reg
  BY RunningFrame, FrameFields DEF OperandsComplete
<1>2. f \in Frame /\ g \in Frame /\ f.at = "try" /\ g.at = "result"
  BY <1>1, FrameTypes DEF PhiFrame
<1>3. Become(<<f, g>>) /\ ret' \in Reg \cup {NoReg}
  BY DEF OperandsComplete, CallsOK
<1>4. CallsOK'
  BY <1>1, <1>2, <1>3, BecomeTwoOK DEF Consumers, Silent
<1> QED
  BY <1>4 DEF OperandsComplete, DataOK, cfgVars, ssaVars

LEMMA CollectResultTypes ==
  ASSUME DataOK, CallsOK, CollectResult
  PROVE  DataOK' /\ CallsOK'
<1> DEFINE f == PhiFrame("fixup", top.phi)
<1>1. calls # <<>> /\ top.phi \in Reg
  BY RunningFrame, FrameFields DEF CollectResult
<1>2. ASSUME removals # <<>> PROVE CallsOK'
  <2>1. removals[1].by \in Reg
    <3>1. removals[1] \in Removal
      BY <1>2 DEF DataOK
    <3> QED
      BY <3>1 DEF Removal
  <2>2. f \in Frame /\ f.at = "fixup"
    BY <1>1, FrameTypes DEF PhiFrame
  <2>3. Become(<<f>>) /\ ret' \in Reg
    BY <1>2, <2>1 DEF CollectResult
  <2> QED
    BY <1>1, <2>2, <2>3, BecomeOneOK DEF Consumers, Silent
<1>3. ASSUME removals = <<>> PROVE CallsOK'
  BY <1>1, <1>3, ReturnOK DEF CollectResult
<1> QED
  BY <1>2, <1>3 DEF CollectResult, DataOK, cfgVars, ssaVars

LEMMA FixupDefinitionsTypes ==
  ASSUME DataOK, CallsOK, FixupDefinitions
  PROVE  DataOK' /\ CallsOK'
<1> DEFINE p == Head(removals).phi
           by == Head(removals).by
<1>1. calls # <<>> /\ top.phi \in Reg
  BY RunningFrame, FrameFields DEF FixupDefinitions
<1>2. p \in Reg /\ by \in Reg /\ Tail(removals) \in Seq(Removal)
  <2>1. removals \in Seq(Removal) /\ removals # <<>>
    BY DEF DataOK, FixupDefinitions
  <2>2. Head(removals) \in Removal /\ Tail(removals) \in Seq(Removal)
    BY <2>1
  <2> QED
    BY <2>2 DEF Removal
<1>3. ASSUME calls' = calls PROVE CallsOK'
  <2>1. ret \in Reg
    BY RunningFrame DEF FixupDefinitions, CallsOK, ResultsAreGiven,
                        Consumers, top
  <2>2. ret' \in Reg
    BY <1>1, <1>2, <1>3, <2>1 DEF FixupDefinitions, Replace, Raise
  <2> QED
    BY <1>3, <2>2 DEF CallsOK, ResultsAreGiven
<1>4. ASSUME calls' = <<>>, ret' = ret PROVE CallsOK'
  BY <1>4 DEF CallsOK, ResultsAreGiven
<1>5. CallsOK'
  BY <1>3, <1>4 DEF FixupDefinitions, Raise
<1>6. currentDef' \in [Var \X Block -> Reg \cup {NoReg}]
  BY <1>2 DEF FixupDefinitions, DataOK, ReplaceDefinitions, Replace
<1>7. removals' \in Seq(Removal) /\ fault' \in Faults
  BY <1>2 DEF FixupDefinitions, DataOK, Raise, Faults
<1> QED
  BY <1>5, <1>6, <1>7 DEF FixupDefinitions, DataOK, cfgVars

LEMMA FixupCompleteTypes ==
  ASSUME DataOK, CallsOK, FixupComplete
  PROVE  DataOK' /\ CallsOK'
<1>1. calls # <<>>
  BY RunningFrame DEF FixupComplete
<1>2. ret \in Reg
  BY RunningFrame DEF FixupComplete, CallsOK, ResultsAreGiven, Consumers, top
<1>3. CallsOK'
  BY <1>1, <1>2, ReturnOK DEF FixupComplete
<1> QED
  BY <1>3 DEF FixupComplete, DataOK, cfgVars, ssaVars

LEMMA TryUndefinedTypes ==
  ASSUME DataOK, CallsOK, TryUndefined
  PROVE  DataOK' /\ CallsOK'
<1>1. calls # <<>> /\ top.at \in Silent /\ VarOf(top.phi) \in Var
  BY RunningFrame, FrameFields DEF TryUndefined, Warn, Silent, VarOf, Reg
<1>2. CallsOK'
  BY <1>1, ReturnOK DEF TryUndefined, Warn
<1> QED
  BY <1>1, <1>2 DEF TryUndefined, Warn, DataOK, cfgVars

LEMMA TryNotTrivialTypes ==
  ASSUME DataOK, CallsOK, TryNotTrivial
  PROVE  DataOK' /\ CallsOK'
<1>1. calls # <<>> /\ top.at \in Silent
  BY RunningFrame DEF TryNotTrivial, Silent
<1>2. CallsOK'
  BY <1>1, ReturnOK DEF TryNotTrivial
<1> QED
  BY <1>2 DEF TryNotTrivial, DataOK, cfgVars, ssaVars

LEMMA TryTrivialTypes ==
  ASSUME DataOK, CallsOK, TryTrivial
  PROVE  DataOK' /\ CallsOK'
<1> DEFINE f == UsersFrame(UsersOf(top.phi))
<1>1. calls # <<>> /\ top.at \in Silent /\ top.phi \in Reg
  BY RunningFrame, FrameFields DEF TryTrivial, Silent
<1>2. TypeOK
  BY TypeParts
<1>3. NonSelfArgs(top.phi) \subseteq Reg /\ UsersOf(top.phi) \subseteq Reg
  BY <1>1, <1>2, QueryTypes
<1>4. f \in Frame /\ f.at = "users"
  BY <1>3, FrameTypes DEF UsersFrame
<1>5. Become(<<f>>) /\ ret' \in Reg \cup {NoReg}
  BY DEF TryTrivial, CallsOK
<1>6. CallsOK'
  BY <1>1, <1>4, <1>5, BecomeOneOK DEF Consumers
<1>7. PICK by \in NonSelfArgs(top.phi) :
        /\ ReplacePhi(top.phi, by)
        /\ removals' = Append(removals, [phi |-> top.phi, by |-> by])
  BY DEF TryTrivial
<1>8. by \in Reg
  BY <1>3, <1>7
<1>9. /\ phis' \subseteq Block \X Reg
      /\ phiArgs' \subseteq PhiArg
      /\ ops' \in [Block -> Seq(Op)]
  BY <1>1, <1>2, <1>7, <1>8, ReplacePhiTypes
<1>10. removals' \in Seq(Removal)
  <2>1. [phi |-> top.phi, by |-> by] \in Removal
    BY <1>1, <1>8 DEF Removal
  <2> QED
    BY <1>7, <2>1 DEF DataOK
<1> QED
  BY <1>6, <1>9, <1>10 DEF TryTrivial, DataOK

LEMMA TryUsersTypes ==
  ASSUME DataOK, CallsOK, TryUsers
  PROVE  DataOK' /\ CallsOK'
<1>1. calls # <<>> /\ top.at = "users" /\ top.users \subseteq Reg
  BY RunningFrame, FrameFields DEF TryUsers
<1>2. ASSUME Return(ret) PROVE CallsOK'
  BY <1>1, <1>2, ReturnOK DEF Silent
<1>3. ASSUME NEW u \in top.users,
             Become(<<PhiFrame("try", u), UsersFrame(top.users \ {u})>>),
             UNCHANGED ret
      PROVE  CallsOK'
  <2> DEFINE f == PhiFrame("try", u)
             g == UsersFrame(top.users \ {u})
  <2>1. f \in Frame /\ g \in Frame /\ f.at = "try" /\ g.at = "users"
    BY <1>1, FrameTypes DEF PhiFrame, UsersFrame
  <2>2. ret' \in Reg \cup {NoReg}
    BY <1>3 DEF CallsOK
  <2> QED
    BY <1>1, <1>3, <2>1, <2>2, BecomeTwoOK DEF Consumers, Silent
<1>4. CallsOK'
  BY <1>2, <1>3 DEF TryUsers
<1> QED
  BY <1>4 DEF TryUsers, DataOK, cfgVars, ssaVars

LEMMA StartSealTypes ==
  ASSUME DataOK, CallsOK, StartSeal
  PROVE  DataOK' /\ CallsOK'
<1> DEFINE f == SealingFrame(top.block, incomplete[top.block])
<1>1. calls # <<>> /\ top.at \in Silent /\ top.block \in Block
  BY RunningFrame, FrameFields DEF StartSeal, TakeIncomplete, Silent
<1>2. incomplete[top.block] \in Seq(Reg)
  BY <1>1 DEF DataOK
<1>3. f \in Frame /\ f.at = "sealing"
  BY <1>1, <1>2, FrameTypes DEF SealingFrame
<1>4. ret' = ret /\ ret' \in Reg \cup {NoReg}
  BY DEF StartSeal, TakeIncomplete, CallsOK
<1>5. ASSUME Become(<<f>>) PROVE CallsOK'
  BY <1>1, <1>3, <1>4, <1>5, BecomeOneOK DEF Consumers
<1>6. CallsOK'
  BY <1>4, <1>5, RaiseOK DEF StartSeal, TakeIncomplete
<1>7. incomplete' \in [Block -> Seq(Reg)]
  <2>1. incomplete \in [Block -> Seq(Reg)] /\ <<>> \in Seq(Reg)
    BY DEF DataOK
  <2>2. incomplete' \in {incomplete, [incomplete EXCEPT ![top.block] = <<>>]}
    BY DEF StartSeal, TakeIncomplete
  <2> QED
    BY <2>1, <2>2
<1>8. fault' \in Faults
  BY DEF StartSeal, TakeIncomplete, DataOK, Raise, Faults
<1> QED
  BY <1>6, <1>7, <1>8 DEF StartSeal, TakeIncomplete, DataOK, cfgVars

LEMMA CompletePhiTypes ==
  ASSUME DataOK, CallsOK, CompletePhi
  PROVE  DataOK' /\ CallsOK'
<1> DEFINE f == OperandsFrame(Head(top.todo), top.block, preds[top.block])
           g == SealingFrame(top.block, Tail(top.todo))
<1>1. /\ calls # <<>> /\ top.at \in Silent /\ top.block \in Block
      /\ top.todo \in Seq(Reg) /\ top.todo # <<>>
  BY RunningFrame, FrameFields DEF CompletePhi, OtherPhis, Silent
<1>2. /\ Head(top.todo) \in Reg /\ Tail(top.todo) \in Seq(Reg)
      /\ preds[top.block] \in Seq(Block)
  BY <1>1 DEF DataOK
<1>3. f \in Frame /\ g \in Frame /\ f.at = "operands" /\ g.at = "sealing"
  BY <1>1, <1>2, FrameTypes DEF OperandsFrame, SealingFrame
<1>4. Become(<<f, g>>) /\ ret' \in Reg \cup {NoReg}
  BY DEF CompletePhi, OtherPhis, CallsOK
<1>5. CallsOK'
  BY <1>1, <1>3, <1>4, BecomeTwoOK DEF Consumers, Silent
<1> QED
  BY <1>5 DEF CompletePhi, OtherPhis, DataOK, cfgVars, ssaVars

LEMMA SealCompleteTypes ==
  ASSUME DataOK, CallsOK, SealComplete
  PROVE  DataOK' /\ CallsOK'
<1>1. calls # <<>> /\ top.at \in Silent /\ top.block \in Block
  BY RunningFrame, FrameFields DEF SealComplete, Silent
<1>2. CallsOK'
  BY <1>1, ReturnOK DEF SealComplete
<1> QED
  BY <1>1, <1>2 DEF SealComplete, DataOK, cfgVars

LEMMA AddUseTypes ==
  ASSUME DataOK, CallsOK, AddUse
  PROVE  DataOK' /\ CallsOK'
<1>1. calls # <<>>
  BY RunningFrame DEF AddUse
<1>2. ret \in Reg
  BY RunningFrame DEF AddUse, CallsOK, ResultsAreGiven, Consumers, top
<1>3. CallsOK'
  BY <1>1, <1>2, ReturnOK DEF AddUse
<1>4. TypeOK /\ [kind |-> "read", reg |-> ret] \in Op
  BY <1>2, TypeParts DEF Op
<1>5. ops' \in [Block -> Seq(Op)]
  BY <1>4, AddOpTypes DEF AddUse
<1> QED
  BY <1>3, <1>5 DEF AddUse, DataOK, ssaVars

LEMMA FinaliseSealTypes ==
  ASSUME DataOK, CallsOK, FinaliseSeal
  PROVE  DataOK' /\ CallsOK'
<1>1. calls # <<>> /\ top.at \in Silent /\ top.blocks \subseteq Block
  BY RunningFrame, FrameFields DEF FinaliseSeal, Silent
<1>2. PICK b \in top.blocks :
        Become(<<SealFrame(b), FinaliseFrame(top.blocks \ {b})>>)
  BY DEF FinaliseSeal
<1> DEFINE f == SealFrame(b)
           g == FinaliseFrame(top.blocks \ {b})
<1>3. f \in Frame /\ g \in Frame /\ f.at = "seal" /\ g.at = "finalise"
  BY <1>1, FrameTypes DEF SealFrame, FinaliseFrame
<1>4. ret' \in Reg \cup {NoReg}
  BY DEF FinaliseSeal, CallsOK
<1>5. CallsOK'
  BY <1>1, <1>2, <1>3, <1>4, BecomeTwoOK DEF Consumers, Silent
<1> QED
  BY <1>5 DEF FinaliseSeal, DataOK, cfgVars, ssaVars

LEMMA FinaliseCompleteTypes ==
  ASSUME DataOK, CallsOK, FinaliseComplete
  PROVE  DataOK' /\ CallsOK'
<1>1. calls # <<>> /\ top.at \in Silent
  BY RunningFrame DEF FinaliseComplete, Silent
<1>2. CallsOK'
  BY <1>1, ReturnOK, RaiseOK DEF FinaliseComplete
<1>3. fault' \in Faults /\ finalised' \in BOOLEAN
  BY DEF FinaliseComplete, DataOK, Raise, Faults
<1> QED
  BY <1>2, <1>3 DEF FinaliseComplete, DataOK, cfgVars, ssaVars

-----------------------------------------------------------------------------
(* Each operation of the client keeps the types                            *)

LEMMA AssignTypes ==
  ASSUME DataOK, CallsOK, NEW v \in Var, Assign(v)
  PROVE  DataOK' /\ CallsOK'
<1>1. CallsOK'
  BY DEF Assign, CallsOK, ResultsAreGiven, callVars
<1>2. TypeOK /\ active \in Block /\ NewRegister(v) \in Reg
  BY TypeParts, QueryTypes
<1>3. versions' \in [Var -> Nat]
  BY DEF Assign, DataOK, BumpVersion
<1>4. currentDef' \in [Var \X Block -> Reg \cup {NoReg}]
  BY <1>2, WriteTypes DEF Assign
<1>5. [kind |-> "write", reg |-> NewRegister(v)] \in Op
  BY <1>2 DEF Op
<1>6. ops' \in [Block -> Seq(Op)]
  BY <1>2, <1>5, AddOpTypes DEF Assign
<1> QED
  BY <1>1, <1>3, <1>4, <1>6 DEF Assign, DataOK, callVars

LEMMA NoteReadTypes ==
  ASSUME DataOK, CallsOK, NEW v \in Var, NoteRead(v)
  PROVE  reads' \subseteq Var \X Block \X Nat
<1>1. active \in Block
  BY TypeParts, QueryTypes
<1>2. ops[active] \in Seq(Op)
  BY <1>1 DEF DataOK
<1>3. Len(ops[active]) \in Nat
  BY <1>2
<1> QED
  BY <1>1, <1>3 DEF DataOK, NoteRead

LEMMA ReadTypes ==
  ASSUME DataOK, CallsOK, NEW v \in Var, ReadVariable(v) \/ UseVariable(v)
  PROVE  DataOK' /\ CallsOK'
<1> DEFINE f == ReadFrame(v, active)
<1>1. calls = <<>> /\ ret' = ret
  BY DEF ReadVariable, UseVariable, Open, Idle
<1>2. active \in Block
  BY TypeParts, QueryTypes
<1>3. f \in Frame /\ UseFrame \in Frame /\ f.at = "read"
  BY <1>2, FrameTypes DEF ReadFrame
<1>4. Push(<<f>>) \/ Push(<<f, UseFrame>>)
  BY DEF ReadVariable, UseVariable
<1>5. CallsOK'
  BY <1>1, <1>3, <1>4, PushOK DEF Consumers, Silent
<1>6. reads' \subseteq Var \X Block \X Nat
  BY NoteReadTypes DEF ReadVariable, UseVariable
<1> QED
  BY <1>5, <1>6 DEF ReadVariable, UseVariable, DataOK, ssaVars

LEMMA UseHeldTypes ==
  ASSUME DataOK, CallsOK, NEW r \in DefinedRegs, UseHeld(r)
  PROVE  DataOK' /\ CallsOK'
<1>1. CallsOK'
  BY DEF UseHeld, CallsOK, ResultsAreGiven, callVars
<1>2. r \in Reg
  BY TypeParts, UsedRegs
<1>3. TypeOK /\ [kind |-> "held", reg |-> r] \in Op
  BY <1>2, TypeParts DEF Op
<1>4. ops' \in [Block -> Seq(Op)]
  BY <1>3, AddOpTypes DEF UseHeld
<1> QED
  BY <1>1, <1>4 DEF UseHeld, DataOK, ssaVars, callVars

LEMMA TerminateTypes ==
  ASSUME DataOK, CallsOK, NEW ts \in SUBSET Block, Terminate(ts)
  PROVE  DataOK' /\ CallsOK'
<1>1. CallsOK'
  <2>1. ret' = ret
    BY DEF Terminate, SealedTarget
  <2>2. ASSUME UNCHANGED calls PROVE CallsOK'
    BY <2>1, <2>2 DEF CallsOK, ResultsAreGiven
  <2> QED
    BY <2>1, <2>2, RaiseOK DEF Terminate, SealedTarget
<1>2. active \in Block
  BY TypeParts, QueryTypes
<1>3. ASSUME NEW b \in Block
      PROVE  AddPred(preds[b], active) \in Seq(Block)
  BY <1>2 DEF AddPred, DataOK
<1>4. preds' \in [Block -> Seq(Block)]
  <2>1. preds \in [Block -> Seq(Block)]
    BY DEF DataOK
  <2>2. CASE UNCHANGED preds
    BY <2>1, <2>2
  <2>3. CASE preds' = [b \in Block |-> IF b \in ts
                                         THEN AddPred(preds[b], active)
                                         ELSE preds[b]]
    BY <1>3, <2>1, <2>3
  <2> QED
    BY <2>2, <2>3 DEF Terminate, SealedTarget
<1>5. terminated' \subseteq Block /\ fault' \in Faults
  BY <1>2 DEF Terminate, SealedTarget, DataOK, Raise, Faults
<1> QED
  BY <1>1, <1>4, <1>5 DEF Terminate, SealedTarget, DataOK, ssaVars

LEMMA ActivateTypes ==
  ASSUME DataOK, CallsOK, NEW b \in Block, Activate(b) \/ ActivateOpen(b)
  PROVE  DataOK' /\ CallsOK'
<1>1. PICK fs \in {<<>>, <<SealFrame(b)>>} : ActivateThen(b, fs)
  BY DEF Activate, ActivateOpen, SealIfUnlabelled
<1>2. calls = <<>> /\ ret' = ret
  BY <1>1 DEF ActivateThen, Idle
<1>3. SealFrame(b) \in Frame /\ SealFrame(b).at = "seal"
  BY FrameTypes DEF SealFrame
<1>4. ASSUME Push(fs) PROVE CallsOK'
  BY <1>1, <1>2, <1>3, <1>4, PushSilentOK DEF Consumers
<1>5. CallsOK'
  BY <1>1, <1>2, <1>4, RaiseOK DEF ActivateThen
<1>6. blocks' \in Seq(Block) \ {<<>>}
  <2>1. blocks \in Seq(Block) /\ blocks # <<>>
    BY DEF DataOK
  <2>2. Append(blocks, b) \in Seq(Block) /\ Append(blocks, b) # <<>>
    BY <2>1
  <2> QED
    BY <1>1, <2>1, <2>2 DEF ActivateThen
<1>7. fault' \in Faults
  BY <1>1 DEF ActivateThen, DataOK, Raise, Faults
<1> QED
  BY <1>1, <1>5, <1>6, <1>7 DEF ActivateThen, DataOK, ssaVars

LEMMA CloseOpenTypes ==
  ASSUME DataOK, CallsOK, NEW b \in Block, CloseOpen(b)
  PROVE  DataOK' /\ CallsOK'
<1>1. calls = <<>> /\ ret' = ret
  BY DEF CloseOpen, Idle
<1>2. SealFrame(b) \in Frame /\ SealFrame(b).at = "seal"
  BY FrameTypes DEF SealFrame
<1>3. Push(<<SealFrame(b)>>) \/ Push(<<>>)
  BY DEF CloseOpen, SealIfUnlabelled
<1>4. CallsOK'
  BY <1>1, <1>2, <1>3, PushSilentOK DEF Consumers
<1> QED
  BY <1>4 DEF CloseOpen, DataOK, cfgVars, ssaVars

LEMMA FinaliseTypes ==
  ASSUME DataOK, CallsOK, Finalise
  PROVE  DataOK' /\ CallsOK'
<1> DEFINE f == FinaliseFrame(Labelled \cap Range(blocks))
<1>1. calls = <<>> /\ ret' = ret
  BY DEF Finalise, Idle
<1>2. Labelled \cap Range(blocks) \in SUBSET Block
  BY ConstantsAssumption
<1>3. f \in Frame /\ f.at = "finalise"
  BY <1>2, FrameTypes DEF FinaliseFrame
<1>4. Push(<<f>>)
  BY DEF Finalise
<1>5. CallsOK'
  BY <1>1, <1>3, <1>4, PushSilentOK DEF Consumers
<1> QED
  BY <1>5 DEF Finalise, DataOK, cfgVars, ssaVars

-----------------------------------------------------------------------------
(* The type invariant                                                      *)

(* Every step, of a client operation or of the call in progress, keeps    *)
(* the types.                                                              *)
LEMMA NextTypes ==
  TypeOK /\ ResultsAreGiven /\ [Next]_vars => (TypeOK /\ ResultsAreGiven)'
<1> SUFFICES ASSUME DataOK, CallsOK, [Next]_vars PROVE DataOK' /\ CallsOK'
  BY TypeParts DEF TypeOK, DataOK, CallsOK
<1>1. CASE Step
  BY <1>1, ReadLocalTypes, ReadUnsealedTypes, ReadSinglePredecessorTypes,
     ReadJoinTypes, WriteBackTypes, ReadOperandTypes, AppendOperandTypes,
     OperandsCompleteTypes, CollectResultTypes, FixupDefinitionsTypes,
     FixupCompleteTypes, TryUndefinedTypes, TryNotTrivialTypes,
     TryTrivialTypes, TryUsersTypes, StartSealTypes, CompletePhiTypes,
     SealCompleteTypes, AddUseTypes, FinaliseSealTypes, FinaliseCompleteTypes
  DEF Step
<1>2. CASE Client
  BY <1>2, AssignTypes, ReadTypes, UseHeldTypes, TerminateTypes,
     ActivateTypes, CloseOpenTypes, FinaliseTypes
  DEF Client
<1>3. CASE UNCHANGED vars
  BY <1>3 DEF vars, cfgVars, ssaVars, callVars, DataOK, CallsOK,
              ResultsAreGiven
<1> QED
  BY <1>1, <1>2, <1>3 DEF Next

(* The variables of the builder have their types at every moment, and the  *)
(* recursion of read_variable, _add_phi_operands and try_remove never uses *)
(* a result that no call has given: each write to the variable cache, each *)
(* argument of a phi and each op has a register.                           *)
THEOREM TypeCorrect == Spec => [](TypeOK /\ ResultsAreGiven)
<1>1. Init => TypeOK /\ ResultsAreGiven
  BY InitTypes
<1>2. TypeOK /\ ResultsAreGiven /\ [Next]_vars => (TypeOK /\ ResultsAreGiven)'
  BY NextTypes
<1> QED
  BY <1>1, <1>2, PTL DEF Spec

-----------------------------------------------------------------------------
(* Single assignment                                                       *)

(* The registers that ops write, by the places of the ops.                 *)
LEMMA WrittenAt ==
  /\ \A r : r \in WrittenRegs <=>
       \E b \in Block : \E i \in DOMAIN ops[b] :
         ops[b][i].kind = "write" /\ ops[b][i].reg = r
  /\ \A r : r \in WrittenRegs' <=>
       \E b \in Block : \E i \in DOMAIN ops'[b] :
         ops'[b][i].kind = "write" /\ ops'[b][i].reg = r
  BY DEF WrittenRegs, Range

(* A register that the counter has not passed is not in use.               *)
LEMMA FreshRegister ==
  ASSUME TypeOK, VersionsIssued, NEW v \in Var
  PROVE  NewRegister(v) \notin DefinedRegs
<1>1. versions[v] \in Nat
  BY DEF TypeOK
<1> QED
  BY <1>1 DEF VersionsIssued, NewRegister, VersionOf, VarOf

(* A step that writes no new register and adds no phi.                     *)
LEMMA KeepsSingleAssignment ==
  ASSUME TypeOK, VersionsIssued, SingleAssignment,
         UNCHANGED versions, phis' \subseteq phis,
         \A b \in Block : \A i \in DOMAIN ops'[b] :
           ops'[b][i].kind = "write" =>
             i \in DOMAIN ops[b] /\ ops[b][i] = ops'[b][i]
  PROVE  VersionsIssued' /\ SingleAssignment'
<1>1. PhiRegs' \subseteq PhiRegs
  BY DEF PhiRegs
<1>2. WrittenRegs' \subseteq WrittenRegs
  BY WrittenAt
<1>3. ParamRegs' = ParamRegs
  BY DEF ParamRegs
<1>4. VersionsIssued'
  BY <1>1, <1>2, <1>3 DEF VersionsIssued, DefinedRegs
<1>5. \A p, q \in phis' : p[2] = q[2] => p = q
  BY DEF SingleAssignment
<1>6. ASSUME NEW b \in Block, NEW c \in Block,
             NEW i \in DOMAIN ops'[b], NEW j \in DOMAIN ops'[c],
             ops'[b][i].kind = "write", ops'[c][j] = ops'[b][i]
      PROVE  <<b, i>> = <<c, j>>
  <2>1. i \in DOMAIN ops[b] /\ ops[b][i] = ops'[b][i]
    BY <1>6
  <2>2. j \in DOMAIN ops[c] /\ ops[c][j] = ops'[c][j]
    BY <1>6
  <2> QED
    BY <1>6, <2>1, <2>2 DEF SingleAssignment
<1>7. /\ PhiRegs' \cap WrittenRegs' = {}
      /\ (PhiRegs' \cup WrittenRegs') \cap ParamRegs' = {}
  BY <1>1, <1>2, <1>3 DEF SingleAssignment
<1> QED
  BY <1>4, <1>5, <1>6, <1>7 DEF SingleAssignment

(* A new phi has a new register.                                           *)
LEMMA NewPhiSingleAssignment ==
  ASSUME TypeOK, VersionsIssued, SingleAssignment,
         NEW v \in Var, NEW b \in Block, NewPhi(v, b), UNCHANGED ops
  PROVE  VersionsIssued' /\ SingleAssignment'
<1> DEFINE r == NewRegister(v)
<1>1. r \notin DefinedRegs /\ r \in Reg
  BY FreshRegister, QueryTypes
<1>2. PhiRegs' = PhiRegs \cup {r}
  <2> DEFINE phi == <<b, r>>
  <2>1. phis' = phis \cup {phi}
    BY DEF NewPhi
  <2>2. phi[2] = r
    OBVIOUS
  <2> HIDE DEF phi, r
  <2> QED
    BY <2>1, <2>2 DEF PhiRegs
<1>3. WrittenRegs' = WrittenRegs
  BY DEF WrittenRegs
<1>4. ParamRegs' = ParamRegs
  BY DEF ParamRegs
<1>5. DefinedRegs' = DefinedRegs \cup {r}
  BY <1>2, <1>3, <1>4 DEF DefinedRegs
<1>6. VersionsIssued'
  <2>1. DefinedRegs \subseteq Reg
    BY UsedRegs
  <2>2. ASSUME NEW q \in DefinedRegs
        PROVE  VersionOf(q) < versions'[VarOf(q)]
    <3>1. /\ VarOf(q) \in Var /\ VersionOf(q) \in Nat
          /\ VersionOf(q) < versions[VarOf(q)]
      BY <2>1, <2>2 DEF VersionsIssued, Reg, VarOf, VersionOf
    <3>2. versions'[VarOf(q)] \in {versions[VarOf(q)], versions[VarOf(q)] + 1}
      BY <3>1 DEF NewPhi, BumpVersion, TypeOK
    <3>3. versions[VarOf(q)] \in Nat
      BY <3>1 DEF TypeOK
    <3> QED
      BY <3>1, <3>2, <3>3
  <2>3. VersionOf(r) < versions'[VarOf(r)]
    <3>1. versions[v] \in Nat /\ versions'[v] = versions[v] + 1
      BY DEF NewPhi, BumpVersion, TypeOK
    <3> QED
      BY <3>1 DEF NewRegister, VersionOf, VarOf
  <2> QED
    BY <1>5, <2>2, <2>3 DEF VersionsIssued
<1>7. \A p, q \in phis' : p[2] = q[2] => p = q
  <2>1. phis' = phis \cup {<<b, r>>}
    BY DEF NewPhi
  <2>2. \A p \in phis : p[2] # r
    BY <1>1 DEF DefinedRegs, PhiRegs
  <2> QED
    BY <2>1, <2>2 DEF SingleAssignment
<1>8. /\ PhiRegs' \cap WrittenRegs' = {}
      /\ (PhiRegs' \cup WrittenRegs') \cap ParamRegs' = {}
  BY <1>1, <1>2, <1>3, <1>4 DEF SingleAssignment, DefinedRegs
<1> QED
  BY <1>6, <1>7, <1>8 DEF SingleAssignment

(* The places of the ops after a new one.                                  *)
LEMMA AddedOp ==
  ASSUME TypeOK, NEW o \in Op, AddOp(o)
  PROVE  \A b \in Block : \A i \in DOMAIN ops'[b] :
           \/ i \in DOMAIN ops[b] /\ ops'[b][i] = ops[b][i]
           \/ b = active /\ i = Len(ops[active]) + 1 /\ ops'[b][i] = o
<1>1. active \in Block
  BY QueryTypes
<1> SUFFICES ASSUME NEW b \in Block, NEW i \in DOMAIN ops'[b]
             PROVE  \/ i \in DOMAIN ops[b] /\ ops'[b][i] = ops[b][i]
                    \/ /\ b = active
                       /\ i = Len(ops[active]) + 1
                       /\ ops'[b][i] = o
  OBVIOUS
<1>2. CASE b # active
  <2>1. ops'[b] = ops[b]
    BY <1>2 DEF AddOp, TypeOK
  <2> QED
    BY <2>1
<1>3. CASE b = active
  <2>1. ops[b] \in Seq(Op) /\ ops'[b] = Append(ops[b], o)
    BY <1>1, <1>3 DEF AddOp, TypeOK
  <2>2. /\ DOMAIN ops'[b] = 1..(Len(ops[b]) + 1)
        /\ DOMAIN ops[b] = 1..Len(ops[b])
        /\ Len(ops[b]) \in Nat
        /\ ops'[b][Len(ops[b]) + 1] = o
        /\ \A j \in 1..Len(ops[b]) : ops'[b][j] = ops[b][j]
    BY <2>1
  <2> QED
    BY <1>3, <2>2
<1> QED
  BY <1>2, <1>3

(* An assignment writes a new register.                                    *)
LEMMA AssignSingleAssignment ==
  ASSUME TypeOK, VersionsIssued, SingleAssignment, NEW v \in Var, Assign(v)
  PROVE  VersionsIssued' /\ SingleAssignment'
<1> DEFINE r == NewRegister(v)
           o == [kind |-> "write", reg |-> r]
<1>1. r \notin DefinedRegs /\ r \in Reg /\ o \in Op /\ active \in Block
  BY FreshRegister, QueryTypes DEF Op
<1>2. AddOp(o) /\ phis' = phis
  BY DEF Assign
<1>3. \A b \in Block : \A i \in DOMAIN ops'[b] :
        \/ i \in DOMAIN ops[b] /\ ops'[b][i] = ops[b][i]
        \/ b = active /\ i = Len(ops[active]) + 1 /\ ops'[b][i] = o
  BY <1>1, <1>2, AddedOp
<1>4. PhiRegs' = PhiRegs /\ ParamRegs' = ParamRegs
  BY <1>2 DEF PhiRegs, ParamRegs
<1>5. WrittenRegs' \subseteq WrittenRegs \cup {r}
  BY <1>3, WrittenAt
<1>6. DefinedRegs' \subseteq DefinedRegs \cup {r}
  BY <1>4, <1>5 DEF DefinedRegs
<1>7. VersionsIssued'
  <2>1. DefinedRegs \subseteq Reg
    BY UsedRegs
  <2>2. ASSUME NEW q \in DefinedRegs
        PROVE  VersionOf(q) < versions'[VarOf(q)]
    <3>1. /\ VarOf(q) \in Var /\ VersionOf(q) \in Nat
          /\ VersionOf(q) < versions[VarOf(q)]
      BY <2>1, <2>2 DEF VersionsIssued, Reg, VarOf, VersionOf
    <3>2. versions'[VarOf(q)] \in {versions[VarOf(q)], versions[VarOf(q)] + 1}
      BY <3>1 DEF Assign, BumpVersion, TypeOK
    <3>3. versions[VarOf(q)] \in Nat
      BY <3>1 DEF TypeOK
    <3> QED
      BY <3>1, <3>2, <3>3
  <2>3. VersionOf(r) < versions'[VarOf(r)]
    <3>1. versions[v] \in Nat /\ versions'[v] = versions[v] + 1
      BY DEF Assign, BumpVersion, TypeOK
    <3> QED
      BY <3>1 DEF NewRegister, VersionOf, VarOf
  <2> QED
    BY <1>6, <2>2, <2>3 DEF VersionsIssued
<1>8. ASSUME NEW b \in Block, NEW c \in Block,
             NEW i \in DOMAIN ops'[b], NEW j \in DOMAIN ops'[c],
             ops'[b][i].kind = "write", ops'[c][j] = ops'[b][i]
      PROVE  <<b, i>> = <<c, j>>
  <2>1. \A d \in Block : \A k \in DOMAIN ops[d] : ops[d][k] # o
    <3>1. ASSUME NEW d \in Block, NEW k \in DOMAIN ops[d], ops[d][k] = o
          PROVE  FALSE
      <4>1. r \in WrittenRegs
        BY <3>1, WrittenAt
      <4> QED
        BY <1>1, <4>1 DEF DefinedRegs
    <3> QED
      BY <3>1
  <2>2. CASE ops'[b][i] = o
    <3>1. <<b, i>> = <<active, Len(ops[active]) + 1>>
      BY <1>3, <2>1, <2>2
    <3>2. <<c, j>> = <<active, Len(ops[active]) + 1>>
      BY <1>3, <1>8, <2>1, <2>2
    <3> QED
      BY <3>1, <3>2
  <2>3. CASE ops'[b][i] # o
    <3>1. i \in DOMAIN ops[b] /\ ops'[b][i] = ops[b][i]
      BY <1>3, <2>3
    <3>2. j \in DOMAIN ops[c] /\ ops'[c][j] = ops[c][j]
      BY <1>3, <1>8, <2>3
    <3> QED
      BY <1>8, <3>1, <3>2 DEF SingleAssignment
  <2> QED
    BY <2>2, <2>3
<1>9. /\ PhiRegs' \cap WrittenRegs' = {}
      /\ (PhiRegs' \cup WrittenRegs') \cap ParamRegs' = {}
  BY <1>1, <1>4, <1>5 DEF SingleAssignment, DefinedRegs
<1>10. \A p, q \in phis' : p[2] = q[2] => p = q
  BY <1>2 DEF SingleAssignment
<1> QED
  BY <1>7, <1>8, <1>9, <1>10 DEF SingleAssignment

(* Uses and the replacement of a phi write nothing.                        *)
LEMMA AddUseSingleAssignment ==
  ASSUME TypeOK, VersionsIssued, SingleAssignment,
         NEW o \in Op, o.kind # "write", AddOp(o), UNCHANGED <<phis, versions>>
  PROVE  VersionsIssued' /\ SingleAssignment'
<1>1. \A b \in Block : \A i \in DOMAIN ops'[b] :
        ops'[b][i].kind = "write" =>
          i \in DOMAIN ops[b] /\ ops[b][i] = ops'[b][i]
  BY AddedOp
<1> QED
  BY <1>1, KeepsSingleAssignment

LEMMA ReplaceSingleAssignment ==
  ASSUME TypeOK, VersionsIssued, SingleAssignment,
         NEW p \in Reg, NEW by \in Reg, ReplacePhi(p, by), UNCHANGED versions
  PROVE  VersionsIssued' /\ SingleAssignment'
<1>1. phis' \subseteq phis
  BY DEF ReplacePhi, ReplaceInOps
<1>2. ASSUME NEW b \in Block, NEW i \in DOMAIN ops'[b],
             ops'[b][i].kind = "write"
      PROVE  i \in DOMAIN ops[b] /\ ops[b][i] = ops'[b][i]
  <2>1. ops'[b] = [k \in DOMAIN ops[b] |->
                     IF ops[b][k].kind = "write"
                       THEN ops[b][k]
                       ELSE [ops[b][k] EXCEPT !.reg = Replace(@, p, by)]]
    BY DEF ReplacePhi, ReplaceInOps
  <2>2. i \in DOMAIN ops[b] /\ ops[b] \in Seq(Op)
    BY <2>1 DEF TypeOK
  <2>3. ops[b][i] \in Op
    BY <2>2
  <2>4. CASE ops[b][i].kind = "write"
    BY <2>1, <2>2, <2>4
  <2>5. CASE ops[b][i].kind # "write"
    <3>1. ops'[b][i] = [ops[b][i] EXCEPT !.reg = Replace(@, p, by)]
      BY <2>1, <2>2, <2>5
    <3>2. ops'[b][i].kind = ops[b][i].kind
      BY <2>3, <3>1 DEF Op
    <3> QED
      BY <1>2, <2>5, <3>2
  <2> QED
    BY <2>4, <2>5
<1> QED
  BY <1>1, <1>2, KeepsSingleAssignment

InductiveSSA ==
  TypeOK /\ ResultsAreGiven /\ VersionsIssued /\ SingleAssignment

LEMMA InitSSA == Init => InductiveSSA
<1> SUFFICES ASSUME Init PROVE InductiveSSA
  OBVIOUS
<1>1. PhiRegs = {}
  BY DEF Init, PhiRegs
<1>2. WrittenRegs = {}
  BY DEF Init, WrittenRegs, Range
<1>3. \A r \in ParamRegs : VersionOf(r) < versions[VarOf(r)]
  BY ConstantsAssumption DEF Init, ParamRegs, VersionOf, VarOf
<1>4. VersionsIssued
  BY <1>1, <1>2, <1>3 DEF VersionsIssued, DefinedRegs
<1>5. SingleAssignment
  BY <1>1, <1>2 DEF Init, SingleAssignment
<1> QED
  BY <1>4, <1>5, InitTypes DEF InductiveSSA

LEMMA NextSSA == InductiveSSA /\ [Next]_vars => InductiveSSA'
<1> SUFFICES ASSUME InductiveSSA, [Next]_vars
             PROVE  VersionsIssued' /\ SingleAssignment'
  BY NextTypes DEF InductiveSSA
<1> USE DEF InductiveSSA
<1>1. ASSUME UNCHANGED <<phis, ops, versions>>
      PROVE  VersionsIssued' /\ SingleAssignment'
  BY <1>1, KeepsSingleAssignment
<1>2. DataOK /\ CallsOK
  BY TypeParts
<1>3. CASE ReadUnsealed
  <2>1. top.var \in Var /\ top.block \in Block
    BY <1>2, <1>3, RunningFrame, FrameFields
    DEF ReadUnsealed, Missing, Found, Reading
  <2> QED
    BY <1>3, <2>1, NewPhiSingleAssignment DEF ReadUnsealed, cfgVars
<1>4. CASE ReadJoin
  <2>1. top.var \in Var /\ top.block \in Block
    BY <1>2, <1>4, RunningFrame, FrameFields DEF ReadJoin, Missing, Found,
       Reading
  <2> QED
    BY <1>4, <2>1, NewPhiSingleAssignment DEF ReadJoin, cfgVars
<1>5. CASE TryTrivial
  <2>1. top.phi \in Reg
    BY <1>2, <1>5, RunningFrame, FrameFields DEF TryTrivial
  <2>2. NonSelfArgs(top.phi) \subseteq Reg
    BY <2>1, QueryTypes
  <2>3. PICK by \in NonSelfArgs(top.phi) : ReplacePhi(top.phi, by)
    BY <1>5 DEF TryTrivial
  <2>4. UNCHANGED versions
    BY <1>5 DEF TryTrivial
  <2> QED
    BY <2>1, <2>2, <2>3, <2>4, ReplaceSingleAssignment
<1>6. CASE AddUse
  <2>1. [kind |-> "read", reg |-> ret] \in Op
    BY <1>2, <1>6, RunningFrame
    DEF AddUse, CallsOK, ResultsAreGiven, Consumers, top, Op
  <2> QED
    BY <1>6, <2>1, AddUseSingleAssignment DEF AddUse, ssaVars
<1>7. ASSUME NEW v \in Var, Assign(v)
      PROVE  VersionsIssued' /\ SingleAssignment'
  BY <1>7, AssignSingleAssignment
<1>8. ASSUME NEW r \in DefinedRegs, UseHeld(r)
      PROVE  VersionsIssued' /\ SingleAssignment'
  <2>1. [kind |-> "held", reg |-> r] \in Op
    BY UsedRegs DEF Op
  <2> QED
    BY <1>8, <2>1, AddUseSingleAssignment DEF UseHeld, ssaVars
<1>9. CASE Step
  BY <1>1, <1>3, <1>4, <1>5, <1>6, <1>9
  DEF Step, ReadLocal, Found, ReadSinglePredecessor, OnePredecessor,
     WriteBack, ReadOperand,
      AppendOperand, NextOperand, OperandsComplete, CollectResult,
      FixupDefinitions,
      FixupComplete, TryUndefined, Warn, TryNotTrivial, TryUsers,
      StartSeal, TakeIncomplete,
      CompletePhi, OtherPhis, SealComplete, FinaliseSeal, FinaliseComplete,
      cfgVars, ssaVars
<1>10. CASE Client
  BY <1>1, <1>7, <1>8, <1>10
  DEF Client, UseVariable, ReadVariable, Terminate, SealedTarget, Activate,
     ActivateOpen,
      ActivateThen, CloseOpen, Finalise, cfgVars, ssaVars
<1>11. CASE UNCHANGED vars
  BY <1>1, <1>11 DEF vars, cfgVars, ssaVars
<1> QED
  BY <1>9, <1>10, <1>11 DEF Next

(* A register that is defined has a version that new_register has already  *)
(* passed, so it never issues the same register twice.                     *)
THEOREM VersionsAdvance == Spec => []VersionsIssued
<1>1. Init => InductiveSSA
  BY InitSSA
<1>2. InductiveSSA /\ [Next]_vars => InductiveSSA'
  BY NextSSA
<1>3. InductiveSSA => VersionsIssued
  BY DEF InductiveSSA
<1> QED
  BY <1>1, <1>2, <1>3, PTL DEF Spec

(* The SSA constraint holds at every moment of the construction: whatever  *)
(* graph the client draws, no two phis or ops assign the same register,    *)
(* and none assigns a parameter.                                           *)
THEOREM SSAConstraint == Spec => []SingleAssignment
<1>1. Init => InductiveSSA
  BY InitSSA
<1>2. InductiveSSA /\ [Next]_vars => InductiveSSA'
  BY NextSSA
<1>3. InductiveSSA => SingleAssignment
  BY DEF InductiveSSA
<1> QED
  BY <1>1, <1>2, <1>3, PTL DEF Spec

-----------------------------------------------------------------------------
(* The shape of the call stack                                             *)

(* A frame returns.                                                        *)
LEMMA ShapeReturn ==
  ASSUME calls \in Seq(Frame), calls # <<>>, Shape, calls' = Tail(calls),
         finalised' => Tail(calls) = <<>>
  PROVE  Shape'
<1>1. /\ Len(calls') = Len(calls) - 1
      /\ DOMAIN calls' = 1..(Len(calls) - 1)
      /\ \A i \in 1..(Len(calls) - 1) : calls'[i] = calls[i + 1]
      /\ DOMAIN calls = 1..Len(calls)
      /\ Len(calls) \in Nat
  BY StackShape
<1>2. ASSUME NEW i \in 1..(Len(calls') - 1)
      PROVE  MayCall(calls'[i + 1], calls'[i])
  <2>1. MayCall(calls[(i + 1) + 1], calls[i + 1])
    BY <1>1 DEF Shape
  <2> QED
    BY <1>1, <2>1
<1>3. ASSUME NEW i \in DOMAIN calls', NEW j \in DOMAIN calls',
             i < j, calls'[j].at \in Removes
      PROVE  calls'[i].at \in Tries
  BY <1>1, <1>3 DEF Shape
<1>4. ASSUME NEW i \in DOMAIN calls', calls'[i].at \in Tries
      PROVE  \E k \in DOMAIN calls' : i < k /\ calls'[k].at = "result"
  <2>1. PICK k \in DOMAIN calls : i + 1 < k /\ calls[k].at = "result"
    BY <1>1, <1>4 DEF Shape
  <2>2. k - 1 \in DOMAIN calls' /\ calls'[k - 1] = calls[k] /\ i < k - 1
    BY <1>1, <2>1
  <2> QED
    BY <2>1, <2>2
<1> QED
  BY <1>2, <1>3, <1>4 DEF Shape, MayCall

(* A frame goes on as another one.                                         *)
LEMMA ShapeOne ==
  ASSUME calls \in Seq(Frame), calls # <<>>, Shape, NEW f \in Frame,
         Become(<<f>>), UNCHANGED finalised,
         \A g \in Frame : MayCall(g, top) => MayCall(g, f),
         top.at \in Tries <=> f.at \in Tries
  PROVE  Shape'
<1>1. /\ Len(calls') = Len(calls)
      /\ DOMAIN calls' = 1..Len(calls)
      /\ DOMAIN calls = 1..Len(calls)
      /\ calls'[1] = f
      /\ \A i \in 2..Len(calls) : calls'[i] = calls[i]
      /\ top = calls[1]
      /\ Len(calls) \in Nat
  BY StackShape DEF Become
<1>2. ASSUME NEW i \in 1..(Len(calls') - 1)
      PROVE  MayCall(calls'[i + 1], calls'[i])
  <2>1. MayCall(calls[i + 1], calls[i]) /\ calls[i + 1] \in Frame
    BY <1>1 DEF Shape
  <2>2. CASE i = 1
    BY <1>1, <2>1, <2>2
  <2>3. CASE i # 1
    BY <1>1, <2>1, <2>3
  <2> QED
    BY <2>2, <2>3
<1>3. ASSUME NEW i \in DOMAIN calls', NEW j \in DOMAIN calls',
             i < j, calls'[j].at \in Removes
      PROVE  calls'[i].at \in Tries
  <2>1. calls[j].at \in Removes /\ calls[i].at \in Tries
    BY <1>1, <1>3 DEF Shape
  <2> QED
    BY <1>1, <2>1
<1>4. ASSUME NEW i \in DOMAIN calls', calls'[i].at \in Tries
      PROVE  \E k \in DOMAIN calls' : i < k /\ calls'[k].at = "result"
  <2>1. calls[i].at \in Tries
    BY <1>1, <1>4
  <2>2. PICK k \in DOMAIN calls : i < k /\ calls[k].at = "result"
    BY <1>1, <2>1 DEF Shape
  <2> QED
    BY <1>1, <2>2
<1>5. finalised' => calls' = <<>>
  BY DEF Shape
<1> QED
  BY <1>2, <1>3, <1>4, <1>5 DEF Shape, MayCall

(* A frame calls another one.                                              *)
LEMMA ShapeTwo ==
  ASSUME calls \in Seq(Frame), calls # <<>>, Shape,
         NEW f \in Frame, NEW g \in Frame,
         Become(<<f, g>>), UNCHANGED finalised,
         MayCall(g, f),
         \A h \in Frame : MayCall(h, top) => MayCall(h, g),
         g.at \in Removes => f.at \in Tries,
         top.at \in Tries => f.at \in Tries,
         top.at \in Tries <=> g.at \in Tries,
         f.at \in Tries => g.at = "result" \/ top.at \in Tries
  PROVE  Shape'
<1>1. /\ Len(calls') = Len(calls) + 1
      /\ DOMAIN calls' = 1..(Len(calls) + 1)
      /\ DOMAIN calls = 1..Len(calls)
      /\ calls'[1] = f
      /\ calls'[2] = g
      /\ \A i \in 3..(Len(calls) + 1) : calls'[i] = calls[i - 1]
      /\ top = calls[1]
      /\ Len(calls) \in Nat \ {0}
  BY StackShape DEF Become
<1>2. ASSUME NEW i \in 1..(Len(calls') - 1)
      PROVE  MayCall(calls'[i + 1], calls'[i])
  <2>1. CASE i = 1
    BY <1>1, <2>1
  <2>2. CASE i > 1
    <3>1. i - 1 \in 1..(Len(calls) - 1) /\ calls'[i + 1] = calls[i]
      BY <1>1, <2>2
    <3>2. MayCall(calls[(i - 1) + 1], calls[i - 1]) /\ calls[i] \in Frame
      BY <1>1, <3>1 DEF Shape
    <3>3. MayCall(calls[i], calls[i - 1])
      BY <3>1, <3>2
    <3>4. CASE i = 2
      BY <1>1, <3>1, <3>2, <3>3, <3>4
    <3>5. CASE i # 2
      BY <1>1, <2>2, <3>1, <3>3, <3>5
    <3> QED
      BY <3>4, <3>5
  <2> QED
    BY <2>1, <2>2
<1>3. ASSUME NEW i \in DOMAIN calls', NEW j \in DOMAIN calls',
             i < j, calls'[j].at \in Removes
      PROVE  calls'[i].at \in Tries
  <2>1. CASE j = 2
    BY <1>1, <1>3, <2>1
  <2>2. CASE j > 2
    <3>1. calls[j - 1].at \in Removes /\ j - 1 \in DOMAIN calls
      BY <1>1, <1>3, <2>2
    <3>2. CASE i > 2
      <4>1. i - 1 \in DOMAIN calls /\ i - 1 < j - 1
        BY <1>1, <1>3, <3>2
      <4>2. calls[i - 1].at \in Tries
        BY <3>1, <4>1 DEF Shape
      <4> QED
        BY <1>1, <3>2, <4>2
    <3>3. CASE i \in {1, 2}
      <4>1. top.at \in Tries
        <5>1. CASE j - 1 = 1
          BY <1>1, <2>2, <5>1
        <5>2. CASE j - 1 # 1
          <6>1. 1 \in DOMAIN calls /\ 1 < j - 1
            BY <1>1, <2>2, <5>2
          <6> QED
            BY <1>1, <3>1, <6>1 DEF Shape
        <5> QED
          BY <5>1, <5>2
      <4> QED
        BY <1>1, <3>3, <4>1
    <3> QED
      BY <1>1, <3>2, <3>3
  <2> QED
    BY <1>1, <1>3, <2>1, <2>2
<1>4. ASSUME NEW i \in DOMAIN calls', calls'[i].at \in Tries
      PROVE  \E k \in DOMAIN calls' : i < k /\ calls'[k].at = "result"
  <2>1. ASSUME NEW m \in DOMAIN calls, calls[m].at \in Tries, i <= m + 1
        PROVE  \E k \in DOMAIN calls' : i < k /\ calls'[k].at = "result"
    <3>1. PICK k \in DOMAIN calls : m < k /\ calls[k].at = "result"
      BY <2>1 DEF Shape
    <3>2. k + 1 \in DOMAIN calls' /\ calls'[k + 1] = calls[k] /\ i < k + 1
      BY <1>1, <2>1, <3>1
    <3> QED
      BY <3>1, <3>2
  <2>2. CASE i > 2
    <3>1. i - 1 \in DOMAIN calls /\ calls[i - 1].at \in Tries /\ i <= (i - 1) + 1
      BY <1>1, <1>4, <2>2
    <3> QED
      BY <2>1, <3>1
  <2>3. CASE i \in {1, 2} /\ top.at \in Tries
    BY <1>1, <2>1, <2>3
  <2>4. CASE i \in {1, 2} /\ top.at \notin Tries
    <3>1. i = 1 /\ g.at = "result"
      BY <1>1, <1>4, <2>4
    <3>2. 2 \in DOMAIN calls' /\ calls'[2].at = "result" /\ i < 2
      BY <1>1, <3>1
    <3> QED
      BY <3>2
  <2> QED
    BY <1>1, <2>2, <2>3, <2>4
<1>5. finalised' => calls' = <<>>
  BY DEF Shape
<1> QED
  BY <1>2, <1>3, <1>4, <1>5 DEF Shape, MayCall

(* The client calls the builder.                                           *)
LEMMA ShapePush ==
  ASSUME calls = <<>>, finalised = FALSE, UNCHANGED finalised,
         NEW f \in Frame, NEW g \in Frame,
         \/ calls' = <<f>> /\ f.at \notin Removes
         \/ calls' = <<f, g>> /\ MayCall(g, f)
            /\ f.at \notin Removes /\ g.at \notin Removes
  PROVE  Shape'
<1>1. CASE calls' = <<f>> /\ f.at \notin Removes
  BY <1>1 DEF Shape, Removes
<1>2. CASE calls' = <<f, g>> /\ MayCall(g, f)
           /\ f.at \notin Removes /\ g.at \notin Removes
  <2>1. /\ Len(calls') = 2 /\ DOMAIN calls' = 1..2
        /\ calls'[1] = f /\ calls'[2] = g
    BY <1>2
  <2>2. \A i \in 1..(Len(calls') - 1) : i = 1
    BY <2>1
  <2>3. \A i \in 1..(Len(calls') - 1) : MayCall(calls'[i + 1], calls'[i])
    BY <1>2, <2>1, <2>2
  <2>4. \A i \in DOMAIN calls' : calls'[i].at \notin Removes
    BY <1>2, <2>1
  <2> QED
    BY <2>3, <2>4 DEF Shape, Removes, MayCall
<1> QED
  BY <1>1, <1>2

(* What is below the frames that nothing calls but finalise, and above     *)
(* those that call nothing but a removal.                                  *)
LEMMA ShapeFacts ==
  ASSUME calls \in Seq(Frame), calls # <<>>, Shape
  PROVE  /\ finalised # TRUE
         /\ top.at \in {"use", "finalise"} => Tail(calls) = <<>>
         /\ top.at \in {"seal", "sealing"} =>
              \A f \in Below : f.at = "finalise"
         /\ top.at \notin Tries => \A f \in Below : f.at \notin Removes
         /\ \A f \in Frame : f \in Frames <=> f = top \/ f \in Below
         /\ Frames = {top} \cup Below
         /\ Below \subseteq Frame
         /\ Tail(calls) # <<>> =>
              /\ Head(Tail(calls)) \in Below
              /\ Head(Tail(calls)) = calls[2]
              /\ MayCall(Head(Tail(calls)), top)
<1>1. /\ top = calls[1]
      /\ DOMAIN calls = 1..Len(calls)
      /\ Len(calls) \in Nat \ {0}
      /\ Tail(calls) \in Seq(Frame)
      /\ Len(Tail(calls)) = Len(calls) - 1
      /\ DOMAIN Tail(calls) = 1..(Len(calls) - 1)
      /\ \A i \in 1..(Len(calls) - 1) : Tail(calls)[i] = calls[i + 1]
      /\ \A i \in 1..Len(calls) : calls[i] \in Frame
  BY StackShape
<1>2. \A f \in Below : \E i \in 2..Len(calls) : f = calls[i]
  <2>1. ASSUME NEW f \in Below
        PROVE  \E i \in 2..Len(calls) : f = calls[i]
    <3>1. PICK i \in 1..(Len(calls) - 1) : f = Tail(calls)[i]
      BY <1>1, <2>1 DEF Below, Range
    <3>2. i + 1 \in 2..Len(calls) /\ f = calls[i + 1]
      BY <1>1, <3>1
    <3> QED
      BY <3>2
  <2> QED
    BY <2>1
<1>3. \A i \in 2..Len(calls) : calls[i] \in Below
  <2>1. ASSUME NEW i \in 2..Len(calls)
        PROVE  calls[i] \in Below
    <3>1. i - 1 \in DOMAIN Tail(calls) /\ Tail(calls)[i - 1] = calls[i]
      BY <1>1
    <3> QED
      BY <3>1 DEF Below, Range
  <2> QED
    BY <2>1
<1>4. Frames = {top} \cup Below
  <2>1. ASSUME NEW f \in Frames PROVE f \in {top} \cup Below
    <3>1. PICK i \in 1..Len(calls) : f = calls[i]
      BY <1>1, <2>1 DEF Frames, Range
    <3> QED
      BY <1>1, <1>3, <3>1
  <2>2. ASSUME NEW f \in {top} \cup Below PROVE f \in Frames
    <3>1. \E i \in 1..Len(calls) : f = calls[i]
      BY <1>1, <1>2
    <3> QED
      BY <1>1, <3>1 DEF Frames, Range
  <2> QED
    BY <2>1, <2>2
<1>5. Below \subseteq Frame
  BY <1>1, <1>2
<1>6. ASSUME top.at \in {"use", "finalise"} PROVE Tail(calls) = <<>>
  <2>1. ASSUME Len(calls) > 1 PROVE FALSE
    <3>1. MayCall(calls[1 + 1], calls[1])
      BY <1>1, <2>1 DEF Shape
    <3> QED
      BY <1>1, <1>6, <3>1 DEF MayCall
  <2> QED
    BY <1>1, <2>1
<1>7. ASSUME top.at \in {"seal", "sealing"}, NEW f \in Below
      PROVE  f.at = "finalise"
  <2>1. PICK i \in 2..Len(calls) : f = calls[i]
    BY <1>2, <1>7
  <2>2. MayCall(calls[1 + 1], calls[1])
    BY <1>1, <2>1 DEF Shape
  <2>3. calls[2].at = "finalise"
    BY <1>1, <1>7, <2>2 DEF MayCall
  <2>4. ASSUME Len(calls) > 2 PROVE FALSE
    <3>1. MayCall(calls[2 + 1], calls[2])
      BY <1>1, <2>4 DEF Shape
    <3> QED
      BY <2>3, <3>1 DEF MayCall
  <2> QED
    BY <1>1, <2>1, <2>3, <2>4
<1>8. ASSUME top.at \notin Tries, NEW f \in Below
      PROVE  f.at \notin Removes
  <2>1. PICK i \in 2..Len(calls) : f = calls[i]
    BY <1>2, <1>8
  <2>2. 1 \in DOMAIN calls /\ i \in DOMAIN calls /\ 1 < i
    BY <1>1
  <2> QED
    BY <1>1, <1>8, <2>1, <2>2 DEF Shape
<1>9. ASSUME Tail(calls) # <<>>
      PROVE  /\ Head(Tail(calls)) \in Below
             /\ Head(Tail(calls)) = calls[2]
             /\ MayCall(Head(Tail(calls)), top)
  <2>1. Len(calls) > 1
    BY <1>1, <1>9
  <2>2. Head(Tail(calls)) = calls[2]
    BY <1>1, <2>1
  <2>3. MayCall(calls[1 + 1], calls[1])
    BY <1>1, <2>1 DEF Shape
  <2> QED
    BY <1>1, <1>3, <2>1, <2>2, <2>3
<1> QED
  BY <1>4, <1>5, <1>6, <1>7, <1>8, <1>9 DEF Shape

(* The frames after a step.                                                *)
LEMMA FramesAfter ==
  ASSUME calls \in Seq(Frame), calls # <<>>
  PROVE  /\ calls' = Tail(calls) => Frames' = Below
         /\ \A f \in Frame : Become(<<f>>) =>
              /\ Frames' = {f} \cup Below
              /\ calls' # <<>> /\ calls'[1] = f /\ top' = f
         /\ \A f, g \in Frame : Become(<<f, g>>) =>
              /\ Frames' = {f, g} \cup Below
              /\ calls' # <<>> /\ calls'[1] = f /\ top' = f
<1>1. Len(calls) \in Nat \ {0} /\ Len(Tail(calls)) = Len(calls) - 1
      /\ \A i \in 1..(Len(calls) - 1) : Tail(calls)[i] = calls[i + 1]
      /\ DOMAIN Tail(calls) = 1..(Len(calls) - 1)
  BY StackShape
<1>2. calls' = Tail(calls) => Frames' = Below
  BY DEF Frames, Below
<1>3. ASSUME NEW f \in Frame, Become(<<f>>)
      PROVE  /\ Frames' = {f} \cup Below
             /\ calls' # <<>> /\ calls'[1] = f /\ top' = f
  <2>1. /\ Len(calls') = Len(calls) /\ DOMAIN calls' = 1..Len(calls)
        /\ calls'[1] = f /\ calls' # <<>>
        /\ \A i \in 2..Len(calls) : calls'[i] = calls[i]
    BY <1>1, <1>3, StackShape DEF Become
  <2>2. \A i \in 1..(Len(calls) - 1) : Tail(calls)[i] = calls'[i + 1]
    BY <1>1, <2>1
  <2>3. \A i \in 2..Len(calls) : i - 1 \in 1..(Len(calls) - 1)
                                 /\ calls'[i] = Tail(calls)[i - 1]
    BY <1>1, <2>1
  <2>4. ASSUME NEW h \in Frames' PROVE h \in {f} \cup Below
    <3>1. PICK i \in 1..Len(calls) : h = calls'[i]
      BY <2>1, <2>4 DEF Frames, Range
    <3>2. CASE i = 1
      BY <2>1, <3>1, <3>2
    <3>3. CASE i # 1
      <4>1. i \in 2..Len(calls)
        BY <3>3
      <4> QED
        BY <1>1, <2>3, <3>1, <4>1 DEF Below, Range
    <3> QED
      BY <3>2, <3>3
  <2>5. ASSUME NEW h \in {f} \cup Below PROVE h \in Frames'
    <3>1. CASE h = f
      BY <1>1, <2>1, <3>1 DEF Frames, Range
    <3>2. CASE h \in Below
      <4>1. PICK i \in 1..(Len(calls) - 1) : h = Tail(calls)[i]
        BY <1>1, <3>2 DEF Below, Range
      <4>2. i + 1 \in DOMAIN calls' /\ h = calls'[i + 1]
        BY <1>1, <2>1, <2>2, <4>1
      <4> QED
        BY <4>2 DEF Frames, Range
    <3> QED
      BY <2>5, <3>1, <3>2
  <2> QED
    BY <2>1, <2>4, <2>5 DEF top
<1>4. ASSUME NEW f \in Frame, NEW g \in Frame, Become(<<f, g>>)
      PROVE  /\ Frames' = {f, g} \cup Below
             /\ calls' # <<>> /\ calls'[1] = f /\ top' = f
  <2>1. /\ Len(calls') = Len(calls) + 1 /\ DOMAIN calls' = 1..(Len(calls) + 1)
        /\ calls'[1] = f /\ calls'[2] = g /\ calls' # <<>>
        /\ \A i \in 3..(Len(calls) + 1) : calls'[i] = calls[i - 1]
    BY <1>1, <1>4, StackShape DEF Become
  <2>2. \A i \in 1..(Len(calls) - 1) : Tail(calls)[i] = calls'[i + 2]
    BY <1>1, <2>1
  <2>3. \A i \in 3..(Len(calls) + 1) : i - 2 \in 1..(Len(calls) - 1)
                                       /\ calls'[i] = Tail(calls)[i - 2]
    BY <1>1, <2>1
  <2>4. ASSUME NEW h \in Frames' PROVE h \in {f, g} \cup Below
    <3>1. PICK i \in 1..(Len(calls) + 1) : h = calls'[i]
      BY <2>1, <2>4 DEF Frames, Range
    <3>2. CASE i \in {1, 2}
      BY <2>1, <3>1, <3>2
    <3>3. CASE i \notin {1, 2}
      <4>1. i \in 3..(Len(calls) + 1)
        BY <3>3
      <4> QED
        BY <1>1, <2>3, <3>1, <4>1 DEF Below, Range
    <3> QED
      BY <3>2, <3>3
  <2>5. ASSUME NEW h \in {f, g} \cup Below PROVE h \in Frames'
    <3>1. CASE h \in {f, g}
      <4>1. 1 \in DOMAIN calls' /\ 2 \in DOMAIN calls'
        BY <1>1, <2>1
      <4> QED
        BY <2>1, <3>1, <4>1 DEF Frames, Range
    <3>2. CASE h \in Below
      <4>1. PICK i \in 1..(Len(calls) - 1) : h = Tail(calls)[i]
        BY <1>1, <3>2 DEF Below, Range
      <4>2. i + 2 \in DOMAIN calls' /\ h = calls'[i + 2]
        BY <1>1, <2>1, <2>2, <4>1
      <4> QED
        BY <4>2 DEF Frames, Range
    <3> QED
      BY <2>5, <3>1, <3>2
  <2> QED
    BY <2>1, <2>4, <2>5 DEF top
<1> QED
  BY <1>2, <1>3, <1>4

-----------------------------------------------------------------------------
(* What each step does to the stack                                        *)

(* The frame that runs.                                                    *)
LEMMA TopFields ==
  ASSUME InductiveSSA, Shape, NEW k, Running(k)
  PROVE  /\ calls \in Seq(Frame) /\ calls # <<>> /\ top \in Frame
         /\ top = calls[1] /\ top.at = k /\ finalised = FALSE
         /\ k \in {"read", "write"} => top.var \in Var /\ top.block \in Block
         /\ k \in {"operands", "operand"} =>
              top.phi \in Reg /\ top.block \in Block /\ top.todo \in Seq(Block)
         /\ k = "operand" => top.todo # <<>>
         /\ k \in {"try", "result", "fixup"} => top.phi \in Reg
         /\ k = "users" => top.users \subseteq Reg
         /\ k = "seal" => top.block \in Block
         /\ k = "sealing" => top.block \in Block /\ top.todo \in Seq(Reg)
         /\ k = "finalise" => top.blocks \subseteq Block
<1>1. calls \in Seq(Frame) /\ CallsOK /\ finalised \in BOOLEAN
  BY TypeParts DEF InductiveSSA, TypeOK
<1>2. calls # <<>> /\ top \in Frame /\ top.at = k
  BY <1>1, RunningFrame
<1>3. top = calls[1] /\ finalised = FALSE
  BY <1>1, <1>2, StackShape DEF Shape
<1>4. k = "operand" => top.todo # <<>>
  BY <1>2, FrameFields
<1> QED
  BY <1>1, <1>2, <1>3, <1>4, FrameFields

LEMMA Returns ==
  ASSUME InductiveSSA, Shape, NEW k, Running(k), calls' = Tail(calls),
         UNCHANGED finalised
  PROVE  Frames' = Below /\ Shape'
<1>1. calls \in Seq(Frame) /\ calls # <<>> /\ finalised = FALSE
  BY TopFields
<1> QED
  BY <1>1, ShapeReturn, FramesAfter

LEMMA ReturnMoves ==
  ASSUME InductiveSSA, Shape,
         \/ ReadLocal \/ ReadUnsealed \/ WriteBack \/ FixupComplete
         \/ TryUndefined \/ TryNotTrivial \/ SealComplete \/ AddUse
  PROVE  calls' = Tail(calls) /\ Frames' = Below /\ Shape'
<1>1. CASE ReadLocal
  BY <1>1, Returns DEF ReadLocal, Found, Reading, Return
<1>2. CASE ReadUnsealed
  BY <1>2, Returns DEF ReadUnsealed, Missing, Found, Reading, Return
<1>3. CASE WriteBack
  BY <1>3, Returns DEF WriteBack, Return
<1>4. CASE FixupComplete
  BY <1>4, Returns DEF FixupComplete, Return
<1>5. CASE TryUndefined
  BY <1>5, Returns DEF TryUndefined, Warn, Return
<1>6. CASE TryNotTrivial
  BY <1>6, Returns DEF TryNotTrivial, Return
<1>7. CASE SealComplete
  BY <1>7, Returns DEF SealComplete, Return
<1>8. CASE AddUse
  BY <1>8, Returns DEF AddUse, Return
<1> QED
  BY <1>1, <1>2, <1>3, <1>4, <1>5, <1>6, <1>7, <1>8

LEMMA ReadSinglePredecessorMoves ==
  ASSUME InductiveSSA, Shape, ReadSinglePredecessor
  PROVE  LET f == ReadFrame(top.var, Head(preds[top.block]))
             g == WriteFrame(top.var, top.block)
         IN /\ f \in Frame /\ g \in Frame
            /\ Become(<<f, g>>) /\ Frames' = {f, g} \cup Below /\ top' = f
            /\ calls' # <<>> /\ calls'[1] = f
            /\ Head(preds[top.block]) \in Range(preds[top.block])
            /\ Shape'
<1> DEFINE f == ReadFrame(top.var, Head(preds[top.block]))
           g == WriteFrame(top.var, top.block)
<1>1. Running("read") /\ Become(<<f, g>>) /\ UNCHANGED finalised
  BY DEF ReadSinglePredecessor, OnePredecessor, Missing, Found, Reading
<1>2. /\ Head(preds[top.block]) \in Block
      /\ Head(preds[top.block]) \in Range(preds[top.block])
  <2>1. preds[top.block] \in Seq(Block) /\ Len(preds[top.block]) = 1
    BY <1>1, TopFields
    DEF InductiveSSA, TypeOK, ReadSinglePredecessor, OnePredecessor
  <2> QED
    BY <2>1 DEF Range
<1>3. f \in Frame /\ g \in Frame /\ f.at = "read" /\ g.at = "write"
  BY <1>1, <1>2, TopFields, FrameTypes DEF ReadFrame, WriteFrame
<1>4. calls \in Seq(Frame) /\ calls # <<>> /\ top.at = "read"
  BY <1>1, TopFields
<1>5. Shape'
  <2> HIDE DEF f, g
  <2> QED
    BY <1>1, <1>3, <1>4, ShapeTwo DEF MayCall, Marks, Gathers, Tries, Removes
<1> QED
  BY <1>1, <1>2, <1>3, <1>4, <1>5, FramesAfter

LEMMA ReadJoinMoves ==
  ASSUME InductiveSSA, Shape, ReadJoin
  PROVE  LET f == OperandsFrame(NewRegister(top.var), top.block,
                                preds[top.block])
             g == WriteFrame(top.var, top.block)
         IN /\ f \in Frame /\ g \in Frame
            /\ Become(<<f, g>>) /\ Frames' = {f, g} \cup Below /\ top' = f
            /\ calls' # <<>> /\ calls'[1] = f
            /\ Shape'
<1> DEFINE f == OperandsFrame(NewRegister(top.var), top.block,
                              preds[top.block])
           g == WriteFrame(top.var, top.block)
<1>1. Running("read") /\ Become(<<f, g>>) /\ UNCHANGED finalised
  BY DEF ReadJoin, Missing, Found, Reading
<1>2. NewRegister(top.var) \in Reg /\ preds[top.block] \in Seq(Block)
  BY <1>1, TopFields, QueryTypes DEF InductiveSSA, TypeOK
<1>3. f \in Frame /\ g \in Frame /\ f.at = "operands" /\ g.at = "write"
  BY <1>1, <1>2, TopFields, FrameTypes DEF OperandsFrame, WriteFrame
<1>4. calls \in Seq(Frame) /\ calls # <<>> /\ top.at = "read"
  BY <1>1, TopFields
<1>5. Shape'
  <2> HIDE DEF f, g
  <2> QED
    BY <1>1, <1>3, <1>4, ShapeTwo DEF MayCall, Marks, Gathers, Tries, Removes
<1> QED
  BY <1>1, <1>3, <1>4, <1>5, FramesAfter

LEMMA ReadOperandMoves ==
  ASSUME InductiveSSA, Shape, ReadOperand
  PROVE  LET f == ReadFrame(VarOf(top.phi), Head(top.todo))
             g == OperandFrame(top.phi, top.block, top.todo)
         IN /\ f \in Frame /\ g \in Frame
            /\ Become(<<f, g>>) /\ Frames' = {f, g} \cup Below /\ top' = f
            /\ calls' # <<>> /\ calls'[1] = f
            /\ Shape'
<1> DEFINE f == ReadFrame(VarOf(top.phi), Head(top.todo))
           g == OperandFrame(top.phi, top.block, top.todo)
<1>1. /\ Running("operands") /\ Become(<<f, g>>) /\ UNCHANGED finalised
      /\ top.todo # <<>>
  BY DEF ReadOperand
<1>2. VarOf(top.phi) \in Var /\ Head(top.todo) \in Block
  <2>1. top.phi \in Reg /\ top.todo \in Seq(Block) /\ top.todo # <<>>
    BY <1>1, TopFields
  <2>2. Head(top.todo) \in Block
    BY <2>1
  <2> QED
    BY <2>1, <2>2 DEF VarOf, Reg
<1>3. f \in Frame /\ g \in Frame /\ f.at = "read" /\ g.at = "operand"
  BY <1>1, <1>2, TopFields, FrameTypes DEF ReadFrame, OperandFrame
<1>4. calls \in Seq(Frame) /\ calls # <<>> /\ top.at = "operands"
  BY <1>1, TopFields
<1>5. Shape'
  <2> HIDE DEF f, g
  <2> QED
    BY <1>1, <1>3, <1>4, ShapeTwo DEF MayCall, Marks, Gathers, Tries, Removes
<1> QED
  BY <1>1, <1>3, <1>4, <1>5, FramesAfter

LEMMA AppendOperandMoves ==
  ASSUME InductiveSSA, Shape, AppendOperand
  PROVE  LET f == OperandsFrame(top.phi, top.block, Tail(top.todo))
         IN /\ f \in Frame
            /\ Become(<<f>>) /\ Frames' = {f} \cup Below /\ top' = f
            /\ calls' # <<>> /\ calls'[1] = f
            /\ Shape'
<1> DEFINE f == OperandsFrame(top.phi, top.block, Tail(top.todo))
<1>1. Running("operand") /\ Become(<<f>>) /\ UNCHANGED finalised
  BY DEF AppendOperand, NextOperand
<1>2. Tail(top.todo) \in Seq(Block)
  <2>1. top.todo \in Seq(Block) /\ top.todo # <<>>
    BY <1>1, TopFields
  <2> QED
    BY <2>1
<1>3. f \in Frame /\ f.at = "operands"
  BY <1>1, <1>2, TopFields, FrameTypes DEF OperandsFrame
<1>4. calls \in Seq(Frame) /\ calls # <<>> /\ top.at = "operand"
  BY <1>1, TopFields
<1>5. Shape'
  <2> HIDE DEF f
  <2> QED
    BY <1>1, <1>3, <1>4, ShapeOne DEF MayCall, Marks, Gathers, Tries
<1> QED
  BY <1>1, <1>3, <1>4, <1>5, FramesAfter

LEMMA OperandsCompleteMoves ==
  ASSUME InductiveSSA, Shape, OperandsComplete
  PROVE  LET f == PhiFrame("try", top.phi)
             g == PhiFrame("result", top.phi)
         IN /\ f \in Frame /\ g \in Frame
            /\ Become(<<f, g>>) /\ Frames' = {f, g} \cup Below /\ top' = f
            /\ calls' # <<>> /\ calls'[1] = f
            /\ Shape'
<1> DEFINE f == PhiFrame("try", top.phi)
           g == PhiFrame("result", top.phi)
<1>1. Running("operands") /\ Become(<<f, g>>) /\ UNCHANGED finalised
  BY DEF OperandsComplete
<1>2. f \in Frame /\ g \in Frame /\ f.at = "try" /\ g.at = "result"
  BY <1>1, TopFields, FrameTypes DEF PhiFrame
<1>3. calls \in Seq(Frame) /\ calls # <<>> /\ top.at = "operands"
  BY <1>1, TopFields
<1>4. Shape'
  <2> HIDE DEF f, g
  <2> QED
    BY <1>1, <1>2, <1>3, ShapeTwo DEF MayCall, Marks, Gathers, Tries, Removes
<1> QED
  BY <1>1, <1>2, <1>3, <1>4, FramesAfter

LEMMA CollectResultMoves ==
  ASSUME InductiveSSA, Shape, CollectResult
  PROVE  LET f == PhiFrame("fixup", top.phi)
         IN /\ removals = <<>> =>
                 calls' = Tail(calls) /\ Frames' = Below
            /\ removals # <<>> =>
                 /\ f \in Frame
                 /\ Become(<<f>>) /\ Frames' = {f} \cup Below /\ top' = f
                 /\ calls' # <<>> /\ calls'[1] = f
            /\ Shape'
<1> DEFINE f == PhiFrame("fixup", top.phi)
<1>1. Running("result") /\ UNCHANGED finalised
  BY DEF CollectResult
<1>2. ASSUME removals = <<>>
      PROVE  calls' = Tail(calls) /\ Frames' = Below /\ Shape'
  BY <1>1, <1>2, Returns DEF CollectResult, Return
<1>3. ASSUME removals # <<>>
      PROVE  /\ f \in Frame
             /\ Become(<<f>>) /\ Frames' = {f} \cup Below /\ top' = f
             /\ calls' # <<>> /\ calls'[1] = f
             /\ Shape'
  <2>1. Become(<<f>>)
    BY <1>3 DEF CollectResult
  <2>2. f \in Frame /\ f.at = "fixup"
    BY <1>1, TopFields, FrameTypes DEF PhiFrame
  <2>3. calls \in Seq(Frame) /\ calls # <<>> /\ top.at = "result"
    BY <1>1, TopFields
  <2>4. Shape'
    <3> HIDE DEF f
    <3> QED
      BY <1>1, <2>1, <2>2, <2>3, ShapeOne DEF MayCall, Marks, Gathers, Tries
  <2> QED
    BY <2>1, <2>2, <2>3, <2>4, FramesAfter
<1> QED
  BY <1>2, <1>3

LEMMA TryTrivialMoves ==
  ASSUME InductiveSSA, Shape, TryTrivial
  PROVE  LET f == UsersFrame(UsersOf(top.phi))
         IN /\ f \in Frame
            /\ Become(<<f>>) /\ Frames' = {f} \cup Below /\ top' = f
            /\ calls' # <<>> /\ calls'[1] = f
            /\ Shape'
<1> DEFINE f == UsersFrame(UsersOf(top.phi))
<1>1. Running("try") /\ Become(<<f>>) /\ UNCHANGED finalised
  BY DEF TryTrivial
<1>2. UsersOf(top.phi) \subseteq Reg
  BY <1>1, TopFields, QueryTypes DEF InductiveSSA
<1>3. f \in Frame /\ f.at = "users"
  BY <1>2, FrameTypes DEF UsersFrame
<1>4. calls \in Seq(Frame) /\ calls # <<>> /\ top.at = "try"
  BY <1>1, TopFields
<1>5. Shape'
  <2> HIDE DEF f
  <2> QED
    BY <1>1, <1>3, <1>4, ShapeOne DEF MayCall, Marks, Gathers, Tries
<1> QED
  BY <1>1, <1>3, <1>4, <1>5, FramesAfter

LEMMA TryUsersMoves ==
  ASSUME InductiveSSA, Shape, TryUsers
  PROVE  /\ Shape'
         /\ \/ calls' = Tail(calls) /\ Frames' = Below
            \/ \E u \in top.users :
                 LET f == PhiFrame("try", u)
                     g == UsersFrame(top.users \ {u})
                 IN /\ f \in Frame /\ g \in Frame
                    /\ Become(<<f, g>>) /\ Frames' = {f, g} \cup Below
                    /\ top' = f /\ calls' # <<>> /\ calls'[1] = f
<1>1. Running("users") /\ UNCHANGED finalised
  BY DEF TryUsers
<1>2. ASSUME Return(ret)
      PROVE  calls' = Tail(calls) /\ Frames' = Below /\ Shape'
  BY <1>1, <1>2, Returns DEF Return
<1>3. ASSUME NEW u \in top.users,
             Become(<<PhiFrame("try", u), UsersFrame(top.users \ {u})>>)
      PROVE  LET f == PhiFrame("try", u)
                 g == UsersFrame(top.users \ {u})
             IN /\ f \in Frame /\ g \in Frame
                /\ Become(<<f, g>>) /\ Frames' = {f, g} \cup Below
                /\ top' = f /\ calls' # <<>> /\ calls'[1] = f
                /\ Shape'
  <2> DEFINE f == PhiFrame("try", u)
             g == UsersFrame(top.users \ {u})
  <2>1. f \in Frame /\ g \in Frame /\ f.at = "try" /\ g.at = "users"
    BY <1>1, <1>3, TopFields, FrameTypes DEF PhiFrame, UsersFrame
  <2>2. calls \in Seq(Frame) /\ calls # <<>> /\ top.at = "users"
    BY <1>1, TopFields
  <2>3. Become(<<f, g>>)
    BY <1>3
  <2>4. Shape'
    <3> HIDE DEF f, g
    <3> QED
      BY <1>1, <2>1, <2>2, <2>3, ShapeTwo
      DEF MayCall, Marks, Gathers, Tries, Removes
  <2> QED
    BY <2>1, <2>2, <2>3, <2>4, FramesAfter
<1> QED
  BY <1>2, <1>3 DEF TryUsers

LEMMA CompletePhiMoves ==
  ASSUME InductiveSSA, Shape, CompletePhi
  PROVE  LET f == OperandsFrame(Head(top.todo), top.block, preds[top.block])
             g == SealingFrame(top.block, Tail(top.todo))
         IN /\ f \in Frame /\ g \in Frame
            /\ Become(<<f, g>>) /\ Frames' = {f, g} \cup Below /\ top' = f
            /\ calls' # <<>> /\ calls'[1] = f
            /\ Shape'
<1> DEFINE f == OperandsFrame(Head(top.todo), top.block, preds[top.block])
           g == SealingFrame(top.block, Tail(top.todo))
<1>1. /\ Running("sealing") /\ Become(<<f, g>>) /\ UNCHANGED finalised
      /\ top.todo # <<>>
  BY DEF CompletePhi, OtherPhis
<1>2. /\ Head(top.todo) \in Reg /\ Tail(top.todo) \in Seq(Reg)
      /\ preds[top.block] \in Seq(Block)
  <2>1. /\ top.todo \in Seq(Reg) /\ top.todo # <<>>
        /\ preds[top.block] \in Seq(Block)
    BY <1>1, TopFields DEF InductiveSSA, TypeOK
  <2> QED
    BY <2>1
<1>3. f \in Frame /\ g \in Frame /\ f.at = "operands" /\ g.at = "sealing"
  BY <1>1, <1>2, TopFields, FrameTypes DEF OperandsFrame, SealingFrame
<1>4. calls \in Seq(Frame) /\ calls # <<>> /\ top.at = "sealing"
  BY <1>1, TopFields
<1>5. Shape'
  <2> HIDE DEF f, g
  <2> QED
    BY <1>1, <1>3, <1>4, ShapeTwo DEF MayCall, Marks, Gathers, Tries, Removes
<1> QED
  BY <1>1, <1>3, <1>4, <1>5, FramesAfter

LEMMA FinaliseSealMoves ==
  ASSUME InductiveSSA, Shape, FinaliseSeal
  PROVE  /\ Shape'
         /\ \E b \in top.blocks :
              LET f == SealFrame(b)
                  g == FinaliseFrame(top.blocks \ {b})
              IN /\ f \in Frame /\ g \in Frame
                 /\ Become(<<f, g>>) /\ Frames' = {f, g} \cup Below
                 /\ top' = f /\ calls' # <<>> /\ calls'[1] = f
<1>1. Running("finalise") /\ UNCHANGED finalised
  BY DEF FinaliseSeal
<1>2. PICK b \in top.blocks :
        Become(<<SealFrame(b), FinaliseFrame(top.blocks \ {b})>>)
  BY DEF FinaliseSeal
<1> DEFINE f == SealFrame(b)
           g == FinaliseFrame(top.blocks \ {b})
<1>3. f \in Frame /\ g \in Frame /\ f.at = "seal" /\ g.at = "finalise"
  BY <1>1, TopFields, FrameTypes DEF SealFrame, FinaliseFrame
<1>4. calls \in Seq(Frame) /\ calls # <<>> /\ top.at = "finalise"
  BY <1>1, TopFields
<1>5. Become(<<f, g>>)
  BY <1>2
<1>6. Shape'
  <2> HIDE DEF f, g
  <2> QED
    BY <1>1, <1>3, <1>4, <1>5, ShapeTwo
    DEF MayCall, Marks, Gathers, Tries, Removes
<1> QED
  BY <1>3, <1>4, <1>5, <1>6, FramesAfter

LEMMA StartSealMoves ==
  ASSUME InductiveSSA, Shape, StartSeal
  PROVE  /\ Shape'
         /\ \/ calls' = <<>> /\ Frames' = {} /\ UNCHANGED incomplete
            \/ LET f == SealingFrame(top.block, incomplete[top.block])
               IN /\ f \in Frame
                  /\ Become(<<f>>) /\ Frames' = {f} \cup Below /\ top' = f
                  /\ calls' # <<>> /\ calls'[1] = f
                  /\ incomplete' = [incomplete EXCEPT ![top.block] = <<>>]
                  /\ top.block \notin sealed
<1> DEFINE f == SealingFrame(top.block, incomplete[top.block])
<1>1. Running("seal") /\ UNCHANGED finalised
  BY DEF StartSeal
<1>2. f \in Frame /\ f.at = "sealing"
  <2>1. incomplete[top.block] \in Seq(Reg)
    BY <1>1, TopFields DEF InductiveSSA, TypeOK
  <2> QED
    BY <1>1, <2>1, TopFields, FrameTypes DEF SealingFrame
<1>3. calls \in Seq(Frame) /\ calls # <<>> /\ top.at = "seal"
      /\ finalised = FALSE
  BY <1>1, TopFields
<1>4. CASE calls' = <<>> /\ UNCHANGED incomplete
  <2>1. Shape' /\ Frames' = {}
    BY <1>4 DEF Shape, Frames, Range
  <2> QED
    BY <1>4, <2>1
<1>5. CASE Become(<<f>>) /\ TakeIncomplete(top.block) /\ top.block \notin sealed
  <2>1. Become(<<f>>)
    BY <1>5
  <2>2. Shape'
    <3> HIDE DEF f
    <3> QED
      BY <1>1, <1>2, <1>3, <2>1, ShapeOne DEF MayCall, Marks, Gathers, Tries
  <2> QED
    BY <1>2, <1>3, <1>5, <2>1, <2>2, FramesAfter DEF TakeIncomplete
<1> QED
  BY <1>4, <1>5 DEF StartSeal, Raise

LEMMA FixupDefinitionsMoves ==
  ASSUME InductiveSSA, Shape, FixupDefinitions
  PROVE  Shape' /\ ((calls' = <<>> /\ Frames' = {}) \/ calls' = calls)
<1>1. Running("fixup") /\ UNCHANGED finalised
  BY DEF FixupDefinitions
<1>2. finalised = FALSE
  BY <1>1, TopFields
<1>3. CASE calls' = <<>>
  BY <1>1, <1>2, <1>3 DEF Shape, Frames, Range
<1>4. CASE calls' = calls
  BY <1>1, <1>4 DEF Shape
<1> QED
  BY <1>3, <1>4 DEF FixupDefinitions, Raise

LEMMA FinaliseCompleteMoves ==
  ASSUME InductiveSSA, Shape, FinaliseComplete
  PROVE  Shape' /\ calls' = <<>> /\ Frames' = {}
<1>1. Running("finalise")
  BY DEF FinaliseComplete
<1>2. finalised = FALSE /\ calls \in Seq(Frame) /\ calls # <<>>
      /\ top.at = "finalise"
  BY <1>1, TopFields
<1>3. Tail(calls) = <<>>
  BY <1>2, ShapeFacts
<1>4. calls' = <<>>
  BY <1>3 DEF FinaliseComplete, Raise, Return
<1> QED
  BY <1>4 DEF Shape, Frames, Range

(* The operations of the client start with an empty stack.                 *)
LEMMA ClientMoves ==
  ASSUME InductiveSSA, Shape, Client
  PROVE  /\ calls = <<>> /\ Frames = {} /\ Shape' /\ UNCHANGED finalised
         /\ finalised = FALSE /\ fault = "none"
         /\ \/ calls' = <<>> /\ Frames' = {}
            \/ \E v \in Var : LET f == ReadFrame(v, active) IN
                 /\ f \in Frame /\ top' = f /\ calls' # <<>> /\ calls'[1] = f
                 /\ Frames' \in {{f}, {f, UseFrame}}
            \/ \E b \in Block : LET f == SealFrame(b) IN
                 /\ f \in Frame /\ top' = f /\ calls' # <<>> /\ calls'[1] = f
                 /\ Frames' = {f}
            \/ \E bs \in SUBSET Block : LET f == FinaliseFrame(bs) IN
                 /\ f \in Frame /\ top' = f /\ calls' # <<>> /\ calls'[1] = f
                 /\ Frames' = {f}
<1>1. Idle /\ UNCHANGED finalised
  BY DEF Client, Assign, UseVariable, UseHeld, ReadVariable, Terminate,
         SealedTarget, Activate, ActivateOpen, ActivateThen, CloseOpen,
         Finalise, Open
<1>2. calls = <<>> /\ finalised = FALSE /\ fault = "none" /\ Frames = {}
  BY <1>1 DEF Idle, InductiveSSA, TypeOK, Frames, Range
<1>3. active \in Block
  BY QueryTypes DEF InductiveSSA
<1>4. ASSUME calls' = <<>> PROVE Shape' /\ Frames' = {}
  BY <1>1, <1>2, <1>4 DEF Shape, Frames, Range
<1>5. ASSUME NEW f \in Frame, Push(<<f>>), f.at \notin Removes
      PROVE  /\ Shape' /\ top' = f /\ calls' # <<>> /\ calls'[1] = f
             /\ Frames' = {f}
  <2>1. calls' = <<f>>
    BY <1>2, <1>5 DEF Push
  <2>2. Shape'
    BY <1>1, <1>2, <1>5, <2>1, ShapePush
  <2>3. top' = f /\ calls' # <<>> /\ calls'[1] = f /\ DOMAIN calls' = {1}
    BY <2>1 DEF top
  <2>4. Frames' = {f}
    BY <2>3 DEF Frames, Range
  <2> QED
    BY <2>2, <2>3, <2>4
<1>6. ASSUME NEW v \in Var,
             Push(<<ReadFrame(v, active)>>)
               \/ Push(<<ReadFrame(v, active), UseFrame>>)
      PROVE  LET f == ReadFrame(v, active) IN
             /\ Shape' /\ f \in Frame /\ top' = f /\ calls' # <<>>
             /\ calls'[1] = f /\ Frames' \in {{f}, {f, UseFrame}}
  <2> DEFINE f == ReadFrame(v, active)
             g == UseFrame
  <2> SUFFICES /\ Shape' /\ f \in Frame /\ top' = f /\ calls' # <<>>
               /\ calls'[1] = f /\ Frames' \in {{f}, {f, g}}
    OBVIOUS
  <2>0. Push(<<f>>) \/ Push(<<f, g>>)
    BY <1>6
  <2>1. f \in Frame /\ g \in Frame /\ f.at = "read" /\ g.at = "use"
    BY <1>3, FrameTypes DEF ReadFrame, UseFrame
  <2> HIDE DEF f, g
  <2>2. CASE Push(<<f>>)
    <3>1. f.at \notin Removes
      BY <2>1 DEF Removes, Tries
    <3> QED
      BY <1>5, <2>1, <2>2, <3>1
  <2>3. CASE Push(<<f, g>>)
    <3>1. calls' = <<f, g>>
      BY <1>2, <2>3 DEF Push
    <3>2. MayCall(g, f) /\ f.at \notin Removes /\ g.at \notin Removes
      BY <2>1 DEF MayCall, Marks, Gathers, Tries, Removes
    <3>3. Shape'
      BY <1>1, <1>2, <2>1, <3>1, <3>2, ShapePush
    <3>4. top' = f /\ calls' # <<>> /\ calls'[1] = f
      BY <3>1 DEF top
    <3>5. Frames' = {f, g}
      BY <3>1 DEF Frames, Range
    <3> QED
      BY <2>1, <3>3, <3>4, <3>5
  <2> QED
    BY <2>0, <2>2, <2>3
<1>7. ASSUME NEW b \in Block, Push(SealIfUnlabelled(b))
      PROVE  \/ calls' = <<>>
             \/ LET f == SealFrame(b) IN
                /\ f \in Frame /\ top' = f /\ calls' # <<>>
                /\ calls'[1] = f /\ Frames' = {f} /\ Shape'
  <2>1. SealFrame(b) \in Frame /\ SealFrame(b).at \notin Removes
    BY FrameTypes DEF SealFrame, Removes, Tries
  <2>2. Push(<<>>) => calls' = <<>>
    BY <1>2 DEF Push
  <2> QED
    BY <1>5, <1>7, <2>1, <2>2 DEF SealIfUnlabelled
<1>8. ASSUME NEW bs \in SUBSET Block, Push(<<FinaliseFrame(bs)>>)
      PROVE  LET f == FinaliseFrame(bs) IN
             /\ f \in Frame /\ top' = f /\ calls' # <<>> /\ calls'[1] = f
             /\ Frames' = {f} /\ Shape'
  <2>1. FinaliseFrame(bs) \in Frame /\ FinaliseFrame(bs).at \notin Removes
    BY FrameTypes DEF FinaliseFrame, Removes, Tries
  <2> QED
    BY <1>5, <1>8, <2>1
<1>9. \/ calls' = <<>>
      \/ \E v \in Var : Push(<<ReadFrame(v, active)>>)
                        \/ Push(<<ReadFrame(v, active), UseFrame>>)
      \/ \E b \in Block : Push(SealIfUnlabelled(b))
      \/ \E bs \in SUBSET Block : Push(<<FinaliseFrame(bs)>>)
  <2>1. Push(<<>>) => calls' = <<>>
    BY <1>2 DEF Push
  <2>2. ASSUME NEW b \in Block, Activate(b) \/ ActivateOpen(b) \/ CloseOpen(b)
        PROVE  calls' = <<>> \/ Push(SealIfUnlabelled(b))
    BY <1>2, <2>1, <2>2
    DEF Activate, ActivateOpen, ActivateThen, CloseOpen, Raise
  <2>3. ASSUME NEW ts \in SUBSET Block, Terminate(ts)
        PROVE  calls' = <<>>
    BY <1>2, <2>3 DEF Terminate, SealedTarget, Raise
  <2>4. ASSUME Finalise
        PROVE  \E bs \in SUBSET Block : Push(<<FinaliseFrame(bs)>>)
    <3>1. Labelled \cap Range(blocks) \in SUBSET Block
      BY ConstantsAssumption
    <3> QED
      BY <2>4, <3>1 DEF Finalise
  <2>5. ASSUME NEW v \in Var, Assign(v) PROVE calls' = <<>>
    BY <1>2, <2>5 DEF Assign, callVars
  <2>6. ASSUME NEW r, UseHeld(r) PROVE calls' = <<>>
    BY <1>2, <2>6 DEF UseHeld, callVars
  <2>7. ASSUME NEW v \in Var, UseVariable(v) \/ ReadVariable(v)
        PROVE  Push(<<ReadFrame(v, active)>>)
               \/ Push(<<ReadFrame(v, active), UseFrame>>)
    BY <2>7 DEF UseVariable, ReadVariable
  <2> QED
    BY <2>2, <2>3, <2>4, <2>5, <2>6, <2>7 DEF Client
<1>10. ASSUME NEW v \in Var,
              Push(<<ReadFrame(v, active)>>)
                \/ Push(<<ReadFrame(v, active), UseFrame>>)
       PROVE  Shape' /\ \E w \in Var : LET f == ReadFrame(w, active) IN
                 /\ f \in Frame /\ top' = f /\ calls' # <<>> /\ calls'[1] = f
                 /\ Frames' \in {{f}, {f, UseFrame}}
  BY <1>6, <1>10
<1>11. ASSUME NEW bs \in SUBSET Block, Push(<<FinaliseFrame(bs)>>)
       PROVE  Shape' /\ \E cs \in SUBSET Block : LET f == FinaliseFrame(cs) IN
                 /\ f \in Frame /\ top' = f /\ calls' # <<>> /\ calls'[1] = f
                 /\ Frames' = {f}
  BY <1>8, <1>11
<1>12. CASE calls' = <<>>
  BY <1>1, <1>2, <1>4, <1>12
<1>13. CASE \E v \in Var : Push(<<ReadFrame(v, active)>>)
                        \/ Push(<<ReadFrame(v, active), UseFrame>>)
  BY <1>1, <1>2, <1>10, <1>13
<1>14. CASE \E b \in Block : Push(SealIfUnlabelled(b))
  BY <1>1, <1>2, <1>7, <1>12, <1>14
<1>15. CASE \E bs \in SUBSET Block : Push(<<FinaliseFrame(bs)>>)
  BY <1>1, <1>2, <1>11, <1>15
<1> QED
  BY <1>9, <1>12, <1>13, <1>14, <1>15

LEMMA ShapeNext ==
  ASSUME InductiveSSA, Shape, [Next]_vars
  PROVE  Shape'
<1>1. CASE Step
  BY <1>1, ReturnMoves, ReadSinglePredecessorMoves, ReadJoinMoves,
     ReadOperandMoves, AppendOperandMoves, OperandsCompleteMoves,
     CollectResultMoves, TryTrivialMoves, TryUsersMoves, CompletePhiMoves,
     FinaliseSealMoves, StartSealMoves, FixupDefinitionsMoves,
     FinaliseCompleteMoves DEF Step
<1>2. CASE Client
  BY <1>2, ClientMoves
<1>3. CASE UNCHANGED vars
  BY <1>3 DEF vars, callVars, Shape
<1> QED
  BY <1>1, <1>2, <1>3 DEF Next

-----------------------------------------------------------------------------
(* What a step leaves as it was                                            *)

LEMMA AppendRange ==
  ASSUME NEW S, NEW s \in Seq(S), NEW x \in S
  PROVE  /\ Append(s, x) \in Seq(S)
         /\ Range(Append(s, x)) = Range(s) \cup {x}
<1>1. /\ Append(s, x) \in Seq(S)
      /\ DOMAIN Append(s, x) = 1..(Len(s) + 1)
      /\ DOMAIN s = 1..Len(s) /\ Len(s) \in Nat
      /\ \A i \in 1..Len(s) : Append(s, x)[i] = s[i]
      /\ Append(s, x)[Len(s) + 1] = x
  OBVIOUS
<1>2. ASSUME NEW y \in Range(Append(s, x)) PROVE y \in Range(s) \cup {x}
  BY <1>1, <1>2 DEF Range
<1>3. ASSUME NEW y \in Range(s) PROVE y \in Range(Append(s, x))
  <2>1. PICK i \in 1..Len(s) : y = s[i]
    BY <1>1, <1>3 DEF Range
  <2>2. i \in DOMAIN Append(s, x) /\ y = Append(s, x)[i]
    BY <1>1, <2>1
  <2> QED
    BY <2>2 DEF Range
<1>4. x \in Range(Append(s, x))
  <2>1. Len(s) + 1 \in DOMAIN Append(s, x)
    BY <1>1
  <2> QED
    BY <1>1, <2>1 DEF Range
<1> QED
  BY <1>1, <1>2, <1>3, <1>4

LEMMA TailRange ==
  ASSUME NEW S, NEW s \in Seq(S), s # <<>>
  PROVE  /\ Head(s) \in S /\ Tail(s) \in Seq(S) /\ Head(s) = s[1]
         /\ Range(s) = {Head(s)} \cup Range(Tail(s))
<1>1. /\ Head(s) \in S /\ Tail(s) \in Seq(S) /\ Head(s) = s[1]
      /\ DOMAIN s = 1..Len(s) /\ Len(s) \in Nat \ {0}
      /\ DOMAIN Tail(s) = 1..(Len(s) - 1)
      /\ \A i \in 1..(Len(s) - 1) : Tail(s)[i] = s[i + 1]
  OBVIOUS
<1>2. ASSUME NEW y \in Range(s) PROVE y \in {Head(s)} \cup Range(Tail(s))
  <2>1. PICK i \in 1..Len(s) : y = s[i]
    BY <1>1, <1>2 DEF Range
  <2>2. CASE i = 1
    BY <1>1, <2>1, <2>2
  <2>3. CASE i # 1
    <3>1. i - 1 \in DOMAIN Tail(s) /\ y = Tail(s)[i - 1]
      BY <1>1, <2>1, <2>3
    <3> QED
      BY <3>1 DEF Range
  <2> QED
    BY <2>2, <2>3
<1>3. Head(s) \in Range(s)
  BY <1>1 DEF Range
<1>4. ASSUME NEW y \in Range(Tail(s)) PROVE y \in Range(s)
  <2>1. PICK i \in 1..(Len(s) - 1) : y = Tail(s)[i]
    BY <1>1, <1>4 DEF Range
  <2>2. i + 1 \in DOMAIN s /\ y = s[i + 1]
    BY <1>1, <2>1
  <2> QED
    BY <2>2 DEF Range
<1> QED
  BY <1>1, <1>2, <1>3, <1>4

(* The first item of a sequence is replaced by others.                     *)
LEMMA Replaced ==
  ASSUME NEW S, NEW t \in Seq(S), t # <<>>, NEW s \in Seq(S),
         NEW u, u = s \o Tail(t)
  PROVE  /\ u \in Seq(S)
         /\ Len(s) \in Nat /\ DOMAIN s = 1..Len(s)
         /\ Len(t) \in Nat \ {0} /\ DOMAIN t = 1..Len(t)
         /\ Len(u) = Len(s) + Len(t) - 1 /\ DOMAIN u = 1..Len(u)
         /\ Head(t) = t[1]
         /\ \A i \in 1..Len(s) : u[i] = s[i]
         /\ \A i \in (Len(s) + 1)..Len(u) : u[i] = t[i - Len(s) + 1]
<1>1. /\ Tail(t) \in Seq(S) /\ Len(Tail(t)) = Len(t) - 1
      /\ \A i \in 1..(Len(t) - 1) : Tail(t)[i] = t[i + 1]
      /\ Len(t) \in Nat \ {0} /\ DOMAIN t = 1..Len(t) /\ Head(t) = t[1]
  OBVIOUS
<1>2. /\ u \in Seq(S) /\ Len(u) = Len(s) + Len(Tail(t))
      /\ \A i \in 1..Len(s) : u[i] = s[i]
      /\ \A i \in (Len(s) + 1)..Len(u) : u[i] = Tail(t)[i - Len(s)]
  BY <1>1, ConcatProperties
<1>3. ASSUME NEW i \in (Len(s) + 1)..Len(u)
      PROVE  u[i] = t[i - Len(s) + 1]
  <2>1. i - Len(s) \in 1..(Len(t) - 1)
    BY <1>1, <1>2
  <2> QED
    BY <1>1, <1>2, <2>1
<1> QED
  BY <1>1, <1>2, <1>3

LEMMA ReplacedRange ==
  ASSUME NEW S, NEW t \in Seq(S), t # <<>>, NEW s \in Seq(S),
         NEW u, u = s \o Tail(t)
  PROVE  Range(u) = Range(s) \cup Range(Tail(t))
<1>1. Range(t) = {Head(t)} \cup Range(Tail(t)) /\ Tail(t) \in Seq(S)
  BY TailRange
<1>2. /\ u \in Seq(S) /\ Len(u) = Len(s) + Len(Tail(t))
      /\ \A i \in 1..Len(s) : u[i] = s[i]
      /\ \A i \in (Len(s) + 1)..Len(u) : u[i] = Tail(t)[i - Len(s)]
      /\ Len(s) \in Nat /\ Len(Tail(t)) \in Nat
  BY <1>1, ConcatProperties
<1>3. \A x \in Range(u) : x \in Range(s) \cup Range(Tail(t))
  <2> SUFFICES ASSUME NEW i \in DOMAIN u
               PROVE  u[i] \in Range(s) \cup Range(Tail(t))
    BY DEF Range
  <2>1. i \in 1..(Len(s) + Len(Tail(t)))
    BY <1>2
  <2>2. CASE i <= Len(s)
    <3>1. i \in DOMAIN s /\ u[i] = s[i]
      BY <1>2, <2>1, <2>2
    <3> QED
      BY <3>1 DEF Range
  <2>3. CASE i > Len(s)
    <3>1. i - Len(s) \in DOMAIN Tail(t) /\ u[i] = Tail(t)[i - Len(s)]
      BY <1>1, <1>2, <2>1, <2>3
    <3> QED
      BY <3>1 DEF Range
  <2> QED
    BY <1>2, <2>1, <2>2, <2>3
<1>4. \A x \in Range(s) : x \in Range(u)
  <2> SUFFICES ASSUME NEW i \in DOMAIN s PROVE s[i] \in Range(u)
    BY DEF Range
  <2>1. i \in DOMAIN u /\ u[i] = s[i]
    BY <1>2
  <2> QED
    BY <2>1 DEF Range
<1>5. \A x \in Range(Tail(t)) : x \in Range(u)
  <2> SUFFICES ASSUME NEW i \in DOMAIN Tail(t) PROVE Tail(t)[i] \in Range(u)
    BY DEF Range
  <2>1. i + Len(s) \in DOMAIN u /\ u[i + Len(s)] = Tail(t)[i]
    BY <1>1, <1>2
  <2> QED
    BY <2>1 DEF Range
<1> QED
  BY <1>1, <1>3, <1>4, <1>5

LEMMA RangeType ==
  ASSUME NEW S, NEW s \in Seq(S)
  PROVE  Range(s) \subseteq S
  BY DEF Range

LEMMA RemovalTypes ==
  ASSUME TypeOK
  PROVE  \A r \in Range(removals) : r \in Removal /\ r.phi \in Reg /\ r.by \in Reg
<1>1. Range(removals) \subseteq Removal
  BY RangeType DEF TypeOK
<1> QED
  BY <1>1 DEF Removal

(* The register that a consumer's call has returned.                       *)
LEMMA GivenResult ==
  ASSUME InductiveSSA, NEW k \in Consumers, Running(k)
  PROVE  ret \in Reg
  BY DEF InductiveSSA, ResultsAreGiven, Running

(* A definition may be replaced but never lost.                            *)
LEMMA DefinitionsKept ==
  ASSUME InductiveSSA, Shape, [Next]_vars
  PROVE  \A d \in Var \X Block :
           currentDef[d] # NoReg => currentDef'[d] # NoReg
<1>1. /\ currentDef \in [Var \X Block -> Reg \cup {NoReg}]
      /\ NoReg \notin Reg
  BY ConstantsAssumption DEF InductiveSSA, TypeOK, Reg
<1>2. ASSUME NEW v \in Var, NEW b \in Block, NEW r \in Reg,
             WriteVariable(v, b, r)
      PROVE  \A d \in Var \X Block :
               currentDef[d] # NoReg => currentDef'[d] # NoReg
  BY <1>1, <1>2 DEF WriteVariable
<1>3. \A v \in Var : NewRegister(v) \in Reg
  BY QueryTypes DEF InductiveSSA
<1>4. CASE ReadUnsealed
  <2>1. top.var \in Var /\ top.block \in Block
    BY <1>4, TopFields DEF ReadUnsealed, Missing, Found, Reading
  <2> QED
    BY <1>2, <1>3, <1>4, <2>1 DEF ReadUnsealed
<1>5. CASE ReadJoin
  <2>1. top.var \in Var /\ top.block \in Block
    BY <1>5, TopFields DEF ReadJoin, Missing, Found, Reading
  <2> QED
    BY <1>2, <1>3, <1>5, <2>1 DEF ReadJoin
<1>6. CASE WriteBack
  <2>1. top.var \in Var /\ top.block \in Block /\ ret \in Reg
    BY <1>6, TopFields, GivenResult DEF WriteBack, Consumers
  <2> QED
    BY <1>2, <1>6, <2>1 DEF WriteBack
<1>7. CASE FixupDefinitions
  <2>1. removals \in Seq(Removal) /\ removals # <<>>
    BY <1>7 DEF FixupDefinitions, InductiveSSA, TypeOK
  <2>2. Head(removals) \in Removal
    BY <2>1
  <2>3. Head(removals).by \in Reg
    BY <2>2 DEF Removal
  <2>4. currentDef' = currentDef
        \/ currentDef' = ReplaceDefinitions(VarOf(top.phi),
                            Head(removals).phi, Head(removals).by)
    BY <1>7 DEF FixupDefinitions
  <2> QED
    BY <1>1, <2>3, <2>4 DEF ReplaceDefinitions, Replace
<1>8. ASSUME NEW v \in Var, Assign(v)
      PROVE  \A d \in Var \X Block :
               currentDef[d] # NoReg => currentDef'[d] # NoReg
  <2>1. active \in Block
    BY QueryTypes DEF InductiveSSA
  <2> QED
    BY <1>2, <1>3, <1>8, <2>1 DEF Assign
<1>9. CASE UNCHANGED currentDef
  BY <1>9
<1>10. CASE Step
  BY <1>4, <1>5, <1>6, <1>7, <1>9, <1>10
  DEF Step, ReadLocal, Found, ReadSinglePredecessor, OnePredecessor,
      ReadOperand, AppendOperand, NextOperand, OperandsComplete,
      CollectResult, FixupComplete, TryUndefined, Warn, TryNotTrivial,
      TryTrivial, TryUsers, StartSeal, TakeIncomplete, CompletePhi,
      OtherPhis, SealComplete, AddUse, FinaliseSeal, FinaliseComplete,
      cfgVars, ssaVars
<1>11. CASE Client
  BY <1>8, <1>9, <1>11
  DEF Client, UseVariable, ReadVariable, UseHeld, Terminate, SealedTarget,
      Activate, ActivateOpen, ActivateThen, CloseOpen, Finalise, cfgVars,
      ssaVars
<1>12. CASE UNCHANGED vars
  BY <1>9, <1>12 DEF vars, ssaVars
<1> QED
  BY <1>10, <1>11, <1>12 DEF Next

(* The counters of versions only advance.                                  *)
LEMMA VersionsGrow ==
  ASSUME InductiveSSA, [Next]_vars
  PROVE  \A r \in Reg : IsIssued(r, versions) => IsIssued(r, versions')
<1>1. ASSUME NEW v \in Var, BumpVersion(v)
      PROVE  \A r \in Reg : IsIssued(r, versions) => IsIssued(r, versions')
  <2>1. versions \in [Var -> Nat] /\ versions' = [versions EXCEPT ![v] = @ + 1]
    BY <1>1 DEF InductiveSSA, TypeOK, BumpVersion
  <2>2. \A w \in Var : versions[w] \in Nat /\ versions'[w] \in Nat
                       /\ versions[w] <= versions'[w]
    BY <2>1
  <2>3. \A r \in Reg : VarOf(r) \in Var /\ VersionOf(r) \in Nat
    BY DEF Reg, VarOf, VersionOf
  <2> QED
    BY <2>2, <2>3 DEF IsIssued
<1>2. CASE UNCHANGED versions
  BY <1>2 DEF IsIssued
<1>3. CASE ReadUnsealed \/ ReadJoin
  <2>1. top.var \in Var
    BY <1>3, TypeParts, RunningFrame, FrameFields
    DEF InductiveSSA, ReadUnsealed, ReadJoin, Missing, Found, Reading
  <2> QED
    BY <1>1, <1>3, <2>1 DEF ReadUnsealed, ReadJoin, NewPhi
<1>4. ASSUME NEW v \in Var, Assign(v)
      PROVE  \A r \in Reg : IsIssued(r, versions) => IsIssued(r, versions')
  BY <1>1, <1>4 DEF Assign
<1>5. CASE Step
  BY <1>2, <1>3, <1>5
  DEF Step, ReadLocal, Found, ReadSinglePredecessor, OnePredecessor,
      WriteBack, ReadOperand, AppendOperand, NextOperand, OperandsComplete,
      CollectResult, FixupDefinitions, FixupComplete, TryUndefined, Warn,
      TryNotTrivial, TryTrivial, TryUsers, StartSeal, TakeIncomplete,
      CompletePhi, OtherPhis, SealComplete, AddUse, FinaliseSeal,
      FinaliseComplete, cfgVars, ssaVars
<1>6. CASE Client
  BY <1>2, <1>4, <1>6
  DEF Client, UseVariable, ReadVariable, UseHeld, Terminate, SealedTarget,
      Activate, ActivateOpen, ActivateThen, CloseOpen, Finalise, cfgVars,
      ssaVars
<1>7. CASE UNCHANGED vars
  BY <1>2, <1>7 DEF vars, ssaVars
<1> QED
  BY <1>5, <1>6, <1>7 DEF Next

(* Which actions change what.                                              *)
LEMMA Changes ==
  ASSUME [Next]_vars
  PROVE  /\ phiArgs' # phiArgs => AppendOperand \/ TryTrivial
         /\ phis' # phis => ReadUnsealed \/ ReadJoin \/ TryTrivial
         /\ versions' # versions =>
              ReadUnsealed \/ ReadJoin \/ \E v \in Var : Assign(v)
         /\ currentDef' # currentDef =>
              \/ ReadUnsealed \/ ReadJoin \/ WriteBack \/ FixupDefinitions
              \/ \E v \in Var : Assign(v)
         /\ incomplete' # incomplete => ReadUnsealed \/ StartSeal
         /\ ret' # ret =>
              \/ ReadLocal \/ ReadUnsealed \/ CollectResult
              \/ FixupDefinitions
         /\ removals' # removals =>
              OperandsComplete \/ FixupDefinitions \/ TryTrivial
         /\ preds' # preds => \E ts \in SUBSET Block : Terminate(ts)
         /\ sealed' # sealed => SealComplete
         /\ blocks' # blocks => \E b \in Block : Activate(b) \/ ActivateOpen(b)
         /\ ops' # ops =>
              \/ TryTrivial \/ AddUse \/ \E v \in Var : Assign(v)
              \/ \E r \in DefinedRegs : UseHeld(r)
         /\ finalised' # finalised => FinaliseComplete
<1>1. CASE Step
  BY <1>1
  DEF Step, Return, ReadLocal, ReadUnsealed, ReadSinglePredecessor, ReadJoin,
      WriteBack, ReadOperand, AppendOperand, OperandsComplete, CollectResult,
      FixupDefinitions, FixupComplete, TryUndefined, TryNotTrivial,
      TryTrivial, TryUsers, StartSeal, CompletePhi, SealComplete, AddUse,
      FinaliseSeal, FinaliseComplete, cfgVars, ssaVars
<1>2. CASE Client
  BY <1>2
  DEF Client, Assign, UseVariable, ReadVariable, UseHeld, Terminate,
      Activate, ActivateOpen, ActivateThen, CloseOpen, Finalise, cfgVars,
      ssaVars, callVars
<1>3. CASE UNCHANGED vars
  BY <1>3 DEF vars, cfgVars, ssaVars, callVars
<1> QED
  BY <1>1, <1>2, <1>3 DEF Next

LEMMA FrameKinds ==
  /\ \A v, b : ReadFrame(v, b).at = "read"
  /\ \A v, b : WriteFrame(v, b).at = "write"
  /\ \A p, b, ps : OperandsFrame(p, b, ps).at = "operands"
  /\ \A p, b, ps : OperandFrame(p, b, ps).at = "operand"
  /\ \A k, p : PhiFrame(k, p).at = k /\ PhiFrame(k, p).phi = p
  /\ \A us : UsersFrame(us).at = "users"
  /\ \A b : SealFrame(b).at = "seal"
  /\ \A b, ps : SealingFrame(b, ps).at = "sealing"
  /\ \A bs : FinaliseFrame(bs).at = "finalise"
  /\ UseFrame.at = "use"
  BY DEF ReadFrame, WriteFrame, OperandsFrame, OperandFrame, PhiFrame,
         UsersFrame, SealFrame, SealingFrame, FinaliseFrame, UseFrame

LEMMA RunningStep ==
  ASSUME Step
  PROVE  calls # <<>>
  BY DEF Step, ReadLocal, ReadUnsealed, ReadSinglePredecessor,
         ReadJoin, WriteBack, ReadOperand, AppendOperand, OperandsComplete,
         CollectResult, FixupDefinitions, FixupComplete, TryUndefined,
         TryNotTrivial, TryTrivial, TryUsers, StartSeal, CompletePhi,
         SealComplete, AddUse, FinaliseSeal, FinaliseComplete, Missing,
         Reading, Running

(* Where the frames come from that gather operands or wait for them.       *)
LEMMA NewFrames ==
  ASSUME InductiveSSA, Shape, [Next]_vars,
         NEW f \in Frames', f.at \in Marks \cup {"sealing"}
  PROVE  \/ f \in Frames
         \/ /\ ReadJoin
            /\ f = OperandsFrame(NewRegister(top.var), top.block,
                                 preds[top.block])
         \/ ReadOperand /\ f = OperandFrame(top.phi, top.block, top.todo)
         \/ /\ AppendOperand
            /\ f = OperandsFrame(top.phi, top.block, Tail(top.todo))
         \/ OperandsComplete /\ f = PhiFrame("result", top.phi)
         \/ CollectResult /\ f = PhiFrame("fixup", top.phi)
         \/ /\ CompletePhi
            /\ f \in {OperandsFrame(Head(top.todo), top.block,
                                    preds[top.block]),
                      SealingFrame(top.block, Tail(top.todo))}
         \/ StartSeal /\ f = SealingFrame(top.block, incomplete[top.block])
<1> DEFINE Goal ==
         \/ f \in Frames
         \/ /\ ReadJoin
            /\ f = OperandsFrame(NewRegister(top.var), top.block,
                                 preds[top.block])
         \/ ReadOperand /\ f = OperandFrame(top.phi, top.block, top.todo)
         \/ /\ AppendOperand
            /\ f = OperandsFrame(top.phi, top.block, Tail(top.todo))
         \/ OperandsComplete /\ f = PhiFrame("result", top.phi)
         \/ CollectResult /\ f = PhiFrame("fixup", top.phi)
         \/ /\ CompletePhi
            /\ f \in {OperandsFrame(Head(top.todo), top.block,
                                    preds[top.block]),
                      SealingFrame(top.block, Tail(top.todo))}
         \/ StartSeal /\ f = SealingFrame(top.block, incomplete[top.block])
<1>1. f.at \notin {"read", "write", "try", "users", "seal", "finalise", "use"}
  BY DEF Marks, Gathers
<1>2. CASE Step
  <2>1. calls # <<>> /\ calls \in Seq(Frame)
    BY <1>2, RunningStep DEF InductiveSSA, TypeOK
  <2>2. Below \subseteq Frames
    BY <2>1, ShapeFacts
  <2>3. CASE ReadSinglePredecessor
    BY <1>1, <2>2, <2>3, ReadSinglePredecessorMoves, FrameKinds
  <2>4. CASE ReadJoin
    BY <1>1, <2>2, <2>4, ReadJoinMoves, FrameKinds
  <2>5. CASE ReadOperand
    BY <1>1, <2>2, <2>5, ReadOperandMoves, FrameKinds
  <2>6. CASE AppendOperand
    BY <1>1, <2>2, <2>6, AppendOperandMoves
  <2>7. CASE OperandsComplete
    BY <1>1, <2>2, <2>7, OperandsCompleteMoves, FrameKinds
  <2>8. CASE CollectResult
    BY <1>1, <2>2, <2>8, CollectResultMoves
  <2>9. CASE TryTrivial
    BY <1>1, <2>2, <2>9, TryTrivialMoves, FrameKinds
  <2>10. CASE TryUsers
    <3>1. f \in Below \/ f.at \in {"try", "users"}
      <4>1. CASE Frames' = Below
        BY <4>1
      <4>2. CASE Frames' # Below
        <5>1. PICK u \in top.users :
                Frames' = {PhiFrame("try", u), UsersFrame(top.users \ {u})}
                          \cup Below
          BY <2>10, <4>2, TryUsersMoves
        <5> QED
          BY <5>1, FrameKinds
      <4> QED
        BY <4>1, <4>2
    <3> QED
      BY <1>1, <2>2, <3>1
  <2>11. CASE CompletePhi
    BY <2>2, <2>11, CompletePhiMoves
  <2>12. CASE StartSeal
    BY <2>2, <2>12, StartSealMoves
  <2>13. CASE FinaliseSeal
    <3>1. PICK b \in top.blocks :
            Frames' = {SealFrame(b), FinaliseFrame(top.blocks \ {b})}
                      \cup Below
      BY <2>13, FinaliseSealMoves
    <3> QED
      BY <1>1, <2>2, <3>1, FrameKinds
  <2>14. CASE FixupDefinitions
    BY <2>14, FixupDefinitionsMoves DEF Frames
  <2> QED
    BY <1>2, <2>2, <2>3, <2>4, <2>5, <2>6, <2>7, <2>8, <2>9, <2>10, <2>11,
       <2>12, <2>13, <2>14, ReturnMoves, FinaliseCompleteMoves DEF Step
<1>3. CASE Client
  <2>1. f.at \in {"read", "use", "seal", "finalise"}
    <3>1. CASE \E v \in Var : Frames' \in {{ReadFrame(v, active)},
                                          {ReadFrame(v, active), UseFrame}}
      BY <3>1, FrameKinds
    <3>2. CASE \E b \in Block : Frames' = {SealFrame(b)}
      BY <3>2, FrameKinds
    <3>3. CASE \E bs \in SUBSET Block : Frames' = {FinaliseFrame(bs)}
      BY <3>3, FrameKinds
    <3> QED
      BY <1>3, <3>1, <3>2, <3>3, ClientMoves
  <2> QED
    BY <1>1, <2>1
<1>4. CASE UNCHANGED vars
  BY <1>4 DEF vars, callVars, Frames
<1> QED
  BY <1>2, <1>3, <1>4 DEF Next

-----------------------------------------------------------------------------
(* The variable a call is about                                            *)

(* The frame that runs says which variable it is.                          *)
LEMMA TopIsAbout ==
  ASSUME InductiveSSA, Shape, OneVariable,
         NEW k \in {"read", "write", "users", "try"} \cup Marks, Running(k)
  PROVE  \E v \in Var :
           /\ IsAbout(v)
           /\ k \in {"read", "write"} => top.var = v
           /\ k \in Marks \cup {"try"} => VarOf(top.phi) = v
           /\ k = "users" => \A u \in top.users : VarOf(u) = v
<1>1. /\ calls \in Seq(Frame) /\ calls # <<>> /\ top.at = k
      /\ top.at \notin Base
  BY TopFields DEF Base, Marks, Gathers
<1>2. PICK v \in Var : IsAbout(v)
  BY <1>1 DEF OneVariable
<1>3. VarsOf(top) \subseteq {v}
  BY <1>1, <1>2, ShapeFacts DEF IsAbout
<1>4. CASE k \in {"read", "write"}
  BY <1>1, <1>2, <1>3, <1>4 DEF VarsOf, Marks, Gathers
<1>5. CASE k \in Marks \cup {"try"}
  BY <1>1, <1>2, <1>3, <1>5 DEF VarsOf, Marks, Gathers
<1>6. CASE k = "users"
  <2>1. VarsOf(top) = {VarOf(u) : u \in top.users}
    BY <1>1, <1>6 DEF VarsOf, Marks, Gathers
  <2> QED
    BY <1>2, <1>3, <1>6, <2>1 DEF Marks, Gathers
<1> QED
  BY <1>4, <1>5, <1>6

LEMMA SameVariableNext ==
  ASSUME InductiveSSA, Shape, OneVariable, SameVariable, [Next]_vars
  PROVE  SameVariable'
<1>1. ASSUME NEW v \in Var, NEW b \in Block, NEW r \in Reg,
             WriteVariable(v, b, r), VarOf(r) = v
      PROVE  \A w \in Var, c \in Block : currentDef'[<<w, c>>] # NoReg
               => VarOf(currentDef'[<<w, c>>]) = w
  BY <1>1 DEF WriteVariable, InductiveSSA, TypeOK, SameVariable
<1>2. \A v \in Var : NewRegister(v) \in Reg /\ VarOf(NewRegister(v)) = v
  BY QueryTypes DEF InductiveSSA, NewRegister, VarOf
<1>3. \A w \in Var, c \in Block : currentDef'[<<w, c>>] # NoReg
        => VarOf(currentDef'[<<w, c>>]) = w
  <2>1. CASE ReadUnsealed \/ ReadJoin
    <3>1. top.var \in Var /\ top.block \in Block
      BY <2>1, TopFields DEF ReadUnsealed, ReadJoin, Missing, Found, Reading
    <3> QED
      BY <1>1, <1>2, <2>1, <3>1 DEF ReadUnsealed, ReadJoin
  <2>2. CASE WriteBack
    <3>1. /\ top.var \in Var /\ top.block \in Block /\ ret \in Reg
          /\ top.at = "write"
      BY <2>2, TopFields, GivenResult DEF WriteBack, Consumers
    <3>2. VarOf(ret) = top.var
      BY <2>2, <3>1, TopIsAbout DEF WriteBack, IsAbout
    <3> QED
      BY <1>1, <2>2, <3>1, <3>2 DEF WriteBack
  <2>3. CASE FixupDefinitions
    <3>1. \/ currentDef' = currentDef
          \/ /\ VarOf(Head(removals).by) = VarOf(top.phi)
             /\ currentDef' = ReplaceDefinitions(VarOf(top.phi),
                                Head(removals).phi, Head(removals).by)
      BY <2>3 DEF FixupDefinitions
    <3> QED
      BY <3>1 DEF ReplaceDefinitions, Replace, SameVariable
  <2>4. ASSUME NEW v \in Var, Assign(v)
        PROVE  \A w \in Var, c \in Block : currentDef'[<<w, c>>] # NoReg
                 => VarOf(currentDef'[<<w, c>>]) = w
    <3>1. active \in Block
      BY QueryTypes DEF InductiveSSA
    <3> QED
      BY <1>1, <1>2, <2>4, <3>1 DEF Assign
  <2> QED
    BY <2>1, <2>2, <2>3, <2>4, Changes DEF SameVariable
<1>4. \A a \in phiArgs' : VarOf(a.value) = VarOf(a.phi)
  <2>1. CASE AppendOperand
    <3>1. top.at = "operand"
      BY <2>1, TopFields DEF AppendOperand
    <3>2. VarOf(ret) = VarOf(top.phi)
      BY <2>1, <3>1, TopIsAbout DEF AppendOperand, IsAbout, Marks, Gathers
    <3> QED
      BY <2>1, <3>2 DEF AppendOperand, SameVariable
  <2>2. CASE TryTrivial
    <3>1. PICK by \in NonSelfArgs(top.phi) : ReplacePhi(top.phi, by)
      BY <2>2 DEF TryTrivial
    <3>2. VarOf(by) = VarOf(top.phi)
      BY <3>1 DEF NonSelfArgs, SameVariable
    <3>3. ASSUME NEW a \in phiArgs
          PROVE  LET c == IF a.phi \in PhiRegs \ {top.phi}
                            THEN [a EXCEPT !.value = Replace(@, top.phi, by)]
                            ELSE a
                 IN  VarOf(c.value) = VarOf(c.phi)
      <4>1. a \in PhiArg /\ VarOf(a.value) = VarOf(a.phi)
        BY DEF InductiveSSA, TypeOK, SameVariable
      <4> QED
        BY <3>2, <4>1 DEF PhiArg, Replace
    <3> QED
      BY <3>1, <3>3 DEF ReplacePhi
  <2> QED
    BY <2>1, <2>2, Changes DEF SameVariable
<1> QED
  BY <1>3, <1>4 DEF SameVariable

LEMMA WaitingAreCachedNext ==
  ASSUME InductiveSSA, Shape, WaitingAreCached, [Next]_vars
  PROVE  WaitingAreCached'
<1>1. /\ incomplete \in [Block -> Seq(Reg)]
      /\ \A r \in Reg : VarOf(r) \in Var
      /\ \A d \in Var \X Block : currentDef[d] # NoReg => currentDef'[d] # NoReg
  BY DefinitionsKept, QueryTypes DEF InductiveSSA, TypeOK
<1>2. ASSUME NEW b \in Block, NEW x \in Range(incomplete[b])
      PROVE  currentDef'[<<VarOf(x), b>>] # NoReg
  <2>1. x \in Reg
    BY <1>1, RangeType
  <2> QED
    BY <1>1, <2>1 DEF WaitingAreCached
<1>3. ASSUME NEW f \in Frames, f.at = "sealing", f \in Frame,
             NEW x \in Range(f.todo)
      PROVE  currentDef'[<<VarOf(x), f.block>>] # NoReg
  <2>1. f.block \in Block /\ f.todo \in Seq(Reg)
    BY <1>3, FrameFields
  <2>2. x \in Reg
    BY <2>1, RangeType
  <2> QED
    BY <1>1, <1>3, <2>1, <2>2 DEF WaitingAreCached
<1>4. ASSUME NEW b \in Block, NEW x \in Range(incomplete'[b])
      PROVE  currentDef'[<<VarOf(x), b>>] # NoReg
  <2>1. CASE ReadUnsealed
    <3> DEFINE p == NewRegister(top.var)
    <3>1. /\ top.var \in Var /\ top.block \in Block /\ p \in Reg
          /\ VarOf(p) = top.var
      BY <2>1, TopFields, QueryTypes
      DEF InductiveSSA, ReadUnsealed, Missing, Found, Reading, NewRegister, VarOf
    <3>2. /\ incomplete' = [incomplete EXCEPT ![top.block] = Append(@, p)]
          /\ currentDef' = [currentDef EXCEPT ![<<top.var, top.block>>] = p]
      BY <2>1 DEF ReadUnsealed, WriteVariable
    <3>3. currentDef'[<<top.var, top.block>>] # NoReg
      BY <3>1, <3>2, ConstantsAssumption DEF InductiveSSA, TypeOK, Reg
    <3>4. CASE b = top.block
      <4>1. x \in Range(incomplete[b]) \cup {p}
        BY <1>1, <3>1, <3>2, <3>4, AppendRange, <1>4
      <4> QED
        BY <1>2, <3>1, <3>3, <3>4, <4>1
    <3>5. CASE b # top.block
      BY <1>1, <1>2, <3>1, <3>2, <3>5, <1>4
    <3> QED
      BY <3>4, <3>5
  <2>2. CASE StartSeal
    <3>1. \/ incomplete' = incomplete
          \/ incomplete' = [incomplete EXCEPT ![top.block] = <<>>]
      BY <2>2, StartSealMoves
    <3>2. incomplete'[b] = incomplete[b] \/ incomplete'[b] = <<>>
      BY <1>1, <3>1
    <3> QED
      BY <1>2, <1>4, <3>2 DEF Range
  <2> QED
    BY <1>2, <1>4, <2>1, <2>2, Changes
<1>5. ASSUME NEW f \in Frames', f.at = "sealing", NEW x \in Range(f.todo)
      PROVE  currentDef'[<<VarOf(x), f.block>>] # NoReg
  <2>1. ASSUME f \in Frames PROVE currentDef'[<<VarOf(x), f.block>>] # NoReg
    <3>1. Frames \subseteq Frame
      BY RangeType DEF Frames, InductiveSSA, TypeOK
    <3> QED
      BY <1>3, <1>5, <2>1, <3>1
  <2>2. CASE CompletePhi /\ f = SealingFrame(top.block, Tail(top.todo))
    <3>1. /\ calls # <<>> /\ top \in Frame /\ top.at = "sealing"
          /\ top.todo \in Seq(Reg) /\ top.todo # <<>> /\ top.block \in Block
          /\ calls \in Seq(Frame)
      BY <2>2, TopFields DEF CompletePhi
    <3>2. top \in Frames /\ x \in Range(top.todo) /\ f.block = top.block
      BY <1>5, <2>2, <3>1, TailRange, ShapeFacts DEF SealingFrame
    <3> QED
      BY <1>3, <3>1, <3>2
  <2>3. CASE StartSeal /\ f = SealingFrame(top.block, incomplete[top.block])
    <3>1. top.block \in Block
      BY <2>3, TopFields DEF StartSeal
    <3> QED
      BY <1>2, <1>5, <2>3, <3>1 DEF SealingFrame
  <2> QED
    BY <1>5, <2>1, <2>2, <2>3, NewFrames, FrameKinds
<1> QED
  BY <1>4, <1>5 DEF WaitingAreCached

LEMMA NewIsIssued ==
  ASSUME InductiveSSA, NEW v \in Var, BumpVersion(v)
  PROVE  NewRegister(v) \in Reg /\ IsIssued(NewRegister(v), versions')
<1>1. versions[v] \in Nat /\ versions'[v] = versions[v] + 1
  BY DEF InductiveSSA, TypeOK, BumpVersion
<1>2. NewRegister(v) \in Reg
  BY QueryTypes DEF InductiveSSA
<1> QED
  BY <1>1, <1>2 DEF IsIssued, NewRegister, VersionOf, VarOf

LEMMA IssuedNext ==
  ASSUME InductiveSSA, Shape, Issued, [Next]_vars
  PROVE  Issued'
<1> DEFINE Is(r) == IsIssued(r, versions')
<1>1. /\ incomplete \in [Block -> Seq(Reg)] /\ phiArgs \subseteq PhiArg
      /\ currentDef \in [Var \X Block -> Reg \cup {NoReg}]
      /\ ret \in Reg \cup {NoReg}
      /\ NoReg \notin Reg
  BY ConstantsAssumption DEF InductiveSSA, TypeOK, Reg
<1>2. \A r \in Reg : IsIssued(r, versions) => Is(r)
  BY VersionsGrow
<1>3. ret # NoReg => Is(ret)
  BY <1>1, <1>2 DEF Issued
<1>4. \A d \in Var \X Block : currentDef[d] # NoReg => Is(currentDef[d])
  BY <1>1, <1>2 DEF Issued
<1>5. \A r \in Range(removals) : r \in Removal /\ r.by \in Reg /\ Is(r.by)
  BY <1>2, RemovalTypes DEF InductiveSSA, Issued
<1>6. \A a \in phiArgs : a \in PhiArg /\ Is(a.phi) /\ Is(a.value)
  BY <1>1, <1>2 DEF PhiArg, Issued
<1>7. \A b \in Block : \A x \in Range(incomplete[b]) : x \in Reg /\ Is(x)
  BY <1>1, <1>2, RangeType DEF Issued
<1>8. ASSUME NEW f \in Frames
      PROVE  /\ f.at \in Marks => Is(f.phi)
             /\ f.at = "sealing" => \A x \in Range(f.todo) : Is(x)
  <2>1. f \in Frame
    BY RangeType DEF Frames, InductiveSSA, TypeOK
  <2>2. f.at \in Marks => f.phi \in Reg
    BY <2>1, FrameFields DEF Marks, Gathers
  <2>3. f.at = "sealing" => \A x \in Range(f.todo) : x \in Reg
    BY <2>1, FrameFields, RangeType
  <2> QED
    BY <1>2, <2>2, <2>3 DEF Issued
<1>9. ASSUME ReadUnsealed \/ ReadJoin
      PROVE  /\ top.var \in Var /\ top.block \in Block
             /\ NewRegister(top.var) \in Reg /\ Is(NewRegister(top.var))
  <2>1. top.var \in Var /\ top.block \in Block
    BY <1>9, TopFields DEF ReadUnsealed, ReadJoin, Missing, Found, Reading
  <2> QED
    BY <1>9, <2>1, NewIsIssued DEF ReadUnsealed, ReadJoin, NewPhi
<1>10. ASSUME NEW k \in Marks \cup {"sealing"}, Running(k)
       PROVE  /\ top \in Frames /\ top.at = k
              /\ k \in Marks => Is(top.phi)
              /\ k = "sealing" => \A x \in Range(top.todo) : Is(x)
  <2>1. top \in Frames /\ top.at = k
    BY <1>10, TopFields, ShapeFacts
  <2> QED
    BY <1>8, <2>1
<1>11. ASSUME FixupDefinitions \/ CollectResult, removals # <<>>
       PROVE  /\ Head(removals).by \in Reg /\ Is(Head(removals).by)
              /\ Head(removals) = removals[1]
  <2>1. removals \in Seq(Removal)
    BY DEF InductiveSSA, TypeOK
  <2> QED
    BY <1>5, <1>11, <2>1, TailRange
<1>12. \A a \in phiArgs' : Is(a.phi) /\ Is(a.value)
  <2>1. CASE AppendOperand
    <3>1. Running("operand")
      BY <2>1 DEF AppendOperand
    <3>2. ret \in Reg
      BY <3>1, GivenResult DEF Consumers
    <3>3. Is(ret) /\ Is(top.phi)
      BY <1>1, <1>3, <1>10, <3>1, <3>2 DEF Marks, Gathers
    <3> QED
      BY <1>6, <2>1, <3>3 DEF AppendOperand
  <2>2. CASE TryTrivial
    <3>1. PICK by \in NonSelfArgs(top.phi) : ReplacePhi(top.phi, by)
      BY <2>2 DEF TryTrivial
    <3>2. Is(by)
      BY <1>6, <3>1 DEF NonSelfArgs
    <3>3. ASSUME NEW a \in phiArgs
          PROVE  LET c == IF a.phi \in PhiRegs \ {top.phi}
                            THEN [a EXCEPT !.value = Replace(@, top.phi, by)]
                            ELSE a
                 IN  Is(c.phi) /\ Is(c.value)
      <4>1. a \in PhiArg /\ Is(a.phi) /\ Is(a.value)
        BY <1>6
      <4> HIDE DEF Is
      <4> QED
        BY <3>2, <4>1 DEF PhiArg, Replace
    <3> QED
      BY <3>1, <3>3 DEF ReplacePhi
  <2> QED
    BY <1>6, <2>1, <2>2, Changes
<1>13. ASSUME NEW v \in Var, NEW b \in Block, NEW r \in Reg, Is(r),
              WriteVariable(v, b, r)
       PROVE  \A d \in Var \X Block : currentDef'[d] # NoReg => Is(currentDef'[d])
  <2> HIDE DEF Is
  <2> QED
    BY <1>1, <1>4, <1>13 DEF WriteVariable
<1>14. \A d \in Var \X Block : currentDef'[d] # NoReg => Is(currentDef'[d])
  <2>1. CASE ReadUnsealed \/ ReadJoin
    BY <1>9, <1>13, <2>1 DEF ReadUnsealed, ReadJoin
  <2>2. CASE WriteBack
    <3>1. top.var \in Var /\ top.block \in Block /\ ret \in Reg
      BY <2>2, TopFields, GivenResult DEF WriteBack, Consumers
    <3> QED
      BY <1>1, <1>3, <1>13, <2>2, <3>1 DEF WriteBack
  <2>3. CASE FixupDefinitions
    <3>1. Is(Head(removals).by)
      BY <1>11, <2>3 DEF FixupDefinitions
    <3>2. \/ currentDef' = currentDef
          \/ currentDef' = ReplaceDefinitions(VarOf(top.phi),
                             Head(removals).phi, Head(removals).by)
      BY <2>3 DEF FixupDefinitions
    <3> HIDE DEF Is
    <3> QED
      BY <1>4, <3>1, <3>2 DEF ReplaceDefinitions, Replace
  <2>4. ASSUME NEW v \in Var, Assign(v)
        PROVE  \A d \in Var \X Block :
                 currentDef'[d] # NoReg => Is(currentDef'[d])
    <3>1. active \in Block
      BY QueryTypes DEF InductiveSSA
    <3> QED
      BY <1>13, <2>4, <3>1, NewIsIssued DEF Assign
  <2> QED
    BY <1>4, <2>1, <2>2, <2>3, <2>4, Changes
<1>15. ret' # NoReg => Is(ret')
  <2>1. CASE ReadLocal
    <3>1. top.var \in Var /\ top.block \in Block
      BY <2>1, TopFields DEF ReadLocal, Reading
    <3> QED
      BY <1>4, <2>1, <3>1 DEF ReadLocal, Return
  <2>2. CASE ReadUnsealed
    BY <1>9, <2>2 DEF ReadUnsealed, Return
  <2>3. CASE CollectResult
    <3>1. Is(top.phi)
      BY <1>10, <2>3 DEF CollectResult, Marks
    <3>2. CASE removals = <<>>
      BY <2>3, <3>1, <3>2 DEF CollectResult, Return
    <3>3. CASE removals # <<>>
      BY <1>11, <2>3, <3>3 DEF CollectResult
    <3> QED
      BY <3>2, <3>3
  <2>4. CASE FixupDefinitions
    <3>1. Is(Head(removals).by)
      BY <1>11, <2>4 DEF FixupDefinitions
    <3>2. ret' = ret \/ ret' = Head(removals).by
      BY <2>4 DEF FixupDefinitions, Replace
    <3> QED
      BY <1>3, <3>1, <3>2
  <2> QED
    BY <1>3, <2>1, <2>2, <2>3, <2>4, Changes
<1>16. \A r \in Range(removals') : Is(r.by)
  <2>1. CASE OperandsComplete
    BY <2>1 DEF OperandsComplete, Range
  <2>2. CASE FixupDefinitions
    <3>1. removals \in Seq(Removal) /\ removals # <<>>
      BY <2>2 DEF FixupDefinitions, InductiveSSA, TypeOK
    <3>2. Range(removals') \subseteq Range(removals)
      BY <2>2, <3>1, TailRange DEF FixupDefinitions
    <3> QED
      BY <1>5, <3>2
  <2>3. CASE TryTrivial
    <3>1. PICK by \in NonSelfArgs(top.phi) :
            removals' = Append(removals, [phi |-> top.phi, by |-> by])
      BY <2>3 DEF TryTrivial
    <3>2. top.phi \in Reg /\ by \in Reg /\ Is(by)
      <4>1. top.phi \in Reg
        BY <2>3, TopFields DEF TryTrivial
      <4>2. by \in Reg
        BY <3>1, <4>1, QueryTypes DEF InductiveSSA
      <4> QED
        BY <1>6, <3>1, <4>1, <4>2 DEF NonSelfArgs
    <3>3. /\ [phi |-> top.phi, by |-> by] \in Removal
          /\ removals \in Seq(Removal)
      BY <3>2 DEF Removal, InductiveSSA, TypeOK
    <3>4. Range(removals') = Range(removals) \cup {[phi |-> top.phi, by |-> by]}
      BY <3>1, <3>3, AppendRange
    <3> QED
      BY <1>5, <3>2, <3>4
  <2> QED
    BY <1>5, <2>1, <2>2, <2>3, Changes
<1>17. ASSUME NEW b \in Block, NEW x \in Range(incomplete'[b])
       PROVE  Is(x)
  <2>1. CASE ReadUnsealed
    <3>1. incomplete' = [incomplete EXCEPT ![top.block] =
                           Append(@, NewRegister(top.var))]
      BY <2>1 DEF ReadUnsealed
    <3>2. x \in Range(incomplete[b]) \cup {NewRegister(top.var)}
      <4>1. CASE b = top.block
        BY <1>1, <1>9, <1>17, <2>1, <3>1, <4>1, AppendRange
      <4>2. CASE b # top.block
        BY <1>1, <1>9, <1>17, <2>1, <3>1, <4>2
      <4> QED
        BY <4>1, <4>2
    <3> QED
      BY <1>7, <1>9, <2>1, <3>2
  <2>2. CASE StartSeal
    <3>1. \/ incomplete' = incomplete
          \/ incomplete' = [incomplete EXCEPT ![top.block] = <<>>]
      BY <2>2, StartSealMoves
    <3>2. incomplete'[b] = incomplete[b] \/ incomplete'[b] = <<>>
      BY <1>1, <3>1
    <3> QED
      BY <1>7, <1>17, <3>2 DEF Range
  <2> QED
    BY <1>7, <1>17, <2>1, <2>2, Changes
<1>18. ASSUME NEW f \in Frames'
       PROVE  /\ f.at \in Marks => Is(f.phi)
              /\ f.at = "sealing" => \A x \in Range(f.todo) : Is(x)
  <2>1. CASE f \in Frames
    BY <1>8, <2>1
  <2>2. CASE ReadJoin /\ f = OperandsFrame(NewRegister(top.var), top.block,
                                           preds[top.block])
    BY <1>9, <2>2 DEF OperandsFrame
  <2>3. CASE ReadOperand /\ f = OperandFrame(top.phi, top.block, top.todo)
    <3>1. Is(top.phi)
      BY <1>10, <2>3 DEF ReadOperand, Marks, Gathers
    <3> QED
      BY <2>3, <3>1 DEF OperandFrame
  <2>4. CASE AppendOperand
             /\ f = OperandsFrame(top.phi, top.block, Tail(top.todo))
    <3>1. Is(top.phi)
      BY <1>10, <2>4 DEF AppendOperand, Marks, Gathers
    <3> QED
      BY <2>4, <3>1 DEF OperandsFrame
  <2>5. CASE OperandsComplete /\ f = PhiFrame("result", top.phi)
    <3>1. Is(top.phi)
      BY <1>10, <2>5 DEF OperandsComplete, Marks, Gathers
    <3> QED
      BY <2>5, <3>1 DEF PhiFrame
  <2>6. CASE CollectResult /\ f = PhiFrame("fixup", top.phi)
    <3>1. Is(top.phi)
      BY <1>10, <2>6 DEF CollectResult, Marks
    <3> QED
      BY <2>6, <3>1 DEF PhiFrame
  <2>7. CASE CompletePhi
             /\ f \in {OperandsFrame(Head(top.todo), top.block,
                                     preds[top.block]),
                       SealingFrame(top.block, Tail(top.todo))}
    <3>1. top.todo \in Seq(Reg) /\ top.todo # <<>>
      BY <2>7, TopFields DEF CompletePhi
    <3>2. \A x \in Range(top.todo) : Is(x)
      BY <1>10, <2>7 DEF CompletePhi
    <3>3. Is(Head(top.todo)) /\ \A x \in Range(Tail(top.todo)) : Is(x)
      BY <3>1, <3>2, TailRange
    <3>4. "sealing" \notin Marks
      BY DEF Marks, Gathers
    <3>5. CASE f = OperandsFrame(Head(top.todo), top.block, preds[top.block])
      <4>1. f.at = "operands" /\ f.phi = Head(top.todo)
        BY <3>5 DEF OperandsFrame
      <4> QED
        BY <3>3, <4>1
    <3>6. CASE f = SealingFrame(top.block, Tail(top.todo))
      <4>1. f.at = "sealing" /\ f.todo = Tail(top.todo)
        BY <3>6 DEF SealingFrame
      <4> QED
        BY <3>3, <3>4, <4>1
    <3> QED
      BY <2>7, <3>5, <3>6
  <2>8. CASE StartSeal /\ f = SealingFrame(top.block, incomplete[top.block])
    <3>1. top.block \in Block
      BY <2>8, TopFields DEF StartSeal
    <3> QED
      BY <1>7, <2>8, <3>1 DEF SealingFrame, Marks, Gathers
  <2>9. CASE f.at \notin Marks \cup {"sealing"}
    BY <2>9
  <2> QED
    BY <2>1, <2>2, <2>3, <2>4, <2>5, <2>6, <2>7, <2>8, <2>9, NewFrames
<1> QED
  BY <1>12, <1>14, <1>15, <1>16, <1>17, <1>18 DEF Issued

(* The frame that a call returns to.                                       *)
LEMMA AfterReturn ==
  ASSUME InductiveSSA, Shape, NEW k, Running(k), calls' = Tail(calls),
         calls' # <<>>
  PROVE  /\ top' \in Below /\ top' \in Frames /\ top' \in Frame
         /\ top' = calls'[1] /\ top' = calls[2]
         /\ MayCall(top', top)
         /\ Removing' <=> (top').at \in Removes
<1>1. calls \in Seq(Frame) /\ calls # <<>>
  BY TopFields
<1>2. top' = Head(Tail(calls)) /\ Tail(calls) # <<>>
  BY DEF top
<1>3. /\ top' \in Below /\ MayCall(top', top) /\ top' = calls[2]
      /\ top' \in Frames /\ top' \in Frame
  BY <1>1, <1>2, ShapeFacts
<1>4. top' = calls'[1]
  BY <1>1 DEF top
<1> QED
  BY <1>3, <1>4 DEF Removing

LEMMA FrameVars ==
  /\ \A v, b : VarsOf(ReadFrame(v, b)) = {v}
  /\ \A v, b : VarsOf(WriteFrame(v, b)) = {v}
  /\ \A p, b, ps : VarsOf(OperandsFrame(p, b, ps)) = {VarOf(p)}
  /\ \A p, b, ps : VarsOf(OperandFrame(p, b, ps)) = {VarOf(p)}
  /\ \A p : \A k \in {"try", "result", "fixup"} :
       VarsOf(PhiFrame(k, p)) = {VarOf(p)}
  /\ \A us : VarsOf(UsersFrame(us)) = {VarOf(u) : u \in us}
  /\ \A b, ps : VarsOf(SealingFrame(b, ps)) = {}
  /\ \A bs : VarsOf(FinaliseFrame(bs)) = {}
  /\ VarsOf(UseFrame) = {}
<1>1. ASSUME NEW f, f.at \in {"read", "write"} PROVE VarsOf(f) = {f.var}
  BY <1>1 DEF VarsOf, Marks, Gathers
<1>2. ASSUME NEW f, f.at \in Marks \cup {"try"} PROVE VarsOf(f) = {VarOf(f.phi)}
  BY <1>2 DEF VarsOf, Marks, Gathers
<1>3. ASSUME NEW f, f.at = "users"
      PROVE  VarsOf(f) = {VarOf(u) : u \in f.users}
  BY <1>3 DEF VarsOf, Marks, Gathers
<1>4. ASSUME NEW f, f.at \in Base PROVE VarsOf(f) = {}
  BY <1>4 DEF VarsOf, Marks, Gathers, Base
<1>5. \A v, b : ReadFrame(v, b).var = v /\ WriteFrame(v, b).var = v
  BY DEF ReadFrame, WriteFrame
<1>6. \A p, b, ps : OperandsFrame(p, b, ps).phi = p
                   /\ OperandFrame(p, b, ps).phi = p
  BY DEF OperandsFrame, OperandFrame
<1>7. \A us : UsersFrame(us).users = us
  BY DEF UsersFrame
<1>8. /\ "operands" \in Marks /\ "operand" \in Marks /\ "result" \in Marks
      /\ "fixup" \in Marks
      /\ "use" \in Base /\ "finalise" \in Base /\ "sealing" \in Base
  BY DEF Marks, Gathers, Base
<1>9. \A v, b : VarsOf(ReadFrame(v, b)) = {v} /\ VarsOf(WriteFrame(v, b)) = {v}
  BY <1>1, <1>5, FrameKinds
<1>10. \A p, b, ps : /\ VarsOf(OperandsFrame(p, b, ps)) = {VarOf(p)}
                     /\ VarsOf(OperandFrame(p, b, ps)) = {VarOf(p)}
  BY <1>2, <1>6, <1>8, FrameKinds
<1>11. \A p : \A k \in {"try", "result", "fixup"} :
         VarsOf(PhiFrame(k, p)) = {VarOf(p)}
  BY <1>2, <1>8, FrameKinds
<1>12. \A us : VarsOf(UsersFrame(us)) = {VarOf(u) : u \in us}
  BY <1>3, <1>7, FrameKinds
<1>13. /\ \A b, ps : VarsOf(SealingFrame(b, ps)) = {}
       /\ \A bs : VarsOf(FinaliseFrame(bs)) = {}
       /\ VarsOf(UseFrame) = {}
  BY <1>4, <1>8, FrameKinds
<1> QED
  BY <1>9, <1>10, <1>11, <1>12, <1>13

LEMMA OneVariableNext ==
  ASSUME InductiveSSA, Shape, OneVariable, SameVariable, WaitingAreCached,
         [Next]_vars
  PROVE  OneVariable'
<1> DEFINE Goal == \E v \in Var : IsAbout(v)'
<1> SUFFICES ASSUME calls' # <<>>, (top').at \notin Base
             PROVE  Goal
  BY DEF OneVariable
<1>1. ASSUME NEW v \in Var, IsAbout(v),
             \A f \in Frames' : f \in Frames
                                \/ (f.at # "sealing" /\ VarsOf(f) \subseteq {v}),
             (top').at \in {"write", "operand", "fixup"} => VarOf(ret') = v,
             Removing' => \A r \in Range(removals') :
                            VarOf(r.phi) = v /\ VarOf(r.by) = v
      PROVE  Goal
  <2>1. \A f \in Frames : f.at = "sealing" => f.block \in Block
    <3>1. Frames \subseteq Frame
      BY RangeType DEF Frames, InductiveSSA, TypeOK
    <3> QED
      BY <3>1, FrameFields
  <2>2. \A f \in Frames' : f.at = "sealing" =>
          currentDef'[<<v, f.block>>] # NoReg
    BY <1>1, <2>1, DefinitionsKept DEF IsAbout
  <2>3. \A f \in Frames' : VarsOf(f) \subseteq {v}
    BY <1>1 DEF IsAbout
  <2>4. IsAbout(v)'
    BY <1>1, <2>2, <2>3 DEF IsAbout
  <2> QED
    BY <2>4
<1>2. calls \in Seq(Frame)
  BY DEF InductiveSSA, TypeOK
<1>3. ASSUME calls # <<>>
      PROVE  /\ Below \subseteq Frames /\ Below \subseteq Frame
             /\ top \in Frames /\ top = calls[1]
             /\ Removing <=> top.at \in Removes
  BY <1>2, <1>3, ShapeFacts, StackShape DEF Removing
<1>4. CASE ReadLocal \/ ReadUnsealed
  <2>1. /\ Running("read") /\ top.at = "read" /\ calls # <<>>
        /\ top.var \in Var /\ top.block \in Block
    BY <1>4, TopFields DEF ReadLocal, ReadUnsealed, Missing, Found, Reading
  <2>2. PICK v \in Var : IsAbout(v) /\ top.var = v
    BY <2>1, TopIsAbout
  <2>3. calls' = Tail(calls) /\ Frames' = Below
    BY <1>4, ReturnMoves
  <2>4. (top').at \in {"write", "operand", "use"} /\ ~Removing'
    BY <2>1, <2>3, AfterReturn DEF MayCall, Removes, Tries
  <2>5. VarOf(ret') = v
    <3>1. CASE ReadLocal
      <4>1. ret' = currentDef[<<v, top.block>>] /\ ret' # NoReg
        BY <2>2, <3>1 DEF ReadLocal, Found, Return
      <4> QED
        BY <2>1, <4>1 DEF SameVariable
    <3>2. CASE ReadUnsealed
      BY <2>2, <3>2 DEF ReadUnsealed, Return, NewRegister, VarOf
    <3> QED
      BY <1>4, <3>1, <3>2
  <2> QED
    BY <1>1, <1>3, <2>1, <2>2, <2>3, <2>4, <2>5
<1>5. CASE ReadSinglePredecessor \/ ReadJoin
  <2>1. Running("read") /\ calls # <<>>
    BY <1>5, TopFields
    DEF ReadSinglePredecessor, ReadJoin, Missing, Found, Reading
  <2>2. PICK v \in Var : IsAbout(v) /\ top.var = v
    BY <2>1, TopIsAbout
  <2>3. \A f \in Frames' : f \in Frames
                           \/ (f.at # "sealing" /\ VarsOf(f) \subseteq {v})
    <3>1. CASE ReadSinglePredecessor
      BY <1>3, <2>1, <2>2, <3>1, ReadSinglePredecessorMoves, FrameKinds,
         FrameVars
    <3>2. CASE ReadJoin
      <4>1. VarOf(NewRegister(top.var)) = v
        BY <2>2 DEF NewRegister, VarOf
      <4> QED
        BY <1>3, <2>1, <2>2, <3>2, <4>1, ReadJoinMoves, FrameKinds, FrameVars
    <3> QED
      BY <1>5, <3>1, <3>2
  <2>4. (top').at \in {"read", "operands"} /\ top' = calls'[1]
    BY <1>5, ReadSinglePredecessorMoves, ReadJoinMoves, FrameKinds
  <2>5. ~Removing'
    BY <2>4 DEF Removing, Removes, Tries
  <2> QED
    BY <1>1, <2>2, <2>3, <2>4, <2>5
<1>6. CASE WriteBack \/ FixupComplete
  <2>1. ASSUME NEW k \in {"write", "fixup"}, Running(k), ret' = ret,
               calls' = Tail(calls), Frames' = Below
        PROVE  Goal
    <3>1. top.at = k /\ calls # <<>>
      BY <2>1, TopFields
    <3>2. k \in {"read", "write", "users", "try"} \cup Marks
      BY <2>1 DEF Marks
    <3>3. PICK v \in Var : IsAbout(v)
      BY <2>1, <3>2, TopIsAbout
    <3>4. VarOf(ret') = v
      BY <2>1, <3>1, <3>3 DEF IsAbout
    <3>5. ~Removing'
      BY <2>1, <3>1, AfterReturn DEF MayCall, Removes, Tries, Marks
    <3> QED
      BY <1>1, <1>3, <2>1, <3>1, <3>3, <3>4, <3>5
  <2>2. calls' = Tail(calls) /\ Frames' = Below
    BY <1>6, ReturnMoves
  <2>3. CASE WriteBack
    BY <2>1, <2>2, <2>3 DEF WriteBack, Return
  <2>4. CASE FixupComplete
    BY <2>1, <2>2, <2>4 DEF FixupComplete, Return
  <2> QED
    BY <1>6, <2>3, <2>4
<1>7. CASE ReadOperand
  <2>1. Running("operands") /\ calls # <<>> /\ "operands" \in Marks
    BY <1>7, TopFields DEF ReadOperand, Marks, Gathers
  <2>2. PICK v \in Var : IsAbout(v) /\ VarOf(top.phi) = v
    BY <2>1, TopIsAbout
  <2>3. (top').at = "read" /\ top' = calls'[1]
    BY <1>7, ReadOperandMoves, FrameKinds
  <2>4. ~Removing'
    BY <2>3 DEF Removing, Removes, Tries
  <2> QED
    BY <1>1, <1>3, <1>7, <2>1, <2>2, <2>3, <2>4, ReadOperandMoves,
       FrameKinds, FrameVars
<1>8. CASE AppendOperand
  <2>1. Running("operand") /\ calls # <<>> /\ "operand" \in Marks
    BY <1>8, TopFields DEF AppendOperand, Marks, Gathers
  <2>2. PICK v \in Var : IsAbout(v) /\ VarOf(top.phi) = v
    BY <2>1, TopIsAbout
  <2>3. (top').at = "operands" /\ top' = calls'[1]
    BY <1>8, AppendOperandMoves, FrameKinds
  <2>4. ~Removing'
    BY <2>3 DEF Removing, Removes, Tries
  <2> QED
    BY <1>1, <1>3, <1>8, <2>1, <2>2, <2>3, <2>4, AppendOperandMoves,
       FrameKinds, FrameVars
<1>9. CASE OperandsComplete
  <2>1. Running("operands") /\ calls # <<>> /\ "operands" \in Marks
    BY <1>9, TopFields DEF OperandsComplete, Marks, Gathers
  <2>2. PICK v \in Var : IsAbout(v) /\ VarOf(top.phi) = v
    BY <2>1, TopIsAbout
  <2>3. (top').at = "try" /\ Range(removals') = {}
    BY <1>9, OperandsCompleteMoves, FrameKinds DEF OperandsComplete, Range
  <2> QED
    BY <1>1, <1>3, <1>9, <2>1, <2>2, <2>3, OperandsCompleteMoves,
       FrameKinds, FrameVars
<1>10. CASE CollectResult
  <2>1. /\ Running("result") /\ calls # <<>> /\ "result" \in Marks
        /\ top.at = "result"
    BY <1>10, TopFields DEF CollectResult, Marks
  <2>2. PICK v \in Var : IsAbout(v) /\ VarOf(top.phi) = v
    BY <2>1, TopIsAbout
  <2>3. CASE removals = <<>>
    <3>1. calls' = Tail(calls) /\ Frames' = Below
      BY <1>10, <2>3, CollectResultMoves
    <3>2. VarOf(ret') = v
      BY <1>10, <2>2, <2>3 DEF CollectResult, Return
    <3>3. ~Removing'
      BY <2>1, <3>1, AfterReturn DEF MayCall, Removes, Tries, Marks
    <3> QED
      BY <1>1, <1>3, <2>1, <2>2, <3>1, <3>2, <3>3
  <2>4. CASE removals # <<>>
    <3>1. /\ Removing /\ removals' = removals /\ ret' = removals[1].by
          /\ removals[1] \in Range(removals)
      <4>1. removals \in Seq(Removal)
        BY DEF InductiveSSA, TypeOK
      <4>2. removals[1] \in Range(removals)
        BY <2>4, <4>1, TailRange
      <4> QED
        BY <1>3, <1>10, <2>1, <2>4, <4>2 DEF CollectResult, Removes
    <3>2. \A r \in Range(removals') : VarOf(r.phi) = v /\ VarOf(r.by) = v
      BY <2>2, <3>1 DEF IsAbout
    <3>3. VarOf(ret') = v
      BY <3>1, <3>2
    <3> QED
      BY <1>1, <1>3, <1>10, <2>1, <2>2, <2>4, <3>2, <3>3, CollectResultMoves,
         FrameKinds, FrameVars
  <2> QED
    BY <2>3, <2>4
<1>11. CASE FixupDefinitions
  <2>1. /\ Running("fixup") /\ calls # <<>> /\ "fixup" \in Marks
        /\ top.at = "fixup" /\ Removing
    BY <1>3, <1>11, TopFields DEF FixupDefinitions, Marks, Removes
  <2>2. PICK v \in Var : IsAbout(v)
    BY <2>1, TopIsAbout
  <2>3. calls' = calls /\ top' = top /\ Frames' = Frames
    BY <1>11, FixupDefinitionsMoves DEF top, Frames
  <2>4. /\ ret' = Replace(ret, Head(removals).phi, Head(removals).by)
        /\ removals' = Tail(removals) /\ removals # <<>>
    BY <2>1, <2>3, <1>11 DEF FixupDefinitions, Raise
  <2>5. /\ Head(removals) \in Range(removals)
        /\ Range(removals') \subseteq Range(removals)
    BY <2>4, TailRange DEF InductiveSSA, TypeOK
  <2>6. \A r \in Range(removals') : VarOf(r.phi) = v /\ VarOf(r.by) = v
    BY <2>1, <2>2, <2>5 DEF IsAbout
  <2>7. VarOf(ret') = v
    BY <2>1, <2>2, <2>4, <2>5 DEF IsAbout, Replace
  <2> QED
    BY <1>1, <2>2, <2>3, <2>6, <2>7
<1>12. CASE TryUndefined \/ TryNotTrivial
  <2>1. Running("try") /\ calls # <<>> /\ top.at = "try"
    BY <1>12, TopFields DEF TryUndefined, TryNotTrivial
  <2>2. PICK v \in Var : IsAbout(v)
    BY <2>1, TopIsAbout
  <2>3. /\ calls' = Tail(calls) /\ Frames' = Below /\ ret' = ret
        /\ removals' = removals
    BY <1>12, ReturnMoves DEF TryUndefined, TryNotTrivial, Return
  <2>4. (top').at \in {"users", "result"}
    BY <2>1, <2>3, AfterReturn DEF MayCall, Tries
  <2>5. Removing
    BY <1>3, <2>1 DEF Removes, Tries
  <2>6. \A r \in Range(removals') : VarOf(r.phi) = v /\ VarOf(r.by) = v
    BY <2>2, <2>3, <2>5 DEF IsAbout
  <2> QED
    BY <1>1, <1>3, <2>1, <2>2, <2>3, <2>4, <2>6
<1>13. CASE TryTrivial
  <2>1. Running("try") /\ calls # <<>> /\ top.at = "try" /\ top.phi \in Reg
    BY <1>13, TopFields DEF TryTrivial
  <2>2. PICK v \in Var : IsAbout(v) /\ VarOf(top.phi) = v
    BY <2>1, TopIsAbout
  <2>3. PICK by \in NonSelfArgs(top.phi) :
          removals' = Append(removals, [phi |-> top.phi, by |-> by])
    BY <1>13 DEF TryTrivial
  <2>4. by \in Reg
    BY <2>1, <2>3, QueryTypes DEF InductiveSSA
  <2>5. VarOf(by) = v
    BY <2>2, <2>3 DEF NonSelfArgs, SameVariable
  <2>6. \A u \in UsersOf(top.phi) : VarOf(u) = v
    BY <2>2 DEF UsersOf, SameVariable
  <2>7. Range(removals') = Range(removals) \cup {[phi |-> top.phi, by |-> by]}
    <3>1. [phi |-> top.phi, by |-> by] \in Removal /\ removals \in Seq(Removal)
      BY <2>1, <2>4 DEF Removal, InductiveSSA, TypeOK
    <3> QED
      BY <2>3, <3>1, AppendRange
  <2>8. Removing
    BY <1>3, <2>1 DEF Removes, Tries
  <2>9. \A r \in Range(removals') : VarOf(r.phi) = v /\ VarOf(r.by) = v
    BY <2>2, <2>5, <2>7, <2>8 DEF IsAbout
  <2>10. (top').at = "users"
    BY <1>13, TryTrivialMoves, FrameKinds
  <2>11. VarsOf(UsersFrame(UsersOf(top.phi))) \subseteq {v}
    BY <2>6, FrameVars
  <2> QED
    BY <1>1, <1>3, <1>13, <2>1, <2>2, <2>9, <2>10, <2>11, TryTrivialMoves,
       FrameKinds
<1>14. CASE TryUsers
  <2>1. Running("users") /\ calls # <<>> /\ top.at = "users"
    BY <1>14, TopFields DEF TryUsers
  <2>2. PICK v \in Var : IsAbout(v) /\ \A u \in top.users : VarOf(u) = v
    BY <2>1, TopIsAbout DEF Marks, Gathers
  <2>3. Removing /\ removals' = removals
    BY <1>3, <1>14, <2>1 DEF Removes, Tries, TryUsers
  <2>4. \A r \in Range(removals') : VarOf(r.phi) = v /\ VarOf(r.by) = v
    BY <2>2, <2>3 DEF IsAbout
  <2>5. CASE calls' = Tail(calls) /\ Frames' = Below
    <3>1. (top').at \in {"users", "result"}
      BY <2>1, <2>5, AfterReturn DEF MayCall, Tries
    <3> QED
      BY <1>1, <1>3, <2>1, <2>2, <2>4, <2>5, <3>1
  <2>6. ASSUME NEW u \in top.users,
               Frames' = {PhiFrame("try", u), UsersFrame(top.users \ {u})}
                         \cup Below,
               top' = PhiFrame("try", u)
        PROVE  Goal
    <3>1. /\ (top').at = "try"
          /\ VarsOf(PhiFrame("try", u)) \subseteq {v}
          /\ VarsOf(UsersFrame(top.users \ {u})) \subseteq {v}
          /\ PhiFrame("try", u).at = "try"
          /\ UsersFrame(top.users \ {u}).at = "users"
      BY <2>2, <2>6, FrameVars, FrameKinds
    <3>2. \A f \in Frames' : f \in Frames
                             \/ (f.at # "sealing" /\ VarsOf(f) \subseteq {v})
      BY <1>3, <2>1, <2>6, <3>1
    <3> QED
      BY <1>1, <2>2, <2>4, <3>1, <3>2
  <2> QED
    BY <1>14, <2>5, <2>6, TryUsersMoves
<1>15. CASE CompletePhi
  <2> DEFINE x == Head(top.todo)
             f == OperandsFrame(x, top.block, preds[top.block])
             g == SealingFrame(top.block, Tail(top.todo))
  <2>1. /\ calls # <<>> /\ top.at = "sealing" /\ top.block \in Block
        /\ top.todo \in Seq(Reg) /\ top.todo # <<>>
    BY <1>15, TopFields DEF CompletePhi
  <2>2. x \in Reg /\ x \in Range(top.todo) /\ VarOf(x) \in Var
    BY <2>1, TailRange, QueryTypes DEF InductiveSSA
  <2>3. currentDef[<<VarOf(x), top.block>>] # NoReg
    BY <1>3, <2>1, <2>2 DEF WaitingAreCached
  <2>4. currentDef'[<<VarOf(x), top.block>>] # NoReg
    BY <1>15, <2>3 DEF CompletePhi, ssaVars
  <2>5. Frames' = {f, g} \cup Below /\ top' = f /\ calls'[1] = f
    BY <1>15, CompletePhiMoves
  <2>6. \A h \in Below : h.at = "finalise" /\ VarsOf(h) = {}
    <3>1. \A h \in Below : h.at = "finalise"
      BY <1>2, <2>1, ShapeFacts
    <3> QED
      BY <3>1 DEF VarsOf, Marks, Gathers
  <2>7. VarsOf(f) = {VarOf(x)} /\ VarsOf(g) = {} /\ f.at = "operands"
        /\ g.at = "sealing" /\ g.block = top.block
    BY FrameVars, FrameKinds DEF SealingFrame
  <2>8. \A h \in Frames' :
          /\ VarsOf(h) \subseteq {VarOf(x)}
          /\ h.at = "sealing" => currentDef'[<<VarOf(x), h.block>>] # NoReg
    <3> HIDE DEF f, g, x
    <3> QED
      BY <2>4, <2>5, <2>6, <2>7
  <2>9. ~Removing' /\ (top').at \notin {"write", "operand", "fixup"}
    <3>1. (top').at = "operands" /\ calls'[1].at = "operands"
      BY <2>5, <2>7
    <3> QED
      BY <3>1 DEF Removing, Removes, Tries
  <2>10. \E v \in Var : v = VarOf(x)
    BY <2>2
  <2>11. PICK v \in Var : v = VarOf(x)
    BY <2>10
  <2>12. IsAbout(v)'
    <3> HIDE DEF x
    <3> QED
      BY <2>8, <2>9, <2>11 DEF IsAbout
  <2> QED
    BY <2>12
<1>16. CASE StartSeal
  BY <1>16, StartSealMoves, FrameKinds DEF Base
<1>17. CASE SealComplete
  <2>1. Running("sealing") /\ calls' = Tail(calls) /\ top.at = "sealing"
    BY <1>17, ReturnMoves, TopFields DEF SealComplete
  <2>2. (top').at = "finalise"
    BY <2>1, AfterReturn DEF MayCall
  <2> QED
    BY <2>2 DEF Base
<1>18. CASE AddUse
  <2>1. Running("use") /\ calls' = Tail(calls) /\ top.at = "use"
    BY <1>18, ReturnMoves, TopFields DEF AddUse
  <2> QED
    BY <2>1, AfterReturn DEF MayCall
<1>19. CASE FinaliseSeal
  BY <1>19, FinaliseSealMoves, FrameKinds DEF Base
<1>20. CASE FinaliseComplete
  BY <1>20, FinaliseCompleteMoves
<1>21. CASE Client
  <2>1. (top').at \notin {"seal", "finalise"}
    BY DEF Base
  <2>2. PICK v \in Var : /\ top' = ReadFrame(v, active) /\ calls'[1] = top'
                         /\ Frames' \in {{ReadFrame(v, active)},
                                         {ReadFrame(v, active), UseFrame}}
    BY <1>21, <2>1, ClientMoves, FrameKinds
  <2>3. (top').at = "read"
    BY <2>2, FrameKinds
  <2>4. ~Removing'
    BY <2>2, <2>3 DEF Removing, Removes, Tries
  <2>5. \A f \in Frames' : VarsOf(f) \subseteq {v} /\ f.at # "sealing"
    BY <2>2, FrameVars, FrameKinds
  <2>6. IsAbout(v)'
    BY <2>3, <2>4, <2>5 DEF IsAbout
  <2> QED
    BY <2>6
<1>22. CASE UNCHANGED vars
  <2>1. /\ calls' = calls /\ ret' = ret /\ removals' = removals
        /\ top' = top /\ Frames' = Frames /\ Removing' = Removing
    BY <1>22 DEF vars, callVars, top, Frames, Removing
  <2>2. PICK v \in Var : IsAbout(v)
    BY <2>1 DEF OneVariable
  <2> QED
    BY <1>1, <2>1, <2>2 DEF IsAbout
<1> QED
  BY <1>4, <1>5, <1>6, <1>7, <1>8, <1>9, <1>10, <1>11, <1>12, <1>13, <1>14,
     <1>15, <1>16, <1>17, <1>18, <1>19, <1>20, <1>21, <1>22 DEF Next, Step
-----------------------------------------------------------------------------
(* The age of the phis                                                     *)

(* Where the frames are, before and after a step.                          *)
LEMMA Positions ==
  ASSUME calls \in Seq(Frame), calls # <<>>
  PROVE  /\ Len(calls) \in Nat /\ Len(calls) >= 1
         /\ DOMAIN calls = 1..Len(calls)
         /\ top = calls[1]
         /\ \A i \in 2..Len(calls) : calls[i] \in Below
         /\ \A i \in 1..Len(calls) : calls[i] \in Frame /\ calls[i] \in Frames
<1>1. /\ Len(calls) \in Nat /\ Len(calls) >= 1 /\ DOMAIN calls = 1..Len(calls)
      /\ top = calls[1]
      /\ DOMAIN Tail(calls) = 1..(Len(calls) - 1)
      /\ \A i \in 1..(Len(calls) - 1) : Tail(calls)[i] = calls[i + 1]
      /\ \A i \in 1..Len(calls) : calls[i] \in Frame
  BY StackShape
<1>2. ASSUME NEW i \in 2..Len(calls) PROVE calls[i] \in Below
  <2>1. i - 1 \in DOMAIN Tail(calls) /\ Tail(calls)[i - 1] = calls[i]
    BY <1>1
  <2> QED
    BY <2>1 DEF Below, Range
<1>3. \A i \in 1..Len(calls) : calls[i] \in Frames
  BY <1>1 DEF Frames, Range
<1> QED
  BY <1>1, <1>2, <1>3

LEMMA PositionsReturn ==
  ASSUME calls \in Seq(Frame), calls # <<>>, calls' = Tail(calls)
  PROVE  /\ calls' \in Seq(Frame)
         /\ Len(calls') = Len(calls) - 1
         /\ DOMAIN calls' = 1..(Len(calls) - 1)
         /\ \A i \in 1..(Len(calls) - 1) : calls'[i] = calls[i + 1]
<1>1. Len(calls) \in Nat /\ Len(calls) >= 1
  BY Positions
<1> QED
  BY <1>1, StackShape

LEMMA PositionsOne ==
  ASSUME calls \in Seq(Frame), calls # <<>>, NEW f \in Frame, Become(<<f>>)
  PROVE  /\ calls' \in Seq(Frame)
         /\ Len(calls') = Len(calls)
         /\ DOMAIN calls' = 1..Len(calls)
         /\ calls'[1] = f
         /\ \A i \in 2..Len(calls) : calls'[i] = calls[i]
<1>1. Len(calls) \in Nat /\ Len(calls) >= 1
  BY Positions
<1>2. calls' = <<f>> \o Tail(calls)
  BY DEF Become
<1>3. /\ calls' \in Seq(Frame)
      /\ Len(calls') = Len(calls)
      /\ calls'[1] = f
      /\ \A i \in 2..Len(calls) : calls'[i] = calls[i]
  BY <1>2, StackShape
<1> QED
  BY <1>1, <1>3

LEMMA PositionsTwo ==
  ASSUME calls \in Seq(Frame), calls # <<>>,
         NEW f \in Frame, NEW g \in Frame, Become(<<f, g>>)
  PROVE  /\ calls' \in Seq(Frame)
         /\ Len(calls') = Len(calls) + 1
         /\ DOMAIN calls' = 1..(Len(calls) + 1)
         /\ calls'[1] = f /\ calls'[2] = g
         /\ \A i \in 3..(Len(calls) + 1) : calls'[i] = calls[i - 1]
<1>1. Len(calls) \in Nat /\ Len(calls) >= 1
  BY Positions
<1>2. calls' = <<f, g>> \o Tail(calls)
  BY DEF Become
<1>3. /\ calls' \in Seq(Frame)
      /\ Len(calls') = Len(calls) + 1
      /\ calls'[1] = f /\ calls'[2] = g
      /\ \A i \in 3..(Len(calls) + 1) : calls'[i] = calls[i - 1]
  BY <1>2, StackShape
<1> QED
  BY <1>1, <1>3

LEMMA YoungerReturn ==
  ASSUME calls \in Seq(Frame), calls # <<>>, InnerIsYounger,
         calls' = Tail(calls)
  PROVE  InnerIsYounger'
<1>1. ASSUME NEW i \in DOMAIN calls', NEW j \in DOMAIN calls', i < j,
             calls'[i].at \in Marks, calls'[j].at \in Marks
      PROVE  VersionOf(calls'[j].phi) < VersionOf(calls'[i].phi)
  <2>1. /\ i + 1 \in DOMAIN calls /\ j + 1 \in DOMAIN calls /\ i + 1 < j + 1
        /\ calls'[i] = calls[i + 1] /\ calls'[j] = calls[j + 1]
    BY <1>1, Positions, PositionsReturn
  <2> QED
    BY <1>1, <2>1 DEF InnerIsYounger
<1> QED
  BY <1>1 DEF InnerIsYounger

LEMMA YoungerOne ==
  ASSUME calls \in Seq(Frame), calls # <<>>, InnerIsYounger,
         NEW f \in Frame, Become(<<f>>),
         f.at \in Marks => top.at \in Marks /\ f.phi = top.phi
  PROVE  InnerIsYounger'
<1>1. ASSUME NEW i \in DOMAIN calls', NEW j \in DOMAIN calls', i < j,
             calls'[i].at \in Marks, calls'[j].at \in Marks
      PROVE  VersionOf(calls'[j].phi) < VersionOf(calls'[i].phi)
  <2>1. i \in DOMAIN calls /\ j \in DOMAIN calls /\ j >= 2
        /\ calls'[j] = calls[j]
    BY <1>1, Positions, PositionsOne
  <2>2. calls[i].at \in Marks /\ calls'[i].phi = calls[i].phi
    <3>1. CASE i = 1
      BY <1>1, <3>1, Positions, PositionsOne
    <3>2. CASE i # 1
      BY <1>1, <2>1, <3>2, Positions, PositionsOne
    <3> QED
      BY <3>1, <3>2
  <2> QED
    BY <1>1, <2>1, <2>2 DEF InnerIsYounger
<1> QED
  BY <1>1 DEF InnerIsYounger

LEMMA YoungerTwo ==
  ASSUME calls \in Seq(Frame), calls # <<>>, InnerIsYounger,
         NEW f \in Frame, NEW g \in Frame, Become(<<f, g>>),
         \/ /\ f.at \notin Marks
            /\ g.at \in Marks => top.at \in Marks /\ g.phi = top.phi
         \/ /\ g.at \notin Marks
            /\ \A h \in Below : h.at \in Marks
                 => VersionOf(h.phi) < VersionOf(f.phi)
  PROVE  InnerIsYounger'
<1>1. ASSUME NEW i \in DOMAIN calls', NEW j \in DOMAIN calls', i < j,
             calls'[i].at \in Marks, calls'[j].at \in Marks
      PROVE  VersionOf(calls'[j].phi) < VersionOf(calls'[i].phi)
  <2>1. /\ i \in 1..(Len(calls) + 1) /\ j \in 2..(Len(calls) + 1)
        /\ Len(calls) \in Nat /\ Len(calls) >= 1
        /\ calls'[1] = f /\ calls'[2] = g
        /\ DOMAIN calls = 1..Len(calls) /\ top = calls[1]
    BY <1>1, Positions, PositionsTwo
  <2>2. ASSUME NEW k \in 3..(Len(calls) + 1)
        PROVE  /\ calls'[k] = calls[k - 1] /\ k - 1 \in DOMAIN calls
               /\ calls[k - 1] \in Below
    <3>1. k - 1 \in 2..Len(calls)
      BY <2>1
    <3> QED
      BY <2>1, <3>1, Positions, PositionsTwo
  <2>3. CASE i >= 3
    <3>1. /\ calls'[i] = calls[i - 1] /\ i - 1 \in DOMAIN calls
          /\ calls'[j] = calls[j - 1] /\ j - 1 \in DOMAIN calls
          /\ i - 1 < j - 1
      BY <1>1, <2>1, <2>2, <2>3
    <3> QED
      BY <1>1, <3>1 DEF InnerIsYounger
  <2>4. CASE i = 2
    <3>1. /\ calls'[i] = g /\ g.at \in Marks
          /\ top.at \in Marks /\ g.phi = top.phi
      BY <1>1, <2>1, <2>4
    <3>2. calls'[j] = calls[j - 1] /\ j - 1 \in DOMAIN calls /\ 1 < j - 1
          /\ 1 \in DOMAIN calls
      BY <1>1, <2>1, <2>2, <2>4
    <3> QED
      BY <1>1, <2>1, <3>1, <3>2 DEF InnerIsYounger
  <2>5. CASE i = 1
    <3>1. calls'[i] = f /\ f.at \in Marks /\ g.at \notin Marks
      BY <1>1, <2>1, <2>5
    <3>2. j >= 3
      BY <1>1, <2>1, <3>1
    <3>3. calls'[j] \in Below
      BY <2>1, <2>2, <3>2
    <3> QED
      BY <1>1, <3>1, <3>3
  <2> QED
    BY <2>1, <2>3, <2>4, <2>5
<1> QED
  BY <1>1 DEF InnerIsYounger

LEMMA YoungerNone ==
  ASSUME calls' \in Seq(Frame), \A f \in Frames' : f.at \notin Marks
  PROVE  InnerIsYounger' /\ YoungSeparate'
<1>1. \A i \in DOMAIN calls' : calls'[i] \in Frames'
  BY DEF Frames, Range
<1>2. InnerIsYounger'
  BY <1>1 DEF InnerIsYounger
<1>3. YoungSeparate'
  <2>1. ASSUME NEW i \in 1..(Len(calls') - 1), calls'[i].at \in Marks
        PROVE  FALSE
    <3>1. i \in DOMAIN calls'
      OBVIOUS
    <3> QED
      BY <1>1, <2>1, <3>1
  <2> QED
    BY <2>1 DEF YoungSeparate
<1> QED
  BY <1>2, <1>3

(* A step keeps apart what is older than a phi whose operands are being    *)
(* gathered.                                                               *)
LEMMA SeparatesNext ==
  ASSUME InductiveSSA, Shape, OneVariable, SameVariable, InnerIsYounger,
         [Next]_vars,
         NEW h \in Frames, h.at \in Marks, Separates(h.phi)
  PROVE  Separates(h.phi)'
<1> DEFINE q == h.phi
<1>1. calls \in Seq(Frame) /\ phiArgs \subseteq PhiArg
  BY DEF InductiveSSA, TypeOK
<1>2. h \in Frame /\ q \in Reg
  <2>1. h \in Frame
    BY <1>1, RangeType DEF Frames
  <2> QED
    BY <2>1, FrameFields DEF Marks, Gathers
<1>3. CASE AppendOperand
  <2>1. /\ calls # <<>> /\ top.at = "operand" /\ top.phi \in Reg
    BY <1>3, TopFields DEF AppendOperand
  <2>2. VersionOf(q) <= VersionOf(top.phi)
    <3>1. PICK j \in DOMAIN calls : h = calls[j]
      BY DEF Frames, Range
    <3>2. VersionOf(q) \in Nat /\ VersionOf(top.phi) \in Nat
      BY <1>2, <2>1 DEF Reg, VersionOf
    <3>3. top = calls[1] /\ 1 \in DOMAIN calls /\ j >= 1 /\ j \in Nat
      BY <1>1, <2>1, Positions
    <3>4. CASE j = 1
      BY <3>1, <3>2, <3>3, <3>4
    <3>5. CASE j # 1
      <4>1. calls[1].at \in Marks /\ 1 < j
        BY <2>1, <3>3, <3>5 DEF Marks, Gathers
      <4>2. VersionOf(calls[j].phi) < VersionOf(calls[1].phi)
        BY <3>1, <3>3, <4>1 DEF InnerIsYounger
      <4> QED
        BY <3>1, <3>2, <3>3, <4>2
    <3> QED
      BY <3>4, <3>5
  <2>3. ASSUME NEW a \in phiArgs',
               VarOf(a.phi) = VarOf(q), VersionOf(a.phi) < VersionOf(q)
        PROVE  VersionOf(a.value) < VersionOf(q)
    <3>1. CASE a \in phiArgs
      BY <2>3, <3>1 DEF Separates
    <3>2. CASE a.phi = top.phi
      <4>1. VersionOf(q) \in Nat /\ VersionOf(top.phi) \in Nat
        BY <1>2, <2>1 DEF Reg, VersionOf
      <4>2. FALSE
        BY <2>2, <2>3, <3>2, <4>1
      <4> QED
        BY <4>2
    <3> QED
      BY <1>3, <2>3, <3>1, <3>2 DEF AppendOperand
  <2> QED
    BY <2>3 DEF Separates
<1>4. CASE TryTrivial
  <2> DEFINE p == top.phi
  <2>1. PICK by \in NonSelfArgs(p) : ReplacePhi(p, by)
    BY <1>4 DEF TryTrivial
  <2>2. PICK c \in phiArgs : c.phi = p /\ c.value = by
    BY <2>1 DEF NonSelfArgs
  <2>3. ASSUME NEW a \in phiArgs, VarOf(a.phi) = VarOf(q),
               VersionOf(a.phi) < VersionOf(q), a.value = p
        PROVE  VersionOf(by) < VersionOf(q)
    <3>1. VersionOf(p) < VersionOf(q)
      BY <2>3 DEF Separates
    <3>2. VarOf(c.phi) = VarOf(q)
      BY <2>2, <2>3 DEF SameVariable
    <3> QED
      BY <2>2, <3>1, <3>2 DEF Separates
  <2>4. ASSUME NEW a \in phiArgs',
               VarOf(a.phi) = VarOf(q), VersionOf(a.phi) < VersionOf(q)
        PROVE  VersionOf(a.value) < VersionOf(q)
    <3>1. PICK d \in phiArgs :
            a = IF d.phi \in PhiRegs \ {p}
                  THEN [d EXCEPT !.value = Replace(@, p, by)] ELSE d
      BY <2>1 DEF ReplacePhi
    <3>2. d \in PhiArg
      BY <1>1
    <3>3. a.phi = d.phi /\ (a.value = d.value \/ (d.value = p /\ a.value = by))
      BY <3>1, <3>2 DEF PhiArg, Replace
    <3> QED
      BY <2>3, <2>4, <3>3 DEF Separates
  <2> QED
    BY <2>4 DEF Separates
<1>5. CASE UNCHANGED phiArgs
  BY <1>5 DEF Separates
<1> QED
  BY <1>3, <1>4, <1>5, Changes

LEMMA SeparateReturn ==
  ASSUME calls \in Seq(Frame), calls # <<>>, YoungSeparate,
         calls' = Tail(calls),
         \A h \in Frames : h.at \in Marks /\ Separates(h.phi)
           => Separates(h.phi)'
  PROVE  YoungSeparate'
<1>1. ASSUME NEW i \in 1..(Len(calls') - 1),
             calls'[i].at \in Marks, calls'[i + 1].at = "write"
      PROVE  Separates(calls[i].phi)'
  <2>1. /\ i + 1 \in 1..(Len(calls) - 1)
        /\ calls'[i] = calls[i + 1] /\ calls'[i + 1] = calls[(i + 1) + 1]
    BY <1>1, Positions, PositionsReturn
  <2>2. Separates(calls[i + 1].phi) /\ calls[i + 1] \in Frames
    BY <1>1, <2>1, Positions DEF YoungSeparate
  <2>3. PICK h : h = calls[i + 1]
    OBVIOUS
  <2>4. Separates(h.phi)'
    BY <1>1, <2>1, <2>2, <2>3
  <2> QED
    BY <2>1, <2>3, <2>4 DEF Separates
<1> QED
  BY <1>1 DEF YoungSeparate

LEMMA SeparateOne ==
  ASSUME calls \in Seq(Frame), calls # <<>>, YoungSeparate,
         NEW f \in Frame, Become(<<f>>),
         f.at \in Marks => top.at \in Marks /\ f.phi = top.phi,
         \A h \in Frames : h.at \in Marks /\ Separates(h.phi)
           => Separates(h.phi)'
  PROVE  YoungSeparate'
<1>1. ASSUME NEW i \in 1..(Len(calls') - 1),
             calls'[i].at \in Marks, calls'[i + 1].at = "write"
      PROVE  Separates(calls[i].phi)'
  <2>1. /\ i \in 1..(Len(calls) - 1) /\ i \in 1..Len(calls)
        /\ calls'[i + 1] = calls[i + 1]
    BY <1>1, Positions, PositionsOne
  <2>2. calls[i].at \in Marks /\ calls'[i].phi = calls[i].phi
    BY <1>1, <2>1, Positions, PositionsOne
  <2>3. Separates(calls[i].phi) /\ calls[i] \in Frames
    BY <1>1, <2>1, <2>2, Positions DEF YoungSeparate
  <2>4. PICK h : h = calls[i]
    OBVIOUS
  <2>5. Separates(h.phi)'
    BY <2>2, <2>3, <2>4
  <2> QED
    BY <2>2, <2>4, <2>5 DEF Separates
<1> QED
  BY <1>1 DEF YoungSeparate

LEMMA SeparateTwo ==
  ASSUME calls \in Seq(Frame), calls # <<>>, YoungSeparate,
         NEW f \in Frame, NEW g \in Frame, Become(<<f, g>>),
         f.at \in Marks /\ g.at = "write" => Separates(f.phi)',
         g.at \in Marks => top.at \in Marks /\ g.phi = top.phi,
         \A h \in Frames : h.at \in Marks /\ Separates(h.phi)
           => Separates(h.phi)'
  PROVE  YoungSeparate'
<1>1. ASSUME NEW i \in 1..(Len(calls') - 1),
             calls'[i].at \in Marks, calls'[i + 1].at = "write"
      PROVE  Separates(calls[i].phi)'
  <2>1. /\ i \in 1..Len(calls) /\ Len(calls) \in Nat
        /\ calls'[1] = f /\ calls'[2] = g /\ top = calls[1]
    BY <1>1, Positions, PositionsTwo
  <2>2. CASE i = 1
    <3>1. f.at \in Marks /\ g.at = "write" /\ calls'[i].phi = f.phi
      BY <1>1, <2>1, <2>2
    <3>2. Separates(f.phi)'
      BY <3>1
    <3> QED
      BY <3>1, <3>2 DEF Separates
  <2>3. CASE i # 1
    <3>1. /\ i - 1 \in 1..(Len(calls) - 1) /\ i - 1 \in 1..Len(calls)
          /\ calls'[i + 1] = calls[(i - 1) + 1]
      BY <1>1, <2>1, <2>3, Positions, PositionsTwo
    <3>2. calls[i - 1].at \in Marks /\ calls'[i].phi = calls[i - 1].phi
      <4>1. CASE i = 2
        BY <1>1, <2>1, <4>1
      <4>2. CASE i # 2
        BY <1>1, <2>1, <2>3, <4>2, Positions, PositionsTwo
      <4> QED
        BY <4>1, <4>2
    <3>3. Separates(calls[i - 1].phi) /\ calls[i - 1] \in Frames
      BY <1>1, <3>1, <3>2, Positions DEF YoungSeparate
    <3>4. PICK h : h = calls[i - 1]
      OBVIOUS
    <3>5. Separates(h.phi)'
      BY <3>2, <3>3, <3>4
    <3> QED
      BY <3>2, <3>4, <3>5 DEF Separates
  <2> QED
    BY <2>2, <2>3
<1> QED
  BY <1>1 DEF YoungSeparate

(* What a step does to the frames that gather operands.                    *)
StackStays == calls' = calls
StackIsBase == \A f \in Frames' : f.at \in Base \cup {"read"}
StackReturns == calls # <<>> /\ calls' = Tail(calls)
StackGoesOn ==
  calls # <<>> /\ \E f \in Frame :
    /\ Become(<<f>>)
    /\ f.at \in Marks => top.at \in Marks /\ f.phi = top.phi
StackCalls ==
  calls # <<>> /\ \E f, g \in Frame :
    /\ Become(<<f, g>>)
    /\ g.at \in Marks => top.at \in Marks /\ g.phi = top.phi
    /\ f.at \in Marks =>
         \/ ReadJoin /\ f.phi = NewRegister(top.var) /\ g.at = "write"
         \/ CompletePhi /\ g.at = "sealing"

LEMMA StackStep ==
  ASSUME InductiveSSA, Shape, [Next]_vars
  PROVE  \/ StackStays \/ StackIsBase \/ StackReturns \/ StackGoesOn
         \/ StackCalls
<1>0. /\ "operands" \in Marks /\ "operand" \in Marks /\ "result" \in Marks
      /\ "fixup" \in Marks /\ "read" \notin Marks /\ "write" \notin Marks
      /\ "try" \notin Marks /\ "users" \notin Marks /\ "seal" \notin Marks
      /\ "sealing" \notin Marks /\ "finalise" \notin Marks
  BY DEF Marks, Gathers
<1>1. CASE Step
  <2>1. calls # <<>>
    BY <1>1, RunningStep
  <2>2. CASE ReadSinglePredecessor
    <3> DEFINE f == ReadFrame(top.var, Head(preds[top.block]))
               g == WriteFrame(top.var, top.block)
    <3>1. /\ f \in Frame /\ g \in Frame /\ Become(<<f, g>>)
          /\ f.at = "read" /\ g.at = "write"
      BY <2>2, ReadSinglePredecessorMoves, FrameKinds
    <3> HIDE DEF f, g
    <3> QED
      BY <1>0, <2>1, <3>1 DEF StackCalls
  <2>3. CASE ReadJoin
    <3> DEFINE f == OperandsFrame(NewRegister(top.var), top.block,
                                  preds[top.block])
               g == WriteFrame(top.var, top.block)
    <3>1. f \in Frame /\ g \in Frame /\ Become(<<f, g>>) /\ g.at = "write"
      BY <2>3, ReadJoinMoves, FrameKinds
    <3>2. f.phi = NewRegister(top.var)
      BY DEF OperandsFrame
    <3> HIDE DEF f, g
    <3> QED
      BY <1>0, <2>1, <2>3, <3>1, <3>2 DEF StackCalls
  <2>4. CASE ReadOperand
    <3> DEFINE f == ReadFrame(VarOf(top.phi), Head(top.todo))
               g == OperandFrame(top.phi, top.block, top.todo)
    <3>1. /\ f \in Frame /\ g \in Frame /\ Become(<<f, g>>)
          /\ f.at = "read" /\ g.phi = top.phi
      BY <2>4, ReadOperandMoves, FrameKinds DEF OperandFrame
    <3>2. top.at = "operands"
      BY <2>4, TopFields DEF ReadOperand
    <3> HIDE DEF f, g
    <3> QED
      BY <1>0, <2>1, <3>1, <3>2 DEF StackCalls
  <2>5. CASE AppendOperand
    <3>1. PICK f \in Frame : Become(<<f>>) /\ f.phi = top.phi
      BY <2>5, AppendOperandMoves DEF OperandsFrame
    <3>2. top.at = "operand"
      BY <2>5, TopFields DEF AppendOperand
    <3> QED
      BY <1>0, <2>1, <3>1, <3>2 DEF StackGoesOn
  <2>6. CASE OperandsComplete
    <3> DEFINE f == PhiFrame("try", top.phi)
               g == PhiFrame("result", top.phi)
    <3>1. /\ f \in Frame /\ g \in Frame /\ Become(<<f, g>>)
          /\ f.at = "try" /\ g.phi = top.phi
      BY <2>6, OperandsCompleteMoves, FrameKinds
    <3>2. top.at = "operands"
      BY <2>6, TopFields DEF OperandsComplete
    <3> HIDE DEF f, g
    <3> QED
      BY <1>0, <2>1, <3>1, <3>2 DEF StackCalls
  <2>7. CASE CollectResult
    <3>1. top.at = "result"
      BY <2>7, TopFields DEF CollectResult
    <3>2. CASE removals = <<>>
      BY <2>1, <2>7, <3>2, CollectResultMoves DEF StackReturns
    <3>3. CASE removals # <<>>
      <4>1. PICK f \in Frame : Become(<<f>>) /\ f.phi = top.phi
        BY <2>7, <3>3, CollectResultMoves, FrameKinds
      <4> QED
        BY <1>0, <2>1, <3>1, <4>1 DEF StackGoesOn
    <3> QED
      BY <3>2, <3>3
  <2>8. CASE TryTrivial
    <3>1. PICK f \in Frame : Become(<<f>>) /\ f.at = "users"
      BY <2>8, TryTrivialMoves, FrameKinds
    <3> QED
      BY <1>0, <2>1, <3>1 DEF StackGoesOn
  <2>9. CASE TryUsers
    <3>1. CASE calls' = Tail(calls)
      BY <2>1, <3>1 DEF StackReturns
    <3>2. CASE calls' # Tail(calls)
      <4>1. PICK f, g \in Frame : /\ Become(<<f, g>>) /\ f.at = "try"
                                  /\ g.at = "users"
        BY <2>9, <3>2, TryUsersMoves, FrameKinds
      <4> QED
        BY <1>0, <2>1, <4>1 DEF StackCalls
    <3> QED
      BY <3>1, <3>2
  <2>10. CASE CompletePhi
    <3> DEFINE f == OperandsFrame(Head(top.todo), top.block,
                                  preds[top.block])
               g == SealingFrame(top.block, Tail(top.todo))
    <3>1. /\ f \in Frame /\ g \in Frame /\ Become(<<f, g>>)
          /\ g.at = "sealing"
      BY <2>10, CompletePhiMoves, FrameKinds
    <3> HIDE DEF f, g
    <3> QED
      BY <1>0, <2>1, <2>10, <3>1 DEF StackCalls
  <2>11. CASE StartSeal
    <3>1. CASE Frames' = {}
      BY <3>1 DEF StackIsBase
    <3>2. CASE Frames' # {}
      <4>1. PICK f \in Frame : Become(<<f>>) /\ f.at = "sealing"
        BY <2>11, <3>2, StartSealMoves, FrameKinds
      <4> QED
        BY <1>0, <2>1, <4>1 DEF StackGoesOn
    <3> QED
      BY <3>1, <3>2
  <2>12. CASE FinaliseSeal
    <3>1. PICK f, g \in Frame : /\ Become(<<f, g>>) /\ f.at = "seal"
                                /\ g.at = "finalise"
      BY <2>12, FinaliseSealMoves, FrameKinds
    <3> QED
      BY <1>0, <2>1, <3>1 DEF StackCalls
  <2>13. CASE FixupDefinitions
    BY <2>13, FixupDefinitionsMoves DEF StackStays, StackIsBase
  <2>14. CASE FinaliseComplete
    BY <2>14, FinaliseCompleteMoves DEF StackIsBase
  <2> QED
    BY <1>1, <2>1, <2>2, <2>3, <2>4, <2>5, <2>6, <2>7, <2>8, <2>9, <2>10,
       <2>11, <2>12, <2>13, <2>14, ReturnMoves DEF Step, StackReturns
<1>2. CASE Client
  <2>1. CASE \E v \in Var : Frames' \in {{ReadFrame(v, active)},
                                        {ReadFrame(v, active), UseFrame}}
    BY <2>1, FrameKinds DEF StackIsBase, Base
  <2>2. CASE \E b \in Block : Frames' = {SealFrame(b)}
    BY <2>2, FrameKinds DEF StackIsBase, Base
  <2>3. CASE \E bs \in SUBSET Block : Frames' = {FinaliseFrame(bs)}
    BY <2>3, FrameKinds DEF StackIsBase, Base
  <2>4. CASE Frames' = {}
    BY <2>4 DEF StackIsBase
  <2> QED
    BY <1>2, <2>1, <2>2, <2>3, <2>4, ClientMoves
<1>3. CASE UNCHANGED vars
  BY <1>3 DEF vars, callVars, StackStays
<1> QED
  BY <1>1, <1>2, <1>3 DEF Next

LEMMA YoungNext ==
  ASSUME InductiveSSA, TypeOK', Shape, OneVariable, SameVariable, Issued,
         InnerIsYounger, YoungSeparate, [Next]_vars
  PROVE  InnerIsYounger' /\ YoungSeparate'
<1>1. calls \in Seq(Frame) /\ calls' \in Seq(Frame)
  BY DEF InductiveSSA, TypeOK
<1>2. \A h \in Frames : h.at \in Marks /\ Separates(h.phi)
        => Separates(h.phi)'
  BY SeparatesNext
<1>3. CASE StackStays
  <2>1. InnerIsYounger'
    BY <1>3 DEF StackStays, InnerIsYounger
  <2>2. ASSUME NEW i \in 1..(Len(calls) - 1), calls[i].at \in Marks,
               calls[i + 1].at = "write"
        PROVE  Separates(calls[i].phi)'
    <3>1. calls # <<>> /\ i \in 1..Len(calls)
      BY <1>1
    <3>2. calls[i] \in Frames
      BY <1>1, <3>1, Positions
    <3>3. PICK h : h = calls[i]
      OBVIOUS
    <3>4. Separates(h.phi)'
      BY <1>2, <2>2, <3>2, <3>3 DEF YoungSeparate
    <3> QED
      BY <1>3, <3>3, <3>4 DEF Separates, StackStays
  <2>3. YoungSeparate'
    BY <1>3, <2>2 DEF StackStays, YoungSeparate
  <2> QED
    BY <2>1, <2>3
<1>4. CASE StackIsBase
  <2>1. \A f \in Frames' : f.at \notin Marks
    BY <1>4 DEF StackIsBase, Base, Marks, Gathers
  <2> QED
    BY <1>1, <2>1, YoungerNone
<1>5. CASE StackReturns
  BY <1>1, <1>2, <1>5, YoungerReturn, SeparateReturn DEF StackReturns
<1>6. CASE StackGoesOn
  <2>1. PICK f \in Frame :
          /\ Become(<<f>>)
          /\ f.at \in Marks => top.at \in Marks /\ f.phi = top.phi
    BY <1>6 DEF StackGoesOn
  <2> QED
    BY <1>1, <1>2, <1>6, <2>1, YoungerOne, SeparateOne DEF StackGoesOn
<1>7. CASE StackCalls
  <2>0. calls # <<>>
    BY <1>7 DEF StackCalls
  <2>1. PICK f \in Frame, g \in Frame :
          /\ Become(<<f, g>>)
          /\ g.at \in Marks => top.at \in Marks /\ g.phi = top.phi
          /\ f.at \in Marks =>
               \/ ReadJoin /\ f.phi = NewRegister(top.var) /\ g.at = "write"
               \/ CompletePhi /\ g.at = "sealing"
    BY <1>7 DEF StackCalls
  <2>2. CASE f.at \notin Marks
    <3>1. InnerIsYounger'
      BY <1>1, <2>0, <2>1, <2>2, YoungerTwo
    <3>2. YoungSeparate'
      BY <1>1, <1>2, <2>0, <2>1, <2>2, SeparateTwo
    <3> QED
      BY <3>1, <3>2
  <2>3. CASE f.at \in Marks /\ ReadJoin /\ f.phi = NewRegister(top.var)
             /\ g.at = "write"
    <3>1. /\ Running("read") /\ top.var \in Var
      BY <2>3, TopFields DEF ReadJoin, Missing, Found, Reading
    <3>2. PICK v \in Var : IsAbout(v) /\ top.var = v
      BY <3>1, TopIsAbout
    <3>3. VersionOf(f.phi) = versions[v] /\ VarOf(f.phi) = v
      BY <2>3, <3>2 DEF NewRegister, VersionOf, VarOf
    <3>4. ASSUME NEW h \in Below, h.at \in Marks
          PROVE  VersionOf(h.phi) < VersionOf(f.phi)
      <4>1. h \in Frames
        BY <1>1, <2>0, <3>4, ShapeFacts
      <4>2. VarsOf(h) = {VarOf(h.phi)}
        BY <3>4 DEF VarsOf, Marks, Gathers
      <4>3. VarOf(h.phi) = v
        BY <3>2, <4>1, <4>2 DEF IsAbout
      <4> QED
        BY <3>3, <3>4, <4>1, <4>3 DEF Issued, IsIssued
    <3>5. g.at \notin Marks
      BY <2>3 DEF Marks, Gathers
    <3>6. InnerIsYounger'
      BY <1>1, <2>0, <2>1, <3>4, <3>5, YoungerTwo
    <3>7. phiArgs' = phiArgs
      BY <2>3 DEF ReadJoin
    <3>8. Separates(f.phi)'
      <4>1. ASSUME NEW a \in phiArgs, VarOf(a.phi) = VarOf(f.phi)
            PROVE  VersionOf(a.value) < VersionOf(f.phi)
        <5>1. VarOf(a.value) = v
          BY <3>3, <4>1 DEF SameVariable
        <5> QED
          BY <3>3, <5>1 DEF Issued, IsIssued
      <4> QED
        BY <3>7, <4>1 DEF Separates
    <3>9. YoungSeparate'
      BY <1>1, <1>2, <2>0, <2>1, <3>5, <3>8, SeparateTwo
    <3> QED
      BY <3>6, <3>9
  <2>4. CASE CompletePhi /\ g.at = "sealing"
    <3>1. top.at = "sealing"
      BY <2>4, TopFields DEF CompletePhi
    <3>2. \A h \in Below : h.at \notin Marks
      <4>1. \A h \in Below : h.at = "finalise"
        BY <1>1, <2>0, <3>1, ShapeFacts
      <4> QED
        BY <4>1 DEF Marks, Gathers
    <3>3. g.at \notin Marks /\ g.at # "write"
      BY <2>4 DEF Marks, Gathers
    <3>4. InnerIsYounger'
      BY <1>1, <2>0, <2>1, <3>2, <3>3, YoungerTwo
    <3>5. YoungSeparate'
      BY <1>1, <1>2, <2>0, <2>1, <3>3, SeparateTwo
    <3> QED
      BY <3>4, <3>5
  <2> QED
    BY <2>1, <2>2, <2>3, <2>4
<1> QED
  BY <1>3, <1>4, <1>5, <1>6, <1>7, StackStep

(* The register x is as young as the phis whose removals are under way.    *)
AsYoung(x) ==
  \A k \in 1..(Len(calls) - 1) :
    calls[k].at = "result" /\ calls[k + 1].at = "write"
      => VersionOf(calls[k].phi) <= VersionOf(x)

LEMMA AsYoungKept ==
  ASSUME calls \in Seq(Frame), calls # <<>>, NEW x, AsYoung(x),
         \/ calls' = Tail(calls)
         \/ \E f \in Frame : Become(<<f>>) /\ f.at # "result"
         \/ \E f, g \in Frame :
              Become(<<f, g>>) /\ f.at # "result" /\ g.at # "result"
  PROVE  AsYoung(x)'
<1> SUFFICES ASSUME NEW k \in 1..(Len(calls') - 1),
                    calls'[k].at = "result", calls'[k + 1].at = "write"
             PROVE  VersionOf(calls'[k].phi) <= VersionOf(x)
  BY DEF AsYoung
<1>1. ASSUME NEW j \in 1..(Len(calls) - 1),
             calls'[k] = calls[j], calls'[k + 1] = calls[j + 1]
      PROVE  VersionOf(calls'[k].phi) <= VersionOf(x)
  BY <1>1 DEF AsYoung
<1>2. CASE calls' = Tail(calls)
  <2>1. /\ k + 1 \in 1..(Len(calls) - 1)
        /\ calls'[k] = calls[k + 1] /\ calls'[k + 1] = calls[(k + 1) + 1]
    BY <1>2, Positions, PositionsReturn
  <2> QED
    BY <1>1, <2>1
<1>3. ASSUME NEW f \in Frame, Become(<<f>>), f.at # "result"
      PROVE  VersionOf(calls'[k].phi) <= VersionOf(x)
  <2>1. k # 1
    BY <1>3, PositionsOne
  <2>2. /\ k \in 1..(Len(calls) - 1)
        /\ calls'[k] = calls[k] /\ calls'[k + 1] = calls[k + 1]
    BY <1>3, <2>1, Positions, PositionsOne
  <2> QED
    BY <1>1, <2>2
<1>4. ASSUME NEW f \in Frame, NEW g \in Frame, Become(<<f, g>>),
             f.at # "result", g.at # "result"
      PROVE  VersionOf(calls'[k].phi) <= VersionOf(x)
  <2>1. k # 1 /\ k # 2
    BY <1>4, PositionsTwo
  <2>2. /\ k - 1 \in 1..(Len(calls) - 1)
        /\ calls'[k] = calls[k - 1] /\ calls'[k + 1] = calls[(k - 1) + 1]
    BY <1>4, <2>1, Positions, PositionsTwo
  <2> QED
    BY <1>1, <2>2
<1> QED
  BY <1>2, <1>3, <1>4

LEMMA TriedMeansAsYoung ==
  TriedAreYoung <=>
    \A x \in Reg : \A f \in Frames : IsTried(f, x) => AsYoung(x)
  BY DEF TriedAreYoung, AsYoung

LEMMA TriedAreYoungNext ==
  ASSUME InductiveSSA, TypeOK', Shape, OneVariable, SameVariable,
         YoungSeparate, TriedAreYoung, [Next]_vars
  PROVE  TriedAreYoung'
<1> SUFFICES ASSUME NEW x \in Reg, NEW f \in Frames', IsTried(f, x)
             PROVE  AsYoung(x)'
  BY DEF TriedAreYoung, AsYoung
<1>1. calls \in Seq(Frame) /\ calls' \in Seq(Frame)
  BY DEF InductiveSSA, TypeOK
<1>2. ASSUME \A h \in Frames' : h.at # "result"
      PROVE  AsYoung(x)'
  <2>1. ASSUME NEW k \in 1..(Len(calls') - 1) PROVE calls'[k].at # "result"
    <3>1. k \in DOMAIN calls'
      BY <1>1
    <3> QED
      BY <1>2, <3>1 DEF Frames, Range
  <2> QED
    BY <2>1 DEF AsYoung
<1>3. ASSUME f \in Frames PROVE AsYoung(x)
  BY <1>3, TriedMeansAsYoung
<1>4. CASE calls' = calls
  BY <1>3, <1>4 DEF Frames, AsYoung
<1>5. CASE OperandsComplete
  <2> DEFINE t == PhiFrame("try", top.phi)
             r == PhiFrame("result", top.phi)
  <2>1. /\ t \in Frame /\ r \in Frame /\ Become(<<t, r>>)
        /\ Frames' = {t, r} \cup Below
        /\ t.at = "try" /\ r.at = "result" /\ t.phi = top.phi
        /\ r.phi = top.phi
    BY <1>5, OperandsCompleteMoves, FrameKinds
  <2>2. calls # <<>> /\ top.at = "operands" /\ top.phi \in Reg
    BY <1>5, TopFields DEF OperandsComplete
  <2>3. \A h \in Below : h.at \notin Removes
    BY <1>1, <2>2, ShapeFacts DEF Tries
  <2> HIDE DEF t, r
  <2>4. x = top.phi
    BY <2>1, <2>3 DEF IsTried, Removes, Tries
  <2>5. ASSUME NEW k \in 1..(Len(calls') - 1), calls'[k].at = "result"
        PROVE  k = 2
    <3>1. /\ k \in 1..Len(calls) /\ Len(calls) \in Nat
          /\ k = 1 => calls'[k] = t
          /\ k >= 3 => calls'[k] = calls[k - 1] /\ k - 1 \in 2..Len(calls)
      BY <1>1, <2>1, <2>2, Positions, PositionsTwo
    <3>2. k >= 3 => calls'[k] \in Below
      BY <1>1, <2>2, <3>1, Positions
    <3>3. ~(k >= 3)
      BY <2>3, <2>5, <3>2 DEF Removes
    <3> QED
      BY <2>1, <2>5, <3>1, <3>3
  <2>6. calls'[2].phi = x /\ VersionOf(x) \in Nat
    BY <1>1, <2>1, <2>2, <2>4, PositionsTwo DEF Reg, VersionOf
  <2> QED
    BY <2>5, <2>6 DEF AsYoung
<1>6. CASE TryTrivial
  <2> DEFINE u == UsersFrame(UsersOf(top.phi))
  <2>1. /\ u \in Frame /\ Become(<<u>>) /\ Frames' = {u} \cup Below
        /\ u.at = "users" /\ u.users = UsersOf(top.phi)
    BY <1>6, TryTrivialMoves, FrameKinds DEF UsersFrame
  <2>2. /\ calls # <<>> /\ top.at = "try" /\ top.phi \in Reg /\ top \in Frames
        /\ Below \subseteq Frames /\ Running("try")
    BY <1>1, <1>6, TopFields, ShapeFacts DEF TryTrivial
  <2> HIDE DEF u
  <2>3. PICK v \in Var : IsAbout(v) /\ VarOf(top.phi) = v
    BY <2>2, TopIsAbout
  <2>4. AsYoung(top.phi)
    BY <2>2, TriedMeansAsYoung DEF IsTried
  <2>5. ASSUME x \in UsersOf(top.phi), NEW k \in 1..(Len(calls) - 1),
               calls[k].at = "result", calls[k + 1].at = "write"
        PROVE  VersionOf(calls[k].phi) <= VersionOf(x)
    <3> DEFINE q == calls[k].phi
    <3>1. VersionOf(q) <= VersionOf(top.phi)
      BY <2>4, <2>5 DEF AsYoung
    <3>2. calls[k] \in Frames /\ calls[k] \in Frame
      BY <1>1, <2>2, Positions
    <3>3. Separates(q) /\ q \in Reg /\ VarsOf(calls[k]) = {VarOf(q)}
      <4>1. calls[k].at \in Marks
        BY <2>5 DEF Marks
      <4> QED
        BY <2>5, <3>2, <4>1, FrameFields DEF YoungSeparate, VarsOf, Marks
    <3>4. VarOf(q) = v
      BY <2>3, <3>2, <3>3 DEF IsAbout
    <3>5. PICK a \in phiArgs : a.value = top.phi /\ a.phi = x
      BY <2>5 DEF UsersOf
    <3>6. VarOf(a.phi) = v
      BY <2>3, <3>5 DEF SameVariable
    <3>7. /\ VersionOf(x) \in Nat /\ VersionOf(q) \in Nat
          /\ VersionOf(top.phi) \in Nat
      BY <2>2, <3>3 DEF Reg, VersionOf
    <3>8. VersionOf(x) < VersionOf(q) => VersionOf(top.phi) < VersionOf(q)
      BY <3>3, <3>4, <3>5, <3>6 DEF Separates
    <3> QED
      BY <3>1, <3>7, <3>8
  <2>6. AsYoung(x)
    <3>1. CASE f = u
      <4>1. x \in UsersOf(top.phi)
        BY <2>1, <3>1 DEF IsTried
      <4> QED
        BY <2>5, <4>1 DEF AsYoung
    <3>2. CASE f \in Below
      BY <1>3, <2>2, <3>2
    <3> QED
      BY <2>1, <3>1, <3>2
  <2> QED
    BY <1>1, <2>1, <2>2, <2>6, AsYoungKept
<1>7. CASE TryUsers
  <2>1. /\ calls # <<>> /\ top.at = "users" /\ top \in Frames
        /\ Below \subseteq Frames
    BY <1>1, <1>7, TopFields, ShapeFacts DEF TryUsers
  <2>2. CASE calls' = Tail(calls) /\ Frames' = Below
    <3>1. AsYoung(x)
      BY <1>3, <2>1, <2>2
    <3> QED
      BY <1>1, <2>1, <2>2, <3>1, AsYoungKept
  <2>3. ASSUME NEW y \in top.users, NEW t, NEW g,
               t = PhiFrame("try", y), g = UsersFrame(top.users \ {y}),
               t \in Frame, g \in Frame, Become(<<t, g>>),
               Frames' = {t, g} \cup Below
        PROVE  AsYoung(x)'
    <3>1. /\ t.at = "try" /\ t.phi = y /\ g.at = "users"
          /\ g.users = top.users \ {y}
      BY <2>3, FrameKinds DEF UsersFrame
    <3>2. AsYoung(x)
      <4>1. CASE f \in {t, g}
        <5>1. IsTried(top, x)
          BY <2>1, <3>1, <4>1 DEF IsTried
        <5> QED
          BY <2>1, <5>1, TriedMeansAsYoung
      <4>2. CASE f \in Below
        BY <1>3, <2>1, <4>2
      <4> QED
        BY <2>3, <4>1, <4>2
    <3> QED
      BY <1>1, <2>1, <2>3, <3>1, <3>2, AsYoungKept
  <2> QED
    BY <1>7, <2>2, <2>3, TryUsersMoves
<1>8. CASE TryUndefined \/ TryNotTrivial
  <2>1. calls # <<>> /\ calls' = Tail(calls) /\ Frames' = Below
    BY <1>8, ReturnMoves DEF TryUndefined, TryNotTrivial, Running
  <2>2. AsYoung(x)
    BY <1>1, <1>3, <2>1, ShapeFacts
  <2> QED
    BY <1>1, <2>1, <2>2, AsYoungKept
<1>9. CASE CollectResult
  <2>1. calls # <<>> /\ top.at = "result"
    BY <1>9, TopFields DEF CollectResult
  <2>2. \A h \in Below : h.at \notin Removes
    BY <1>1, <2>1, ShapeFacts DEF Tries
  <2>3. Frames' \subseteq Below \cup {PhiFrame("fixup", top.phi)}
    BY <1>9, CollectResultMoves
  <2>4. \A h \in Frames' : h.at # "result"
    BY <2>2, <2>3, FrameKinds DEF Removes
  <2> QED
    BY <1>2, <2>4
<1>10. ASSUME calls # <<>> => top.at \notin Tries \cup {"result"},
              ~OperandsComplete
       PROVE  AsYoung(x)'
  <2>1. \A h \in Frames : h.at # "result"
    <3>1. CASE calls = <<>>
      BY <3>1 DEF Frames, Range
    <3>2. CASE calls # <<>>
      BY <1>1, <1>10, <3>2, ShapeFacts DEF Removes
    <3> QED
      BY <3>1, <3>2
  <2>2. ASSUME NEW h \in Frames', h.at = "result" PROVE FALSE
    <3>1. h.at \in Marks \cup {"sealing"} /\ h.at \notin {"operands", "operand",
            "fixup", "sealing"}
      BY <2>2 DEF Marks
    <3>2. h \notin Frames
      BY <2>1, <2>2
    <3> QED
      BY <1>10, <3>1, <3>2, NewFrames, FrameKinds
  <2> QED
    BY <1>2, <2>2
<1>11. \/ calls = <<>> \/ top.at \notin Tries \cup {"result"}
       \/ calls' = calls \/ TryTrivial \/ TryUsers \/ TryUndefined
       \/ TryNotTrivial \/ CollectResult
  <2>1. CASE Step
    BY <2>1 DEF Step, ReadLocal, ReadUnsealed, ReadSinglePredecessor,
         ReadJoin, WriteBack, ReadOperand, AppendOperand, OperandsComplete,
         FixupDefinitions, FixupComplete, StartSeal, CompletePhi,
         SealComplete, AddUse, FinaliseSeal, FinaliseComplete, Missing,
         Reading, Running, top, Tries
  <2>2. CASE Client
    BY <2>2, ClientMoves
  <2>3. CASE UNCHANGED vars
    BY <2>3 DEF vars, callVars
  <2> QED
    BY <2>1, <2>2, <2>3 DEF Next
<1> QED
  BY <1>4, <1>5, <1>6, <1>7, <1>8, <1>9, <1>10, <1>11

(* A removal never tries a phi whose operands are being gathered.          *)
LEMMA TriedNotFilling ==
  ASSUME InductiveSSA, Shape, InnerIsYounger, TriedAreYoung,
         NEW f \in Frames, NEW x \in Reg, IsTried(f, x),
         NEW g \in Frames, g.at \in Gathers
  PROVE  g.phi # x
<1>1. calls \in Seq(Frame) /\ calls # <<>>
  BY DEF InductiveSSA, TypeOK, Frames, Range
<1>2. DOMAIN calls = 1..Len(calls) /\ Len(calls) \in Nat
  BY <1>1, Positions
<1>3. PICK i \in DOMAIN calls : f = calls[i]
  BY DEF Frames, Range
<1>4. PICK j \in DOMAIN calls : g = calls[j]
  BY DEF Frames, Range
<1>5. calls[i].at \in Tries
  BY <1>3 DEF IsTried, Tries
<1>6. PICK k \in DOMAIN calls : i < k /\ calls[k].at = "result"
  BY <1>5 DEF Shape
<1>7. k < j
  <2>1. ~(j < k)
    <3>1. j < k => calls[j].at \in Tries
      BY <1>6 DEF Shape, Removes
    <3> QED
      BY <1>4, <3>1 DEF Tries, Gathers
  <2>2. j # k
    BY <1>4, <1>6 DEF Gathers
  <2> QED
    BY <1>2, <2>1, <2>2
<1>8. k \in 1..(Len(calls) - 1) /\ MayCall(calls[k + 1], calls[k])
  BY <1>2, <1>7 DEF Shape
<1>9. calls[k + 1].at \in {"write", "sealing"}
  BY <1>6, <1>8 DEF MayCall, Marks
<1>10. CASE calls[k + 1].at = "sealing"
  <2>1. j # k + 1
    BY <1>4, <1>10 DEF Gathers
  <2>2. k + 1 \in 1..(Len(calls) - 1)
    BY <1>2, <1>7, <2>1
  <2>3. calls[(k + 1) + 1].at = "finalise"
    BY <1>10, <2>2 DEF Shape, MayCall
  <2>4. (k + 1) + 1 \notin 1..(Len(calls) - 1)
    <3>1. ASSUME (k + 1) + 1 \in 1..(Len(calls) - 1) PROVE FALSE
      BY <2>3, <3>1 DEF Shape, MayCall
    <3> QED
      BY <3>1
  <2>5. j = (k + 1) + 1
    BY <1>2, <1>7, <2>1, <2>2, <2>4
  <2> QED
    BY <1>4, <2>3, <2>5 DEF Gathers
<1>11. CASE calls[k + 1].at = "write"
  <2>1. VersionOf(calls[k].phi) <= VersionOf(x)
    BY <1>6, <1>8, <1>11 DEF TriedAreYoung
  <2>2. calls[k].at \in Marks /\ calls[j].at \in Marks
    BY <1>4, <1>6 DEF Marks
  <2>3. VersionOf(calls[j].phi) < VersionOf(calls[k].phi)
    BY <1>7, <2>2 DEF InnerIsYounger
  <2>4. calls[k] \in Frame /\ calls[j] \in Frame
    BY <1>1, <1>2, Positions
  <2>5. calls[k].phi \in Reg /\ calls[j].phi \in Reg
    BY <2>2, <2>4, FrameFields DEF Marks, Gathers
  <2>6. /\ VersionOf(calls[k].phi) \in Nat /\ VersionOf(calls[j].phi) \in Nat
        /\ VersionOf(x) \in Nat
    BY <2>5 DEF Reg, VersionOf
  <2>7. VersionOf(calls[j].phi) # VersionOf(x)
    BY <2>1, <2>3, <2>6
  <2> QED
    BY <1>4, <2>7
<1> QED
  BY <1>9, <1>10, <1>11

=============================================================================
