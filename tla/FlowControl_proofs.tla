------------------------- MODULE FlowControl_proofs -------------------------
(***************************************************************************)
(* What FlowControl guarantees for every program: its handlers implement   *)
(* the client that BraunSSA promises its properties to.                    *)
(***************************************************************************)
EXTENDS FlowControl_invariant, SSAExecution_proofs

-----------------------------------------------------------------------------
(* What the calls keep of the registers that handlers keep                 *)

(* The counters of versions, one by one.                                   *)
LEMMA VersionsUp ==
  ASSUME InductiveSSA, [Next]_vars, NEW v \in Var
  PROVE  /\ versions[v] \in Nat /\ versions'[v] \in Nat
         /\ versions[v] <= versions'[v]
<1>1. versions \in [Var -> Nat] /\ versions' \in [Var -> Nat]
  BY NextSSA DEF InductiveSSA, TypeOK
<1>2. ASSUME NEW w \in Var, BumpVersion(w)
      PROVE  versions[v] <= versions'[v]
  BY <1>1, <1>2 DEF BumpVersion
<1>3. CASE ReadUnsealed \/ ReadJoin
  <2>1. top.var \in Var
    BY <1>3, TypeParts, RunningFrame, FrameFields
    DEF InductiveSSA, ReadUnsealed, ReadJoin, Missing, Found, Reading
  <2> QED
    BY <1>1, <1>2, <1>3, <2>1 DEF ReadUnsealed, ReadJoin, NewPhi
<1>4. CASE \E w \in Var : Assign(w)
  BY <1>1, <1>2, <1>4 DEF Assign
<1>5. CASE versions' = versions
  BY <1>1, <1>5
<1> QED
  BY <1>1, <1>3, <1>4, <1>5, Changes

(* A phi that is made is younger than any protected register.              *)
LEMMA NewIsYoung ==
  ASSUME InductiveSSA, NEW w \in Var, NEW v, NEW n, Protected(v, n)
  PROVE  VarOf(NewRegister(w)) = v => n <= VersionOf(NewRegister(w))
  BY DEF NewRegister, VarOf, VersionOf, Protected

LEMMA ProtectedArgs ==
  ASSUME StepOK, Step, NEW v \in Var, NEW n \in Nat, Protected(v, n),
         NEW a \in phiArgs', VarOf(a.phi) = v, VersionOf(a.phi) < n
  PROVE  VersionOf(a.value) < n
<1>0. /\ InductiveSSA /\ Shape /\ SameVariable /\ [Next]_vars
      /\ phiArgs \subseteq PhiArg /\ top \in Frames
  BY StepFacts, StepStack DEF TypeOK
<1>1. \A r \in Reg : VersionOf(r) \in Nat
  BY DEF VersionOf, Reg
<1>2. CASE a \in phiArgs
  BY <1>2 DEF Protected
<1>3. CASE AppendOperand /\ a.phi = top.phi
  <2>1. top.at = "operand" /\ top.phi \in Reg
    BY <1>0, <1>3, TopFields DEF AppendOperand
  <2>2. n <= VersionOf(top.phi)
    BY <1>0, <1>3, <2>1 DEF Protected, Marks, Gathers
  <2> QED
    BY <1>1, <1>3, <2>1, <2>2
<1>4. CASE TryTrivial
  <2>1. top.at = "try" /\ top.phi \in Reg
    BY <1>0, <1>4, TopFields DEF TryTrivial
  <2>2. PICK by \in Reg : phiArgs' = {Renamed(c, top.phi, by) : c \in phiArgs}
    BY <1>0, <1>4, TryTrivialArgs
  <2>3. PICK c \in phiArgs : a = Renamed(c, top.phi, by)
    BY <2>2
  <2>4. c \in PhiArg /\ c.phi = a.phi /\ VersionOf(c.value) < n
    BY <1>0, <2>3, RenamedFields DEF Protected
  <2>5. CASE c.value = top.phi
    <3>1. VarOf(top.phi) = v
      BY <1>0, <2>4, <2>5 DEF SameVariable
    <3>2. n <= VersionOf(top.phi)
      BY <1>0, <2>1, <3>1 DEF Protected, IsTried
    <3> QED
      BY <1>1, <2>1, <2>4, <2>5, <3>2
  <2>6. CASE c.value # top.phi
    BY <2>3, <2>4, <2>6, RenamedFields DEF Replace
  <2> QED
    BY <2>5, <2>6
<1>5. a \in phiArgs \/ (AppendOperand /\ a.phi = top.phi) \/ TryTrivial
  <2>1. CASE AppendOperand
    BY <2>1 DEF AppendOperand
  <2> QED
    BY <1>0, <2>1, Changes
<1> QED
  BY <1>2, <1>3, <1>4, <1>5

LEMMA ProtectedFrames ==
  ASSUME StepOK, Step, NEW v \in Var, NEW n \in Nat, Protected(v, n),
         NEW f \in Frames'
  PROVE  /\ f.at \in Marks /\ VarOf(f.phi) = v => n <= VersionOf(f.phi)
         /\ f.at = "sealing" =>
              \A x \in Range(f.todo) : VarOf(x) = v => n <= VersionOf(x)
<1>0. /\ InductiveSSA /\ Shape /\ [Next]_vars /\ top \in Frames
  BY StepFacts, StepStack
<1> SUFFICES ASSUME f.at \in Marks \cup {"sealing"}
             PROVE  /\ f.at \in Marks /\ VarOf(f.phi) = v
                         => n <= VersionOf(f.phi)
                    /\ f.at = "sealing" =>
                         \A x \in Range(f.todo) :
                           VarOf(x) = v => n <= VersionOf(x)
  OBVIOUS
<1>1. CASE f \in Frames
  BY <1>1 DEF Protected
<1>2. "sealing" \notin Marks
  BY DEF Marks, Gathers
<1>3. CASE /\ ReadJoin
           /\ f = OperandsFrame(NewRegister(top.var), top.block,
                                preds[top.block])
  <2>1. top.var \in Var
    BY <1>0, <1>3, TopFields DEF ReadJoin, Missing, Reading
  <2> QED
    BY <1>0, <1>3, <2>1, NewIsYoung DEF OperandsFrame
<1>4. CASE \/ ReadOperand /\ f = OperandFrame(top.phi, top.block, top.todo)
           \/ /\ AppendOperand
              /\ f = OperandsFrame(top.phi, top.block, Tail(top.todo))
           \/ OperandsComplete /\ f = PhiFrame("result", top.phi)
           \/ CollectResult /\ f = PhiFrame("fixup", top.phi)
  <2>1. top.at \in Marks
    BY <1>0, <1>4, TopFields
    DEF ReadOperand, AppendOperand, OperandsComplete, CollectResult, Marks,
        Gathers
  <2>2. f.phi = top.phi /\ f.at # "sealing"
    BY <1>4 DEF OperandFrame, OperandsFrame, PhiFrame
  <2> QED
    BY <1>0, <2>1, <2>2 DEF Protected
<1>5. CASE /\ CompletePhi
           /\ f \in {OperandsFrame(Head(top.todo), top.block,
                                   preds[top.block]),
                     SealingFrame(top.block, Tail(top.todo))}
  <2>1. top.at = "sealing" /\ top.todo \in Seq(Reg) /\ top.todo # <<>>
    BY <1>0, <1>5, TopFields DEF CompletePhi
  <2>2. Range(top.todo) = {Head(top.todo)} \cup Range(Tail(top.todo))
    BY <2>1, TailRange
  <2>3. \A x \in Range(top.todo) : VarOf(x) = v => n <= VersionOf(x)
    BY <1>0, <2>1 DEF Protected
  <2>4. CASE f = OperandsFrame(Head(top.todo), top.block, preds[top.block])
    <3>1. f.phi = Head(top.todo) /\ f.at = "operands"
      BY <2>4 DEF OperandsFrame
    <3> QED
      BY <2>2, <2>3, <3>1
  <2>5. CASE f = SealingFrame(top.block, Tail(top.todo))
    <3>1. f.todo = Tail(top.todo) /\ f.at = "sealing"
      BY <2>5 DEF SealingFrame
    <3> QED
      BY <1>2, <2>2, <2>3, <3>1
  <2> QED
    BY <1>5, <2>4, <2>5
<1>6. CASE StartSeal /\ f = SealingFrame(top.block, incomplete[top.block])
  <2>1. top.at = "seal"
    BY <1>0, <1>6, TopFields DEF StartSeal
  <2> QED
    BY <1>0, <1>2, <1>6, <2>1 DEF Protected, SealingFrame
<1> QED
  BY <1>0, <1>1, <1>3, <1>4, <1>5, <1>6, NewFrames

LEMMA ProtectedTried ==
  ASSUME StepOK, Step, NEW v \in Var, NEW n \in Nat, Protected(v, n),
         NEW f \in Frames', NEW x \in Reg, IsTried(f, x), VarOf(x) = v
  PROVE  n <= VersionOf(x)
<1>0. /\ InductiveSSA /\ Shape /\ SameVariable /\ [Next]_vars
      /\ top \in Frames /\ phiArgs \subseteq PhiArg
  BY StepFacts, StepStack DEF TypeOK
<1>1. CASE \E g \in Frames : IsTried(g, x)
  BY <1>1 DEF Protected
<1>2. CASE OperandsComplete /\ x = top.phi
  <2>1. top.at = "operands"
    BY <1>0, <1>2, TopFields DEF OperandsComplete
  <2> QED
    BY <1>0, <1>2, <2>1 DEF Protected, Marks, Gathers
<1>3. CASE TryTrivial /\ x \in UsersOf(top.phi)
  <2>1. top.at = "try" /\ top.phi \in Reg
    BY <1>0, <1>3, TopFields DEF TryTrivial
  <2>2. PICK a \in phiArgs : a.value = top.phi /\ a.phi = x
    BY <1>3 DEF UsersOf
  <2>3. VarOf(top.phi) = v
    BY <1>0, <2>2 DEF SameVariable
  <2>4. n <= VersionOf(top.phi)
    BY <1>0, <2>1, <2>3 DEF Protected, IsTried
  <2>5. VersionOf(x) \in Nat /\ VersionOf(top.phi) \in Nat
    BY <2>1 DEF Reg, VersionOf
  <2>6. VersionOf(x) < n => VersionOf(top.phi) < n
    BY <2>2 DEF Protected
  <2> QED
    BY <2>4, <2>5, <2>6
<1> QED
  BY <1>0, <1>1, <1>2, <1>3, NewTried

(* What waits for a block to be sealed may only grow by new phis.          *)
LEMMA WaitingYoung ==
  ASSUME StepOK, Step, NEW v \in Var, NEW n \in Nat, Protected(v, n),
         NEW b \in Block,
         \A x \in Range(incomplete[b]) : VarOf(x) = v => n <= VersionOf(x)
  PROVE  \A x \in Range(incomplete'[b]) : VarOf(x) = v => n <= VersionOf(x)
<1>0. /\ InductiveSSA /\ Shape /\ [Next]_vars
      /\ incomplete \in [Block -> Seq(Reg)]
  BY StepFacts DEF TypeOK
<1>1. CASE ReadUnsealed
  <2>1. top.var \in Var /\ top.block \in Block
    BY <1>0, <1>1, TopFields DEF ReadUnsealed, Missing, Reading
  <2>2. NewRegister(top.var) \in Reg
    BY <1>0, <2>1, QueryTypes DEF InductiveSSA
  <2>3. incomplete' = [incomplete EXCEPT ![top.block] =
                         Append(@, NewRegister(top.var))]
    BY <1>1 DEF ReadUnsealed
  <2>4. Range(Append(incomplete[b], NewRegister(top.var)))
          = Range(incomplete[b]) \cup {NewRegister(top.var)}
    BY <1>0, <2>2, AppendRange
  <2>5. \/ incomplete'[b] = incomplete[b]
        \/ incomplete'[b] = Append(incomplete[b], NewRegister(top.var))
    BY <1>0, <2>3
  <2> QED
    BY <1>0, <2>1, <2>4, <2>5, NewIsYoung
<1>2. CASE StartSeal
  <2>1. top.block \in Block
    BY <1>0, <1>2, TopFields DEF StartSeal
  <2>2. \/ incomplete' = incomplete
        \/ incomplete' = [incomplete EXCEPT ![top.block] = <<>>]
    BY <1>2 DEF StartSeal, TakeIncomplete
  <2>3. Range(<<>>) = {}
    BY DEF Range
  <2>4. incomplete'[b] = incomplete[b] \/ incomplete'[b] = <<>>
    BY <1>0, <2>1, <2>2
  <2> QED
    BY <2>3, <2>4
<1> QED
  BY <1>0, <1>1, <1>2, Changes

(* While no label is sealed, what is protected stays so.                   *)
LEMMA ProtectedNext ==
  ASSUME StepOK, Step, NEW v \in Var, NEW n \in Nat, Protected(v, n),
         \A f \in Frames : f.at # "finalise"
  PROVE  Protected(v, n)'
<1>0. /\ InductiveSSA /\ Shape /\ [Next]_vars /\ top \in Frames
      /\ calls \in Seq(Frame)
  BY StepFacts, StepStack
<1>1. n <= versions'[v]
  BY <1>0, VersionsUp DEF Protected
<1>2. ASSUME NEW f \in Frames', f.at = "seal"
      PROVE  \A x \in Range(incomplete'[f.block]) :
               VarOf(x) = v => n <= VersionOf(x)
  <2>1. f \in Frames
    BY <1>2, NewSeals
  <2>2. f.block \in Block
    BY <1>0, <1>2, <2>1, FramesAreTyped, FrameFields
  <2> QED
    BY <1>2, <2>1, <2>2, WaitingYoung DEF Protected
<1> QED
  BY <1>1, <1>2, ProtectedArgs, ProtectedFrames, ProtectedTried DEF Protected

(* No step removes a protected register.                                   *)
LEMMA ProtectedStays ==
  ASSUME StepOK, Step, NEW r \in DefinedRegs, NEW n \in Nat,
         VersionOf(r) < n, Protected(VarOf(r), n)
  PROVE  r \in DefinedRegs'
<1>0. /\ InductiveSSA /\ Shape /\ [Next]_vars /\ top \in Frames
      /\ r \in Reg
  BY StepFacts, StepStack, UsedRegs
<1>1. CASE TryTrivial
  <2>1. top.at = "try" /\ top.phi \in Reg
    BY <1>0, <1>1, TopFields DEF TryTrivial
  <2>2. VersionOf(top.phi) \in Nat /\ VersionOf(r) \in Nat
    BY <1>0, <2>1 DEF Reg, VersionOf
  <2>3. r # top.phi
    BY <1>0, <2>1, <2>2 DEF Protected, IsTried
  <2> QED
    BY <1>0, <1>1, <2>3, RemovedDefinition
<1> QED
  BY <1>0, <1>1, DefinedGrow

-----------------------------------------------------------------------------
(* The items                                                               *)

(* What the visitor has to do first.                                       *)
LEMMA FirstItem ==
  ASSUME VisitorTypes, AtItem
  PROVE  /\ todo \in Seq(Item) /\ item \in Item /\ item = todo[1]
         /\ 1 \in DOMAIN todo /\ item \in Range(todo)
         /\ Idle /\ todo # <<>> /\ Tail(todo) \in Seq(Item)
         /\ Range(todo) = {item} \cup Range(Tail(todo))
         /\ Range(todo) \subseteq Item
<1>1. todo \in Seq(Item) /\ todo # <<>> /\ Idle
  BY DEF VisitorTypes, AtItem
<1>2. 1 \in DOMAIN todo /\ item = todo[1] /\ item \in Item
  BY <1>1 DEF item
<1> QED
  BY <1>1, <1>2, TailRange, RangeType DEF item, Range

(* What the kind of an item says about its fields.                         *)
LEMMA ItemFields ==
  ASSUME NEW x \in Item
  PROVE  /\ x.do \in {"goto", "activate", "open", "close"} => x.block \in Block
         /\ x.do = "branch" => x.targets \subseteq Block
         /\ x.do \in {"assign", "use", "hold"} => x.var \in Var
         /\ x.do \in {"hold", "keep", "useHeld"} => x.key \in Nat
         /\ x.do = "release" => x.keys \subseteq Nat
         /\ x.do = "try" => x.block \in Block /\ x.then \in Seq(SimpleItem)
         /\ x.do = "cond" => x.true \in Block /\ x.false \in Block
         /\ x.do = "loop" =>
              x.cont \in Block /\ x.brk \in Block /\ x.label \in Label
         /\ x.do = "visit" => x.block \in Label
  BY DEF Item, SimpleItem

LEMMA SimpleItems == SimpleItem \subseteq Item
  BY DEF Item

(* The blocks and registers that an item is about, by its kind.            *)
LEMMA ItemBlocks ==
  ASSUME NEW x \in Item
  PROVE  /\ x.do = "useHeld" => KeysOf(x) = {x.key}
         /\ x.do \notin {"useHeld", "try"} => KeysOf(x) = {}
         /\ x.do \in {"activate", "open"} => Activates(x) = {x.block}
         /\ x.do = "visit" => Activates(x) \subseteq {x.block}
         /\ x.do \notin {"activate", "open", "try", "visit"}
              => Activates(x) = {}
         /\ x.do \in {"activate", "close"} => Seals(x) = {x.block} \ Labelled
         /\ x.do = "visit" => Seals(x) = {x.block} \ (Labelled \cup {NoLabel})
         /\ x.do \notin {"activate", "close", "try", "visit"} => Seals(x) = {}
         /\ Seals(x) \subseteq Activates(x) \cup NeedsOpen(x)
         /\ Seals(x) \cap Labelled = {}
         /\ x.do = "goto" => Targets(x) = {x.block}
         /\ x.do = "branch" => Targets(x) = x.targets
         /\ x.do = "cond" => Targets(x) = {x.true, x.false}
         /\ x.do = "loop" =>
              Targets(x) = {x.cont, x.brk} \cup ({x.label} \cap Labelled)
         /\ x.do \notin {"goto", "branch", "cond", "loop", "try"}
              => Targets(x) = {}
         /\ x.do = "close" => NeedsOpen(x) = {x.block}
         /\ x.do # "close" => NeedsOpen(x) = Targets(x)
         /\ x.do \in {"goto", "branch", "cond", "close"} => Ends(x)
         /\ x.do \notin {"goto", "branch", "cond", "close", "try"} => ~Ends(x)
  BY DEF KeysOf, Uses, Activates, Enters, Seals, Targets, NeedsOpen, JumpsTo,
         Jumps, Ends

-----------------------------------------------------------------------------
(* An item is done                                                         *)

(* The blocks that a step of the visitor creates.                          *)
Fresh == (blockCount + 1)..blockCount'

(* An item that may take the place of the first one.                       *)
MayFollow(x) ==
  /\ Activates(x) \cup NeedsOpen(x) \subseteq Created'
  /\ KeysOf(x) \subseteq Fresh \cup KeysOf(item)
  /\ x.do = "hold" => x.key \in Fresh
  /\ x.do = "keep" => item.do = "hold"
  /\ x.do = "release" => x.keys \subseteq Fresh
  /\ x.do = "close" => x.block \in Fresh /\ item.do = "statements"
  /\ x.do = "exit" => item.do = "loop"
  /\ x.do # "finalise"

(* Every use in s comes after the read that it refers to, and before what  *)
(* ends the handler.                                                       *)
UsesScoped(s) ==
  /\ \A j \in DOMAIN s : \A k \in KeysOf(s[j]) :
       k \in KeysOf(item) \/ \E h \in 1..(j - 1) : KeepsAs(s[h], k)
  /\ \A i, j \in DOMAIN s :
       i < j /\ s[i].do \in {"release", "close"} => KeysOf(s[j]) = {}

(* What becomes of the registers that are kept, and of the loops.          *)
HeldNext ==
  /\ \A k \in DOMAIN held' : held'[k] \in Reg \cup {NoReg}
  /\ \A k \in DOMAIN held' :
       \/ k \in DOMAIN held /\ held'[k] = held[k]
       \/ item.do = "keep" /\ k = item.key /\ held'[k] = ret
  /\ \A k \in DOMAIN held :
       k \in DOMAIN held' \/ (item.do = "release" /\ k \in item.keys)
  /\ item.do = "keep" => item.key \in DOMAIN held'

LoopOf(x) == [cont |-> x.cont, brk |-> x.brk, label |-> x.label]
LoopsNext(s) ==
  /\ item.do \notin {"loop", "exit"} => loops' = loops
  /\ item.do = "loop" =>
       loops' = <<LoopOf(item)>> \o loops /\ s = <<Body, ExitLoop>>
  /\ item.do = "exit" => loops' = Tail(loops) /\ s = <<>>

(* The calls that begin, the blocks activated.                             *)
CallsNext ==
  /\ \A f \in Frames' :
       \/ f.at \in {"read", "use"}
       \/ /\ f.at = "seal" /\ f.block \in Range(blocks') \cap Seals(item)
          /\ ~Activated(f.block) \/ (item.do = "close" /\ f.block = item.block)
       \/ /\ f.at = "finalise" /\ f.blocks = Labelled \cap Range(blocks)
          /\ item.do = "finalise" /\ Frames' = {f}
  /\ item.do = "hold" => calls' = <<ReadFrame(item.var, active)>>
  /\ \/ blocks' = blocks
     \/ \E b \in Activates(item) : blocks' = Append(blocks, b)
  /\ finalised' = FALSE

Unfolds(s) ==
  /\ AtItem /\ s \in Seq(Item) /\ todo' = s \o Tail(todo)
  /\ blockCount' \in blockCount..MaxBlocks
  /\ labelCount' \in labelCount..Cardinality(Labelled)
  /\ tempCount' \in 0..Len(Temps)
  /\ \A j \in DOMAIN s : MayFollow(s[j])
  /\ UsesScoped(s)
  /\ item.do = "hold" => s = <<Keep(item.key)>>
  /\ item.do = "finalise" => s = <<>>
  /\ HeldNext
  /\ LoopsNext(s)
  /\ CallsNext

-----------------------------------------------------------------------------
(* The registers that handlers keep, while an item is done                 *)

VisitOK == /\ Warned /\ HandlersKeep /\ [Next]_vars

(* Where the items are after an item is done.                              *)
LEMMA Shifted ==
  ASSUME VisitorTypes, NEW s, Unfolds(s)
  PROVE  /\ Len(s) \in Nat /\ DOMAIN s = 1..Len(s)
         /\ Len(todo) \in Nat \ {0} /\ DOMAIN todo = 1..Len(todo)
         /\ todo' \in Seq(Item)
         /\ Len(todo') = Len(s) + Len(todo) - 1
         /\ DOMAIN todo' = 1..Len(todo')
         /\ item = todo[1] /\ item \in Item /\ todo \in Seq(Item)
         /\ \A i \in 1..Len(s) : todo'[i] = s[i] /\ s[i] \in Item
         /\ \A i \in (Len(s) + 1)..Len(todo') :
              /\ i - Len(s) + 1 \in 2..Len(todo)
              /\ todo'[i] = todo[i - Len(s) + 1]
<1>1. /\ todo \in Seq(Item) /\ todo # <<>> /\ s \in Seq(Item)
      /\ todo' = s \o Tail(todo) /\ item = todo[1] /\ item \in Item
  BY FirstItem DEF Unfolds
<1>2. /\ todo' \in Seq(Item)
      /\ Len(s) \in Nat /\ DOMAIN s = 1..Len(s)
      /\ Len(todo) \in Nat \ {0} /\ DOMAIN todo = 1..Len(todo)
      /\ Len(todo') = Len(s) + Len(todo) - 1 /\ DOMAIN todo' = 1..Len(todo')
      /\ \A i \in 1..Len(s) : todo'[i] = s[i]
      /\ \A i \in (Len(s) + 1)..Len(todo') : todo'[i] = todo[i - Len(s) + 1]
  BY <1>1, Replaced
<1>3. \A i \in 1..Len(s) : s[i] \in Item
  BY <1>1, <1>2
<1>4. \A i \in (Len(s) + 1)..Len(todo') : i - Len(s) + 1 \in 2..Len(todo)
  BY <1>2
<1> QED
  BY <1>1, <1>2, <1>3, <1>4

(* The item at position i is one of the new ones, or was at another place. *)
LEMMA OldOrNew ==
  ASSUME VisitorTypes, NEW s, Unfolds(s), NEW i \in DOMAIN todo'
  PROVE  \/ i \in DOMAIN s /\ i \in 1..Len(s) /\ todo'[i] = s[i]
         \/ \E j \in DOMAIN todo :
              /\ j >= 2 /\ i = j + Len(s) - 1
              /\ todo'[i] = todo[j] /\ i > Len(s)
<1>1. CASE i <= Len(s)
  BY <1>1, Shifted
<1>2. CASE ~(i <= Len(s))
  <2>1. i \in (Len(s) + 1)..Len(todo')
    BY <1>2, Shifted
  <2> DEFINE j == i - Len(s) + 1
  <2>2. j \in 2..Len(todo) /\ todo'[i] = todo[j]
    BY <2>1, Shifted
  <2>3. /\ Len(s) \in Nat /\ i \in Nat /\ Len(todo) \in Nat
        /\ DOMAIN todo = 1..Len(todo)
    BY Shifted
  <2>4. j \in DOMAIN todo /\ j >= 2 /\ i = j + Len(s) - 1 /\ i > Len(s)
    BY <1>2, <2>2, <2>3
  <2> QED
    BY <2>2, <2>4
<1> QED
  BY <1>1, <1>2

LEMMA CreatedGrow ==
  ASSUME VisitorTypes, NEW s, Unfolds(s)
  PROVE  /\ Created \subseteq Created'
         /\ 1..blockCount \subseteq 1..blockCount'
         /\ Fresh \subseteq 1..blockCount'
         /\ Fresh \cap (1..blockCount) = {}
         /\ Fresh \cap Created = {}
<1>1. /\ blockCount \in Nat /\ blockCount' \in Nat
      /\ blockCount <= blockCount' /\ blockCount' <= MaxBlocks
      /\ labelCount \in Nat /\ labelCount' \in Nat
      /\ labelCount <= labelCount' /\ MaxBlocks \in Nat
  <2>1. MaxBlocks \in Nat
    BY FlowAssumption
  <2>2. /\ blockCount \in 0..MaxBlocks /\ blockCount' \in blockCount..MaxBlocks
        /\ labelCount \in 0..Cardinality(Labelled)
        /\ labelCount' \in labelCount..Cardinality(Labelled)
    BY DEF VisitorTypes, Unfolds
  <2> QED
    BY <2>1, <2>2
<1>2. /\ 1..blockCount \subseteq 1..blockCount'
      /\ 0..blockCount \subseteq 0..blockCount'
  BY <1>1
<1>5. NewLabels \subseteq NewLabels'
  <2>1. \A l, n \in Nat : l <= n =>
          (MaxBlocks + 1)..(MaxBlocks + l) \subseteq
            (MaxBlocks + 1)..(MaxBlocks + n)
    BY <1>1
  <2> QED
    BY <1>1, <2>1 DEF NewLabels
<1>3. Fresh \subseteq 1..blockCount' /\ Fresh \cap (1..blockCount) = {}
  BY <1>1 DEF Fresh
<1>4. Fresh \cap (0..blockCount) = {} /\ Fresh \cap NewLabels = {}
  BY <1>1 DEF Fresh, NewLabels
<1> QED
  BY <1>2, <1>3, <1>4, <1>5 DEF Created

LEMMA VisitorTypesNext ==
  ASSUME HandlersKeep, NEW s, Unfolds(s)
  PROVE  VisitorTypes'
<1>1. VisitorTypes
  BY DEF HandlersKeep
<1>2. todo' \in Seq(Item)
  BY <1>1, Shifted
<1>3. blockCount' \in 0..MaxBlocks /\ labelCount' \in 0..Cardinality(Labelled)
      /\ tempCount' \in 0..Len(Temps)
  <2>1. blockCount \in 0..MaxBlocks /\ labelCount \in 0..Cardinality(Labelled)
    BY <1>1 DEF VisitorTypes
  <2>2. /\ blockCount' \in blockCount..MaxBlocks
        /\ labelCount' \in labelCount..Cardinality(Labelled)
        /\ tempCount' \in 0..Len(Temps)
    BY DEF Unfolds
  <2> QED
    BY <2>1, <2>2
<1>4. DOMAIN held' \subseteq Nat
  <2> SUFFICES ASSUME NEW k \in DOMAIN held' PROVE k \in Nat
    OBVIOUS
  <2>1. k \in DOMAIN held \/ (item.do = "keep" /\ k = item.key)
    BY DEF Unfolds, HeldNext
  <2> QED
    BY <1>1, <2>1, Shifted, ItemFields DEF VisitorTypes
<1>5. \A k \in DOMAIN held' : held'[k] \in Reg \cup {NoReg}
  BY DEF Unfolds, HeldNext
<1>6. loops' \in Seq(LoopTargets)
  <2>1. loops \in Seq(LoopTargets)
    BY <1>1 DEF VisitorTypes
  <2>2. CASE item.do = "loop"
    <3>1. LoopOf(item) \in LoopTargets
      BY <1>1, <2>2, Shifted, ItemFields DEF LoopOf, LoopTargets
    <3>2. loops' = <<LoopOf(item)>> \o loops
      BY <2>2 DEF Unfolds, LoopsNext
    <3> QED
      BY <2>1, <3>1, <3>2
  <2>3. CASE item.do = "exit"
    <3>1. PICK e \in [DOMAIN loops -> DOMAIN todo] : Exits(e)
      BY DEF HandlersKeep, LoopsNested
    <3>2. 1 \in DOMAIN todo /\ todo[1].do = "exit"
      BY <1>1, <2>3, Shifted
    <3>3. Range(e) # {}
      BY <3>1, <3>2 DEF Exits
    <3>4. loops # <<>>
      BY <2>1, <3>3 DEF Range
    <3>5. Tail(loops) \in Seq(LoopTargets)
      BY <2>1, <3>4
    <3> QED
      BY <2>3, <3>5 DEF Unfolds, LoopsNext
  <2> QED
    BY <2>1, <2>2, <2>3 DEF Unfolds, LoopsNext
<1> QED
  BY <1>2, <1>3, <1>4, <1>5, <1>6 DEF VisitorTypes

LEMMA NewPlace ==
  ASSUME VisitorTypes, NEW s, Unfolds(s), NEW j \in DOMAIN todo, j >= 2
  PROVE  /\ j + Len(s) - 1 \in DOMAIN todo'
         /\ todo'[j + Len(s) - 1] = todo[j]
         /\ j + Len(s) - 1 > Len(s)
<1> DEFINE i == j + Len(s) - 1
<1>1. /\ Len(s) \in Nat /\ Len(todo) \in Nat /\ DOMAIN todo = 1..Len(todo)
      /\ Len(todo') = Len(s) + Len(todo) - 1 /\ DOMAIN todo' = 1..Len(todo')
  BY Shifted
<1>2. i \in (Len(s) + 1)..Len(todo') /\ i \in DOMAIN todo' /\ i > Len(s)
      /\ i - Len(s) + 1 = j
  BY <1>1
<1>3. todo'[i] = todo[i - Len(s) + 1]
  BY <1>2, Shifted
<1> QED
  BY <1>2, <1>3

(* The exits of the loops move with the items.                             *)
MovedExits(s, e) ==
  [k \in DOMAIN loops' |->
     IF item.do = "loop" THEN IF k = 1 THEN 2 ELSE e[k - 1] + 1
     ELSE IF item.do = "exit" THEN e[k + 1] - 1
     ELSE e[k] + Len(s) - 1]

LEMMA ExitsMove ==
  ASSUME VisitorTypes, NEW s, Unfolds(s),
         NEW e \in [DOMAIN loops -> DOMAIN todo], Exits(e),
         NEW n, n = MovedExits(s, e)
  PROVE  /\ n \in [DOMAIN loops' -> DOMAIN todo']
         /\ Exits(n)'
         /\ item.do = "exit" => loops # <<>> /\ e[1] = 1
<1>0. /\ Len(s) \in Nat /\ DOMAIN s = 1..Len(s) /\ Len(todo) \in Nat \ {0}
      /\ DOMAIN todo = 1..Len(todo) /\ item = todo[1]
      /\ DOMAIN todo \subseteq Nat
      /\ loops \in Seq(LoopTargets) /\ DOMAIN loops = 1..Len(loops)
      /\ Len(loops) \in Nat /\ DOMAIN loops \subseteq Nat
  BY Shifted DEF VisitorTypes
<1>1. /\ \A k, l \in DOMAIN loops : k < l => e[k] < e[l]
      /\ \A k \in DOMAIN loops :
           e[k] \in DOMAIN todo /\ e[k] \in Nat /\ todo[e[k]].do = "exit"
      /\ \A i \in DOMAIN todo :
           todo[i].do = "exit" => \E k \in DOMAIN loops : e[k] = i
  BY <1>0 DEF Exits, Range
<1>2. \A i \in DOMAIN s : s[i].do = "exit" => item.do = "loop"
  BY DEF Unfolds, MayFollow
<1>3. SUFFICES /\ \A k \in DOMAIN loops' : /\ n[k] \in DOMAIN todo'
                                           /\ todo'[n[k]].do = "exit"
               /\ \A k, l \in DOMAIN loops' : k < l => n[k] < n[l]
               /\ \A i \in DOMAIN todo' : todo'[i].do = "exit" =>
                    \E k \in DOMAIN loops' : n[k] = i
               /\ item.do = "exit" => loops # <<>> /\ e[1] = 1
  <2>1. DOMAIN n = DOMAIN loops'
    BY DEF MovedExits
  <2>2. {i \in DOMAIN todo' : todo'[i].do = "exit"} = Range(n)
    BY <1>3, <2>1 DEF Range
  <2>3. n \in [DOMAIN loops' -> DOMAIN todo']
    BY <1>3 DEF MovedExits
  <2>4. Exits(n)'
    BY <1>3, <2>2 DEF Exits
  <2> QED
    BY <1>3, <2>3, <2>4
<1>4. CASE item.do \notin {"loop", "exit"}
  <2>1. loops' = loops /\ \A k \in DOMAIN loops : n[k] = e[k] + Len(s) - 1
    BY <1>4 DEF Unfolds, LoopsNext, MovedExits
  <2>2. \A k \in DOMAIN loops : e[k] >= 2
    BY <1>0, <1>1, <1>4
  <2>3. \A k \in DOMAIN loops :
          n[k] \in DOMAIN todo' /\ todo'[n[k]].do = "exit"
    BY <1>1, <2>1, <2>2, NewPlace
  <2>4. \A k, l \in DOMAIN loops : k < l => n[k] < n[l]
    BY <1>0, <1>1, <2>1
  <2>5. ASSUME NEW i \in DOMAIN todo', todo'[i].do = "exit"
        PROVE  \E k \in DOMAIN loops : n[k] = i
    <3>1. PICK j \in DOMAIN todo :
            j >= 2 /\ i = j + Len(s) - 1 /\ todo'[i] = todo[j]
      BY <1>2, <1>4, <2>5, OldOrNew
    <3> QED
      BY <1>1, <2>1, <2>5, <3>1
  <2> QED
    BY <1>4, <2>1, <2>3, <2>4, <2>5
<1>5. CASE item.do = "loop"
  <2>1. loops' = <<LoopOf(item)>> \o loops /\ s = <<Body, ExitLoop>>
    BY <1>5 DEF Unfolds, LoopsNext
  <2>2. /\ Len(s) = 2 /\ s[1].do = "statements" /\ s[2].do = "exit"
        /\ DOMAIN loops' = 1..(Len(loops) + 1)
    BY <1>0, <2>1 DEF Body, ExitLoop
  <2>3. /\ 1 \in DOMAIN loops' /\ n[1] = 2
        /\ \A k \in DOMAIN loops' : k # 1 =>
             k - 1 \in DOMAIN loops /\ n[k] = e[k - 1] + 1
        /\ \A k \in DOMAIN loops :
             k + 1 \in DOMAIN loops' /\ n[k + 1] = e[k] + 1
    BY <1>0, <1>5, <2>2 DEF MovedExits
  <2>4. \A k \in DOMAIN loops : e[k] >= 2
    BY <1>0, <1>1, <1>5
  <2>5. 2 \in DOMAIN todo' /\ todo'[2] = s[2]
    <3>1. /\ DOMAIN todo' = 1..Len(todo')
          /\ Len(todo') = Len(s) + Len(todo) - 1
      BY Shifted
    <3>2. 2 \in 1..Len(todo') /\ 2 \in 1..Len(s)
      BY <1>0, <2>2, <3>1
    <3> QED
      BY <3>1, <3>2, Shifted
  <2>6. ASSUME NEW k \in DOMAIN loops'
        PROVE  n[k] \in DOMAIN todo' /\ todo'[n[k]].do = "exit"
    <3>1. CASE k = 1
      BY <2>2, <2>3, <2>5, <3>1
    <3>2. CASE k # 1
      <4> DEFINE j == e[k - 1]
      <4>1. j \in DOMAIN todo /\ j >= 2 /\ todo[j].do = "exit" /\ n[k] = j + 1
        BY <1>1, <2>3, <2>4, <3>2
      <4>2. j + Len(s) - 1 = n[k]
        BY <1>0, <2>2, <4>1
      <4> QED
        BY <4>1, <4>2, NewPlace
    <3> QED
      BY <3>1, <3>2
  <2>7. ASSUME NEW k \in DOMAIN loops', NEW l \in DOMAIN loops', k < l
        PROVE  n[k] < n[l]
    <3>1. l # 1 /\ k \in Nat /\ l \in Nat /\ l - 1 \in DOMAIN loops
      BY <1>0, <2>2, <2>7
    <3>2. CASE k = 1
      BY <1>0, <1>1, <2>3, <2>4, <3>1, <3>2
    <3>3. CASE k # 1
      <4>1. k - 1 < l - 1 /\ k - 1 \in DOMAIN loops
        BY <2>3, <2>7, <3>1, <3>3
      <4>2. e[k - 1] < e[l - 1] /\ e[k - 1] \in Nat /\ e[l - 1] \in Nat
        BY <1>1, <3>1, <4>1
      <4> QED
        BY <2>3, <3>1, <3>3, <4>2
    <3> QED
      BY <3>2, <3>3
  <2>8. ASSUME NEW i \in DOMAIN todo', todo'[i].do = "exit"
        PROVE  \E k \in DOMAIN loops' : n[k] = i
    <3>1. CASE i \in 1..Len(s) /\ todo'[i] = s[i]
      <4>1. i = 2
        BY <2>2, <2>8, <3>1
      <4> QED
        BY <2>3, <4>1
    <3>2. CASE \E j \in DOMAIN todo :
                 j >= 2 /\ i = j + Len(s) - 1 /\ todo'[i] = todo[j]
      <4>1. PICK j \in DOMAIN todo : i = j + Len(s) - 1 /\ todo'[i] = todo[j]
        BY <3>2
      <4>2. PICK k \in DOMAIN loops : e[k] = j
        BY <1>1, <2>8, <4>1
      <4>3. i = j + 1
        BY <1>0, <2>2, <4>1
      <4> QED
        BY <2>3, <4>2, <4>3
    <3> QED
      BY <3>1, <3>2, OldOrNew
  <2> QED
    BY <1>5, <2>6, <2>7, <2>8
<1>6. CASE item.do = "exit"
  <2>1. loops' = Tail(loops) /\ s = <<>> /\ Len(s) = 0
    BY <1>6 DEF Unfolds, LoopsNext
  <2>2. PICK z \in DOMAIN loops : e[z] = 1
    BY <1>0, <1>1, <1>6
  <2>3. z = 1
    <3>1. z # 1 => 1 \in DOMAIN loops /\ 1 < z
      BY <1>0
    <3>2. \A i \in DOMAIN todo : i >= 1
      BY <1>0
    <3> QED
      BY <1>1, <2>2, <3>1, <3>2
  <2>4. loops # <<>> /\ e[1] = 1 /\ 1 \in DOMAIN loops
    BY <1>0, <2>2, <2>3
  <2>5. DOMAIN loops' = 1..(Len(loops) - 1)
    BY <1>0, <2>1, <2>4
  <2>6. /\ \A k \in DOMAIN loops' :
             k + 1 \in DOMAIN loops /\ n[k] = e[k + 1] - 1
        /\ \A k \in DOMAIN loops : k # 1 =>
             k - 1 \in DOMAIN loops' /\ n[k - 1] = e[k] - 1
    BY <1>0, <1>6, <2>5 DEF MovedExits
  <2>7. \A k \in DOMAIN loops : k # 1 => e[k] >= 2
    <3> SUFFICES ASSUME NEW k \in DOMAIN loops, k # 1 PROVE e[k] >= 2
      OBVIOUS
    <3>1. 1 < k
      BY <1>0
    <3> QED
      BY <1>1, <2>4, <3>1
  <2>8. ASSUME NEW k \in DOMAIN loops'
        PROVE  n[k] \in DOMAIN todo' /\ todo'[n[k]].do = "exit"
    <3> DEFINE j == e[k + 1]
    <3>1. k + 1 \in DOMAIN loops /\ k + 1 # 1
      BY <1>0, <2>5, <2>6
    <3>2. j \in DOMAIN todo /\ j >= 2 /\ todo[j].do = "exit" /\ n[k] = j - 1
      BY <1>1, <2>6, <2>7, <3>1
    <3>3. j + Len(s) - 1 = n[k]
      BY <1>0, <2>1, <3>2
    <3> QED
      BY <3>2, <3>3, NewPlace
  <2>9. ASSUME NEW k \in DOMAIN loops', NEW l \in DOMAIN loops', k < l
        PROVE  n[k] < n[l]
    <3>1. k + 1 \in DOMAIN loops /\ l + 1 \in DOMAIN loops /\ k + 1 < l + 1
      BY <1>0, <2>5, <2>6, <2>9
    <3>2. e[k + 1] < e[l + 1] /\ e[k + 1] \in Nat /\ e[l + 1] \in Nat
      BY <1>1, <3>1
    <3> QED
      BY <2>6, <3>2
  <2>10. ASSUME NEW i \in DOMAIN todo', todo'[i].do = "exit"
         PROVE  \E k \in DOMAIN loops' : n[k] = i
    <3>1. PICK j \in DOMAIN todo :
            j >= 2 /\ i = j + Len(s) - 1 /\ todo'[i] = todo[j]
      BY <2>1, OldOrNew
    <3>2. PICK k \in DOMAIN loops : e[k] = j
      BY <1>1, <2>10, <3>1
    <3>3. k # 1 /\ i = e[k] - 1
      BY <1>0, <2>1, <2>4, <3>1, <3>2
    <3> QED
      BY <2>6, <3>3
  <2> QED
    BY <2>4, <2>8, <2>9, <2>10
<1> QED
  BY <1>4, <1>5, <1>6

LEMMA LoopsNestedNext ==
  ASSUME HandlersKeep, NEW s, Unfolds(s)
  PROVE  LoopsNested'
<1>1. PICK e \in [DOMAIN loops -> DOMAIN todo] : Exits(e)
  BY DEF HandlersKeep, LoopsNested
<1>2. PICK n : n = MovedExits(s, e)
  OBVIOUS
<1>3. n \in [DOMAIN loops' -> DOMAIN todo'] /\ Exits(n)'
  BY <1>1, <1>2, ExitsMove DEF HandlersKeep
<1> QED
  BY <1>3 DEF LoopsNested

LEMMA ItemsNext ==
  ASSUME VisitorTypes, NEW s, Unfolds(s), NEW x \in Range(todo')
  PROVE  x \in Item /\ (x \in Range(todo) \/ MayFollow(x))
<1>1. PICK i \in DOMAIN todo' : x = todo'[i]
  BY DEF Range
<1>2. x \in Item
  BY <1>1, Shifted
<1>3. CASE i \in DOMAIN s /\ todo'[i] = s[i]
  BY <1>1, <1>2, <1>3 DEF Unfolds
<1>4. CASE \E j \in DOMAIN todo : todo'[i] = todo[j]
  BY <1>1, <1>2, <1>4 DEF Range
<1> QED
  BY <1>3, <1>4, OldOrNew

LEMMA BlocksCreatedNext ==
  ASSUME Warned, HandlersKeep, NEW s, Unfolds(s)
  PROVE  BlocksCreated'
<1>0. /\ VisitorTypes /\ BlocksCreated /\ item \in Range(todo) /\ item \in Item
      /\ Created \subseteq Created' /\ blocks \in Seq(Block)
  BY FirstItem, CreatedGrow
  DEF HandlersKeep, Unfolds, Warned, InductiveSSA, TypeOK
<1>1. Activates(item) \cup NeedsOpen(item) \subseteq Created
  BY <1>0 DEF BlocksCreated
<1>2. Range(blocks') \subseteq Created'
  <2>1. CASE blocks' = blocks
    BY <1>0, <2>1 DEF BlocksCreated
  <2>2. CASE \E b \in Activates(item) : blocks' = Append(blocks, b)
    <3>1. PICK b \in Activates(item) : blocks' = Append(blocks, b)
      BY <2>2
    <3>2. b \in Created
      BY <1>1
    <3>3. Range(Append(blocks, b)) = Range(blocks) \cup {b}
      <4>1. blocks \in Seq(Block \cup {b}) /\ b \in Block \cup {b}
        BY <1>0
      <4> QED
        BY <4>1, AppendRange
    <3> QED
      BY <1>0, <3>1, <3>2, <3>3 DEF BlocksCreated
  <2> QED
    BY <2>1, <2>2 DEF Unfolds, CallsNext
<1>3. ASSUME NEW x \in Range(todo')
      PROVE  Activates(x) \cup NeedsOpen(x) \subseteq Created'
  BY <1>0, ItemsNext DEF BlocksCreated, MayFollow
<1>4. ASSUME NEW l \in Range(loops')
      PROVE  {l.cont, l.brk} \cup ({l.label} \cap Labelled) \subseteq Created'
  <2>1. CASE l \in Range(loops)
    BY <1>0, <2>1 DEF BlocksCreated
  <2>2. CASE item.do = "loop" /\ l = LoopOf(item)
    <3>1. l.cont = item.cont /\ l.brk = item.brk /\ l.label = item.label
      BY <2>2 DEF LoopOf
    <3>2. {item.cont, item.brk} \cup ({item.label} \cap Labelled)
            \subseteq Created
      BY <1>0, <1>1, <2>2, ItemBlocks
    <3> QED
      BY <1>0, <3>1, <3>2
  <2>3. l \in Range(loops) \/ (item.do = "loop" /\ l = LoopOf(item))
    <3>1. loops \in Seq(LoopTargets)
      BY <1>0 DEF VisitorTypes
    <3>2. CASE item.do = "loop"
      <4>1. LoopOf(item) \in LoopTargets
        BY <1>0, <3>2, ItemFields DEF LoopOf, LoopTargets
      <4> DEFINE t == <<LoopOf(item)>> \o loops
      <4>2. /\ t \in Seq(LoopTargets) /\ Head(t) = LoopOf(item) /\ t # <<>>
            /\ Tail(t) = loops
        BY <3>1, <4>1
      <4>3. Range(t) = {LoopOf(item)} \cup Range(loops)
        <5> HIDE DEF t
        <5> QED
          BY <4>2, TailRange
      <4> QED
        BY <3>2, <4>3 DEF Unfolds, LoopsNext
    <3>3. CASE item.do = "exit"
      <4>1. PICK e \in [DOMAIN loops -> DOMAIN todo] : Exits(e)
        BY DEF HandlersKeep, LoopsNested
      <4>2. PICK n : n = MovedExits(s, e)
        OBVIOUS
      <4>3. loops # <<>>
        BY <1>0, <3>3, <4>1, <4>2, ExitsMove
      <4>4. Range(loops) = {Head(loops)} \cup Range(Tail(loops))
        BY <3>1, <4>3, TailRange
      <4> QED
        BY <3>3, <4>4 DEF Unfolds, LoopsNext
    <3> QED
      BY <3>2, <3>3 DEF Unfolds, LoopsNext
  <2> QED
    BY <2>1, <2>2, <2>3
<1> QED
  BY <1>2, <1>3, <1>4 DEF BlocksCreated

LEMMA KeysCreatedNext ==
  ASSUME HandlersKeep, NEW s, Unfolds(s)
  PROVE  KeysCreated'
<1>0. /\ VisitorTypes /\ KeysCreated /\ item \in Range(todo) /\ item \in Item
      /\ 1..blockCount \subseteq 1..blockCount'
      /\ Fresh \subseteq 1..blockCount'
  BY FirstItem, CreatedGrow DEF HandlersKeep, Unfolds
<1>1. /\ KeysOf(item) \subseteq 1..blockCount
      /\ item.do \in {"hold", "keep"} => item.key \in 1..blockCount
  BY <1>0 DEF KeysCreated
<1>2. DOMAIN held' \subseteq 1..blockCount'
  <2> SUFFICES ASSUME NEW k \in DOMAIN held' PROVE k \in 1..blockCount'
    OBVIOUS
  <2>1. k \in DOMAIN held \/ (item.do = "keep" /\ k = item.key)
    BY DEF Unfolds, HeldNext
  <2> QED
    BY <1>0, <1>1, <2>1 DEF KeysCreated
<1>3. ASSUME NEW x \in Range(todo')
      PROVE  /\ KeysOf(x) \subseteq 1..blockCount'
             /\ x.do \in {"hold", "keep"} => x.key \in 1..blockCount'
             /\ x.do = "release" => x.keys \subseteq 1..blockCount'
  <2>1. CASE x \in Range(todo)
    BY <1>0, <2>1 DEF KeysCreated
  <2>2. CASE MayFollow(x) /\ x.do # "keep"
    BY <1>0, <1>1, <2>2 DEF MayFollow
  <2>3. CASE MayFollow(x) /\ x.do = "keep"
    <3>1. item.do = "hold" /\ s = <<Keep(item.key)>>
      BY <2>3 DEF MayFollow, Unfolds
    <3>2. /\ Keep(item.key) = [do |-> "keep", key |-> item.key]
          /\ item.key \in 1..blockCount'
      BY <1>0, <1>1, <3>1 DEF Keep
    <3>3. x \in Range(todo) \/ x = Keep(item.key)
      <4>1. Range(todo') = Range(s) \cup Range(Tail(todo))
        <5>1. /\ todo \in Seq(Item) /\ todo # <<>> /\ s \in Seq(Item)
              /\ todo' = s \o Tail(todo)
          BY <1>0 DEF Unfolds, VisitorTypes, AtItem
        <5> QED
          BY <5>1, ReplacedRange
      <4>2. Range(s) = {Keep(item.key)}
        BY <3>1 DEF Range
      <4>3. Range(Tail(todo)) \subseteq Range(todo)
        BY <1>0, FirstItem DEF Unfolds
      <4> QED
        BY <4>1, <4>2, <4>3
    <3>4. x = Keep(item.key) => KeysOf(x) = {} /\ x.key = item.key
      BY <2>3, <3>2 DEF KeysOf, Uses
    <3> QED
      BY <1>0, <2>1, <2>3, <3>2, <3>3, <3>4
  <2> QED
    BY <1>0, <2>1, <2>2, <2>3, ItemsNext
<1> QED
  BY <1>2, <1>3 DEF KeysCreated

LEMMA KeysScopedNext ==
  ASSUME HandlersKeep, NEW s, Unfolds(s)
  PROVE  KeysScoped'
<1>0. /\ VisitorTypes /\ KeysCreated /\ KeysScoped /\ item \in Item
      /\ item = todo[1] /\ 1 \in DOMAIN todo
      /\ Fresh \cap (1..blockCount) = {}
      /\ Len(s) \in Nat /\ DOMAIN s = 1..Len(s)
      /\ DOMAIN todo' \subseteq Nat /\ DOMAIN todo \subseteq Nat
      /\ DOMAIN todo' = 1..Len(todo')
  <2>1. /\ VisitorTypes /\ KeysCreated /\ KeysScoped /\ item \in Item
        /\ item = todo[1] /\ 1 \in DOMAIN todo
    BY FirstItem DEF HandlersKeep, Unfolds
  <2>2. Fresh \cap (1..blockCount) = {}
    BY <2>1, CreatedGrow
  <2>3. /\ Len(s) \in Nat /\ DOMAIN s = 1..Len(s)
        /\ DOMAIN todo' = 1..Len(todo') /\ DOMAIN todo = 1..Len(todo)
    BY <2>1, Shifted
  <2> QED
    BY <2>1, <2>2, <2>3
<1>1. ASSUME NEW j \in DOMAIN todo
      PROVE  /\ KeysOf(todo[j]) \subseteq 1..blockCount
             /\ todo[j].do = "release" => todo[j].keys \subseteq 1..blockCount
             /\ \A k : KeepsAs(todo[j], k) => k \in 1..blockCount
  BY <1>0 DEF KeysCreated, Range, KeepsAs
<1>2. ASSUME NEW j \in DOMAIN s
      PROVE  MayFollow(s[j])
  BY DEF Unfolds
<1>3. ASSUME NEW j \in DOMAIN s, NEW k, KeepsAs(s[j], k)
      PROVE  k \in Fresh \/ KeepsAs(item, k)
  <2>1. CASE s[j].do = "hold"
    BY <1>2, <1>3, <2>1 DEF KeepsAs, MayFollow
  <2>2. CASE s[j].do = "keep"
    <3>1. item.do = "hold" /\ s = <<Keep(item.key)>>
      BY <1>2, <2>2 DEF MayFollow, Unfolds
    <3>2. s[j] = Keep(item.key)
      BY <3>1
    <3> QED
      BY <1>3, <3>1, <3>2 DEF KeepsAs, Keep
  <2> QED
    BY <1>3, <2>1, <2>2 DEF KeepsAs
<1>4. ASSUME NEW k, KeepsAs(item, k)
      PROVE  k \in DOMAIN held' \/ (1 \in DOMAIN s /\ KeepsAs(s[1], k))
  <2>1. CASE item.do = "hold"
    <3>1. s = <<Keep(item.key)>>
      BY <2>1 DEF Unfolds
    <3> QED
      BY <1>0, <1>4, <3>1 DEF KeepsAs, Keep
  <2>2. CASE item.do = "keep"
    BY <1>4, <2>2 DEF KeepsAs, Unfolds, HeldNext
  <2> QED
    BY <1>4, <2>1, <2>2 DEF KeepsAs
<1>5. ASSUME NEW j \in DOMAIN todo', NEW k \in KeysOf(todo'[j])
      PROVE  k \in DOMAIN held' \/ \E h \in 1..(j - 1) : KeepsAs(todo'[h], k)
  <2>1. CASE j \in DOMAIN s /\ todo'[j] = s[j]
    <3>1. CASE k \in KeysOf(item)
      <4>1. k \in DOMAIN held
        <5>1. \A h \in 1..(1 - 1) : FALSE
          OBVIOUS
        <5> QED
          BY <1>0, <3>1, <5>1 DEF KeysScoped
      <4>2. item.do # "release"
        BY <1>0, <3>1, ItemBlocks
      <4> QED
        BY <4>1, <4>2 DEF Unfolds, HeldNext
    <3>2. CASE \E h \in 1..(j - 1) : KeepsAs(s[h], k)
      <4>1. PICK h \in 1..(j - 1) : KeepsAs(s[h], k)
        BY <3>2
      <4>2. h \in 1..Len(s)
        BY <1>0, <2>1, <4>1
      <4> QED
        BY <4>1, <4>2, Shifted, <1>0
    <3> QED
      BY <1>5, <2>1, <3>1, <3>2 DEF Unfolds, UsesScoped
  <2>2. CASE \E i \in DOMAIN todo : /\ i >= 2 /\ j = i + Len(s) - 1
                                    /\ todo'[j] = todo[i]
    <3>1. PICK i \in DOMAIN todo :
            i >= 2 /\ j = i + Len(s) - 1 /\ todo'[j] = todo[i]
      BY <2>2
    <3>2. CASE k \in DOMAIN held
      <4>1. ~(item.do = "release" /\ k \in item.keys)
        <5>1. 1 < i
          BY <1>0, <3>1
        <5> QED
          BY <1>0, <1>5, <3>1, <5>1 DEF KeysScoped
      <4> QED
        BY <3>2, <4>1 DEF Unfolds, HeldNext
    <3>3. CASE \E h \in 1..(i - 1) : KeepsAs(todo[h], k)
      <4>1. PICK h \in 1..(i - 1) : KeepsAs(todo[h], k)
        BY <3>3
      <4>2. CASE h = 1
        <5>1. 1 \in DOMAIN s => 1 \in 1..(j - 1) /\ todo'[1] = s[1]
          <6>1. 1 \in DOMAIN s => 1 \in 1..(j - 1)
            BY <1>0, <3>1
          <6> QED
            BY <1>0, <6>1, Shifted
        <5> QED
          BY <1>0, <1>4, <4>1, <4>2, <5>1
      <4>3. CASE h # 1
        <5>1. h \in DOMAIN todo /\ h >= 2
          <6>1. DOMAIN todo = 1..Len(todo) /\ Len(todo) \in Nat
            BY Shifted
          <6> QED
            BY <3>1, <4>1, <4>3, <6>1
        <5>2. todo'[h + Len(s) - 1] = todo[h]
          BY <1>0, <5>1, NewPlace
        <5>3. h + Len(s) - 1 \in 1..(j - 1)
          BY <1>0, <3>1, <4>1, <5>1
        <5> QED
          BY <4>1, <5>2, <5>3
      <4> QED
        BY <4>2, <4>3
    <3> QED
      BY <1>0, <1>5, <3>1, <3>2, <3>3 DEF KeysScoped
  <2> QED
    BY <1>0, <2>1, <2>2, OldOrNew
<1>6. ASSUME NEW i \in DOMAIN todo', NEW j \in DOMAIN todo', i < j,
             todo'[i].do = "release"
      PROVE  KeysOf(todo'[j]) \cap todo'[i].keys = {}
  <2>1. CASE i \in DOMAIN s /\ todo'[i] = s[i]
    <3>1. todo'[i].keys \subseteq Fresh
      BY <1>2, <1>6, <2>1 DEF MayFollow
    <3>2. CASE j \in DOMAIN s /\ todo'[j] = s[j]
      BY <1>6, <2>1, <3>2 DEF Unfolds, UsesScoped
    <3>3. CASE \E l \in DOMAIN todo : todo'[j] = todo[l]
      BY <1>0, <1>1, <3>1, <3>3
    <3> QED
      BY <1>0, <3>2, <3>3, OldOrNew
  <2>2. CASE \E g \in DOMAIN todo : /\ g >= 2 /\ i = g + Len(s) - 1
                                    /\ todo'[i] = todo[g] /\ i > Len(s)
    <3>1. PICK g \in DOMAIN todo : /\ g >= 2 /\ i = g + Len(s) - 1
                                   /\ todo'[i] = todo[g] /\ i > Len(s)
      BY <2>2
    <3>2. j \notin DOMAIN s
      BY <1>0, <1>6, <3>1
    <3>3. PICK l \in DOMAIN todo : j = l + Len(s) - 1 /\ todo'[j] = todo[l]
      BY <1>0, <3>2, OldOrNew
    <3>4. g < l
      BY <1>0, <1>6, <3>1, <3>3
    <3> QED
      BY <1>0, <1>6, <3>1, <3>3, <3>4 DEF KeysScoped
  <2> QED
    BY <1>0, <2>1, <2>2, OldOrNew
<1>7. ASSUME NEW h \in DOMAIN todo', NEW i \in DOMAIN todo',
             NEW j \in DOMAIN todo', h < i, i < j, todo'[i].do = "close",
             NEW k \in KeysOf(todo'[j]), KeepsAs(todo'[h], k)
      PROVE  FALSE
  <2>1. j \notin DOMAIN s
    <3> SUFFICES ASSUME j \in DOMAIN s PROVE FALSE
      OBVIOUS
    <3>1. i \in DOMAIN s /\ i \in 1..Len(s) /\ j \in 1..Len(s)
      BY <1>0, <1>7
    <3>2. s[i].do = "close" /\ KeysOf(s[j]) # {}
      BY <1>0, <1>7, <3>1, Shifted
    <3> QED
      BY <1>7, <3>1, <3>2 DEF Unfolds, UsesScoped
  <2>2. PICK l \in DOMAIN todo : /\ l >= 2 /\ j = l + Len(s) - 1
                                 /\ todo'[j] = todo[l]
    BY <1>0, <2>1, OldOrNew
  <2>3. k \in 1..blockCount
    BY <1>1, <1>7, <2>2
  <2>4. PICK g \in DOMAIN todo :
          /\ KeepsAs(todo[g], k)
          /\ g = 1 \/ h = g + Len(s) - 1
    <3>1. CASE h \in DOMAIN s /\ todo'[h] = s[h]
      BY <1>0, <1>3, <1>7, <2>3, <3>1
    <3> QED
      BY <1>0, <1>7, <3>1, OldOrNew
  <2>5. CASE i \in DOMAIN s /\ todo'[i] = s[i]
    <3>1. item.do = "statements" /\ ~KeepsAs(item, k)
      BY <1>2, <1>7, <2>5 DEF MayFollow, KeepsAs
    <3>2. h \in DOMAIN s /\ h \in 1..Len(s) 
      BY <1>0, <1>7, <2>5
    <3>3. todo'[h] = s[h]
      BY <1>0, <3>2, Shifted
    <3> QED
      BY <1>0, <1>3, <1>7, <2>3, <3>1, <3>2, <3>3
  <2>6. CASE \E m \in DOMAIN todo : /\ m >= 2 /\ i = m + Len(s) - 1
                                    /\ todo'[i] = todo[m]
    <3>1. PICK m \in DOMAIN todo : /\ m >= 2 /\ i = m + Len(s) - 1
                                   /\ todo'[i] = todo[m]
      BY <2>6
    <3>2. g < m /\ m < l
      BY <1>0, <1>7, <2>2, <2>4, <3>1
    <3> QED
      BY <1>0, <1>7, <2>2, <2>4, <3>1, <3>2 DEF KeysScoped
  <2> QED
    BY <1>0, <2>5, <2>6, OldOrNew
<1> QED
  <2>1. (\A j \in DOMAIN todo : \A k \in KeysOf(todo[j]) :
           k \in DOMAIN held \/ \E h \in 1..(j - 1) : KeepsAs(todo[h], k))'
    BY <1>5
  <2>2. (\A i, j \in DOMAIN todo :
           i < j /\ todo[i].do = "release"
             => KeysOf(todo[j]) \cap todo[i].keys = {})'
    BY <1>6
  <2>3. (\A h, i, j \in DOMAIN todo :
           h < i /\ i < j /\ todo[i].do = "close"
             => \A k \in KeysOf(todo[j]) : ~KeepsAs(todo[h], k))'
    BY <1>7
  <2> QED
    BY <2>1, <2>2, <2>3 DEF KeysScoped

(* What does not change while no call is in progress.                      *)
LEMMA IdleKeeps ==
  ASSUME Warned, Idle, [Next]_vars
  PROVE  /\ Frames = {} /\ incomplete' = incomplete /\ phiArgs' = phiArgs
         /\ sealed' = sealed
         /\ DefinedRegs \subseteq DefinedRegs'
         /\ InductiveSSA /\ InductiveSSA' /\ SameVariable /\ Issued
         /\ WaitingOK /\ Shape /\ ~Step
         /\ \A v \in Var : versions[v] \in Nat /\ versions'[v] \in Nat
                           /\ versions[v] <= versions'[v]
<1>1. /\ InductiveSSA /\ Shape /\ SameVariable /\ Issued /\ WaitingOK
      /\ calls = <<>> /\ InductiveSSA'
  BY NextSSA DEF Warned, Construction, Webs, Operands, Idle
<1>2. ~Step
  BY <1>1, RunningStep
<1>3. /\ ~TryTrivial /\ ~ReadUnsealed /\ ~StartSeal /\ ~AppendOperand
      /\ ~SealComplete
  BY <1>2 DEF Step
<1>4. incomplete' = incomplete /\ phiArgs' = phiArgs /\ sealed' = sealed
  BY <1>3, Changes
<1>5. DefinedRegs \subseteq DefinedRegs'
  BY <1>1, <1>3, DefinedGrow
<1>6. Frames = {}
  BY <1>1, FramesAreTyped
<1> QED
  BY <1>1, <1>2, <1>4, <1>5, <1>6, VersionsUp

(* A block that is not activated has no phis that wait.                    *)
LEMMA NothingWaits ==
  ASSUME WaitingOK, NEW b \in Block, ~Activated(b)
  PROVE  incomplete[b] = <<>> /\ Range(incomplete[b]) = {}
<1>1. incomplete[b] = <<>>
  BY DEF WaitingOK, Activated
<1> QED
  BY <1>1 DEF Range

LEMMA FreshNotActivated ==
  ASSUME HandlersKeep, NEW s, Unfolds(s), NEW b \in Fresh
  PROVE  ~Activated(b)
  BY CreatedGrow DEF HandlersKeep, BlocksCreated, Activated

(* A register that is kept stays protected while an item is done.          *)
LEMMA VisitProtects ==
  ASSUME VisitOK, NEW s, Unfolds(s), NEW v \in Var, NEW n \in Nat,
         Protected(v, n), NEW j \in DOMAIN todo, ClosesYoung(v, n, j),
         j = 1 => item.do # "close", item.do # "finalise"
  PROVE  Protected(v, n)'
<1>0. /\ Warned /\ HandlersKeep /\ [Next]_vars /\ Idle /\ AtItem
      /\ VisitorTypes /\ item = todo[1] /\ DOMAIN todo = 1..Len(todo)
      /\ Len(todo) \in Nat
  BY Shifted DEF VisitOK, Unfolds, AtItem, HandlersKeep
<1>1. n <= versions'[v]
  <2>1. n <= versions[v]
    BY DEF Protected
  <2>2. /\ versions[v] \in Nat /\ versions'[v] \in Nat
        /\ versions[v] <= versions'[v]
    BY <1>0, IdleKeeps
  <2> QED
    BY <2>1, <2>2
<1>2. phiArgs' = phiArgs /\ incomplete' = incomplete /\ WaitingOK
  BY <1>0, IdleKeeps
<1>3. \A a \in phiArgs' : VarOf(a.phi) = v /\ VersionOf(a.phi) < n
                            => VersionOf(a.value) < n
  BY <1>2 DEF Protected
<1>4. ASSUME NEW f \in Frames'
      PROVE  /\ f.at \notin Marks /\ f.at # "sealing"
             /\ \A x \in Reg : ~IsTried(f, x)
             /\ f.at = "seal" =>
                  \A x \in Range(incomplete'[f.block]) :
                    VarOf(x) = v => n <= VersionOf(x)
  <2>1. \/ f.at \in {"read", "use"}
        \/ /\ f.at = "seal" /\ f.block \in Block
           /\ \/ item.do = "close" /\ f.block = item.block
              \/ ~Activated(f.block)
    <3>1. Range(blocks') \subseteq Block
      BY <1>0, IdleKeeps, RangeType DEF InductiveSSA, TypeOK
    <3> QED
      BY <3>1 DEF Unfolds, CallsNext
  <2>2. f.at \in {"read", "use", "seal"}
    BY <2>1
  <2>3. f.at \notin Marks /\ f.at # "sealing" /\ \A x \in Reg : ~IsTried(f, x)
    BY <2>2 DEF Marks, Gathers, IsTried
  <2>4. CASE f.at = "seal" /\ ~Activated(f.block) /\ f.block \in Block
    BY <1>2, <2>3, <2>4, NothingWaits
  <2>5. CASE f.at = "seal" /\ item.do = "close" /\ f.block = item.block
    <3>1. 1 \in 1..(j - 1)
      BY <1>0, <2>5
    <3>2. \A x \in Range(incomplete[item.block]) :
            VarOf(x) = v => n <= VersionOf(x)
      BY <1>0, <2>5, <3>1 DEF ClosesYoung
    <3> QED
      BY <1>2, <2>3, <2>5, <3>2
  <2> QED
    BY <2>1, <2>3, <2>4, <2>5
<1>5. (\A f \in Frames :
         /\ f.at \in Marks /\ VarOf(f.phi) = v => n <= VersionOf(f.phi)
         /\ \A x \in Reg : IsTried(f, x) /\ VarOf(x) = v => n <= VersionOf(x)
         /\ f.at = "sealing" =>
              \A x \in Range(f.todo) : VarOf(x) = v => n <= VersionOf(x)
         /\ f.at = "seal" =>
              \A x \in Range(incomplete[f.block]) :
                VarOf(x) = v => n <= VersionOf(x))'
  BY <1>4
<1> QED
  BY <1>1, <1>3, <1>5 DEF Protected

LEMMA KeptIsDefinedVisit ==
  ASSUME VisitOK, NEW s, Unfolds(s)
  PROVE  KeptIsDefined'
<1>0. /\ Warned /\ HandlersKeep /\ [Next]_vars /\ Idle /\ AtItem
      /\ VisitorTypes /\ KeptIsDefined /\ KeysScoped /\ KeysCreated
      /\ item = todo[1] /\ DOMAIN todo = 1..Len(todo) /\ item \in Item
      /\ Len(todo) \in Nat \ {0} /\ 1 \in DOMAIN todo
      /\ Len(s) \in Nat /\ DOMAIN s = 1..Len(s)
      /\ DOMAIN todo' = 1..Len(todo') /\ DOMAIN todo' \subseteq Nat
  <2>1. /\ Warned /\ HandlersKeep /\ [Next]_vars /\ Idle /\ AtItem
        /\ VisitorTypes /\ KeptIsDefined /\ KeysScoped /\ KeysCreated
    BY DEF VisitOK, Unfolds, AtItem, HandlersKeep
  <2>2. /\ item = todo[1] /\ DOMAIN todo = 1..Len(todo) /\ item \in Item
        /\ Len(todo) \in Nat \ {0}
        /\ Len(s) \in Nat /\ DOMAIN s = 1..Len(s)
        /\ DOMAIN todo' = 1..Len(todo')
    BY <2>1, Shifted
  <2> QED
    BY <2>1, <2>2
<1>1. /\ incomplete' = incomplete /\ phiArgs' = phiArgs /\ Frames = {}
      /\ DefinedRegs \subseteq DefinedRegs' /\ WaitingOK /\ SameVariable
      /\ Issued /\ InductiveSSA
      /\ DefinedRegs \subseteq Reg
      /\ \A v \in Var : versions[v] \in Nat /\ versions'[v] \in Nat
                        /\ versions[v] <= versions'[v]
  BY <1>0, IdleKeeps, UsedRegs DEF InductiveSSA
<1> SUFFICES ASSUME NEW k \in DOMAIN held', NEW r, r = held'[k],
                    NEW j \in DOMAIN todo', k \in KeysOf(todo'[j])
             PROVE  IsKept(r, j)'
  <2>1. \A k \in DOMAIN held' : held'[k] \in Reg \cup {NoReg}
    BY DEF Unfolds, HeldNext
  <2> QED
    BY <2>1 DEF KeptIsDefined
<1> DEFINE v == VarOf(r)
(* The closes before item j, and the blocks they seal.                     *)
<1>2. ASSUME NEW i \in 1..(j - 1), todo'[i].do = "close"
      PROVE  \/ /\ todo'[i].block \in Block /\ ~Activated(todo'[i].block)
                /\ i \in DOMAIN s /\ item.do = "statements"
             \/ \E h \in DOMAIN todo : /\ h >= 2 /\ i = h + Len(s) - 1
                                       /\ todo'[i] = todo[h]
  <2>1. i \in DOMAIN todo'
    BY <1>0
  <2>2. CASE i \in DOMAIN s /\ todo'[i] = s[i]
    <3>1. s[i].block \in Fresh /\ item.do = "statements"
      BY <1>2, <2>2 DEF Unfolds, MayFollow
    <3>2. s[i] \in Item
      BY <1>0, <2>2, Shifted
    <3>3. s[i].block \in Block
      BY <1>2, <2>2, <3>2, ItemFields
    <3> QED
      BY <1>0, <2>2, <3>1, <3>3, FreshNotActivated
  <2> QED
    BY <1>0, <2>1, <2>2, OldOrNew
<1>3. CASE item.do = "keep" /\ k = item.key /\ held'[k] = ret
  <2>1. todo # <<>> /\ Head(todo).do = "keep" /\ calls = <<>> /\ fault = "none"
    BY <1>0, <1>3 DEF AtItem, Idle, item
  <2>2. ret \in DefinedRegs
    BY <1>0, <2>1 DEF HandlersKeep, KeepFollowsRead
  <2>3. r \in Reg /\ r \in DefinedRegs' /\ v \in Var /\ ret # NoReg
        /\ VersionOf(r) \in Nat
    BY <1>1, <1>3, <2>2, ConstantsAssumption DEF VarOf, VersionOf, Reg
  <2>0. PICK n : n = versions[v]
    OBVIOUS
  <2>4. n \in 0..versions'[v] /\ VersionOf(r) < n /\ n \in Nat
    BY <1>1, <1>3, <2>0, <2>3 DEF Issued, IsIssued
  <2>5. Protected(v, n)
    <3>1. \A a \in phiArgs : VarOf(a.phi) = v => VersionOf(a.value) < n
      BY <1>1, <2>0 DEF Issued, IsIssued, SameVariable
    <3> QED
      BY <1>1, <2>0, <2>3, <3>1 DEF Protected
  <2>6. \E i \in DOMAIN todo : i >= 2 /\ j = i + Len(s) - 1
                               /\ todo'[j] = todo[i]
    <3>1. j \notin DOMAIN s
      <4> SUFFICES ASSUME j \in DOMAIN s PROVE FALSE
        OBVIOUS
      <4>1. todo'[j] = s[j] /\ MayFollow(s[j]) /\ KeysOf(item) = {}
        BY <1>0, <1>3, Shifted, ItemBlocks DEF Unfolds
      <4>2. k \in Fresh
        BY <4>1 DEF MayFollow
      <4>3. k \in 1..blockCount
        BY <1>0, <1>3, FirstItem DEF KeysCreated
      <4> QED
        BY <1>0, <4>2, <4>3, CreatedGrow
    <3> QED
      BY <1>0, <3>1, OldOrNew
  <2>7. PICK g \in DOMAIN todo : g >= 2 /\ j = g + Len(s) - 1
                                 /\ todo'[j] = todo[g]
    BY <2>6
  <2>8. \A h \in 1..(g - 1) : todo[h].do # "close"
    <3> SUFFICES ASSUME NEW h \in 1..(g - 1), todo[h].do = "close"
                 PROVE  FALSE
      OBVIOUS
    <3>1. h # 1 /\ h \in DOMAIN todo /\ 1 < h /\ h < g
      BY <1>0, <1>3, <2>7
    <3>2. KeepsAs(todo[1], k)
      BY <1>0, <1>3 DEF KeepsAs
    <3> QED
      BY <1>0, <2>7, <3>1, <3>2 DEF KeysScoped
  <2>9. ClosesYoung(v, n, g)
    BY <2>8 DEF ClosesYoung
  <2>10. Protected(v, n)'
    BY <1>0, <1>3, <2>3, <2>4, <2>5, <2>7, <2>9, VisitProtects
  <2>11. ClosesYoung(v, n, j)'
    <3> SUFFICES ASSUME NEW i \in 1..(j - 1), todo'[i].do = "close"
                 PROVE  FALSE
      BY DEF ClosesYoung
    <3>1. PICK h \in DOMAIN todo : /\ h >= 2 /\ i = h + Len(s) - 1
                                   /\ todo'[i] = todo[h]
      BY <1>2, <1>3
    <3>2. h \in 1..(g - 1)
      BY <1>0, <2>7, <3>1
    <3> QED
      BY <2>8, <3>1, <3>2
  <2> QED
    BY <2>3, <2>4, <2>10, <2>11 DEF IsKept
<1>4. CASE k \in DOMAIN held /\ held'[k] = held[k]
  <2>1. PICK g \in DOMAIN todo :
          /\ k \in KeysOf(todo[g])
          /\ (g = 1 /\ j \in DOMAIN s) \/ (g >= 2 /\ j = g + Len(s) - 1)
    <3>1. CASE j \in DOMAIN s /\ todo'[j] = s[j]
      <4>1. MayFollow(s[j])
        BY <3>1 DEF Unfolds
      <4>2. k \in 1..blockCount
        BY <1>0, <1>4 DEF KeysCreated
      <4>3. k \in KeysOf(item)
        BY <1>0, <3>1, <4>1, <4>2, CreatedGrow DEF MayFollow
      <4> QED
        BY <1>0, <3>1, <4>3
    <3> QED
      BY <1>0, <3>1, OldOrNew
  <2>2. r \in DefinedRegs /\ IsKept(r, g)
    BY <1>0, <1>4, <2>1 DEF KeptIsDefined, IsKept
  <2>3. PICK n \in 0..versions[v] :
          VersionOf(r) < n /\ Protected(v, n) /\ ClosesYoung(v, n, g)
    BY <2>2 DEF IsKept
  <2>4. r \in Reg /\ r \in DefinedRegs' /\ v \in Var /\ n \in Nat
        /\ n \in 0..versions'[v]
    <3>1. r \in Reg /\ r \in DefinedRegs' /\ v \in Var
      BY <1>1, <2>2 DEF VarOf, Reg
    <3> QED
      BY <1>1, <2>3, <3>1
  <2>5. g = 1 => item.do \in {"useHeld", "try"}
    BY <1>0, <2>1, ItemBlocks
  <2>6. item.do # "finalise"
    <3>1. g = 1 \/ item.do # "finalise"
      <4> SUFFICES ASSUME item.do = "finalise" PROVE g = 1
        OBVIOUS
      <4>1. 1 = Len(todo)
        <5>1. todo[1].do = "finalise" /\ FinaliseLast
          BY <1>0 DEF HandlersKeep
        <5> QED
          BY <1>0, <5>1 DEF FinaliseLast
      <4>2. g \in 1..1
        BY <1>0, <2>1, <4>1
      <4> QED
        BY <4>2
    <3> QED
      BY <2>5, <3>1
  <2>7. Protected(v, n)'
    <3>1. g = 1 => item.do # "close"
      BY <2>5
    <3> QED
      BY <2>3, <2>4, <2>6, <3>1, VisitProtects
  <2>8. ClosesYoung(v, n, j)'
    <3> SUFFICES ASSUME NEW i \in 1..(j - 1), todo'[i].do = "close",
                        NEW x \in Range(incomplete[todo'[i].block]),
                        VarOf(x) = v
                 PROVE  n <= VersionOf(x)
      BY <1>1 DEF ClosesYoung
    <3>1. CASE todo'[i].block \in Block /\ ~Activated(todo'[i].block)
      BY <1>1, <3>1, NothingWaits
    <3>2. CASE \E h \in DOMAIN todo : /\ h >= 2 /\ i = h + Len(s) - 1
                                      /\ todo'[i] = todo[h]
      <4>1. PICK h \in DOMAIN todo : /\ h >= 2 /\ i = h + Len(s) - 1
                                     /\ todo'[i] = todo[h]
        BY <3>2
      <4>2. j \notin DOMAIN s
        BY <1>0, <4>1
      <4>3. h \in 1..(g - 1)
        BY <1>0, <2>1, <4>1, <4>2
      <4> QED
        BY <2>3, <4>1, <4>3 DEF ClosesYoung
    <3> QED
      BY <1>2, <3>1, <3>2
  <2> QED
    BY <2>3, <2>4, <2>7, <2>8 DEF IsKept
<1> QED
  BY <1>3, <1>4 DEF Unfolds, HeldNext

LEMMA KeepFollowsReadVisit ==
  ASSUME VisitOK, NEW s, Unfolds(s)
  PROVE  KeepFollowsRead'
<1>0. /\ VisitorTypes /\ KeepFollowsRead /\ AtItem
      /\ Len(s) \in Nat /\ DOMAIN s = 1..Len(s)
      /\ Len(todo) \in Nat /\ DOMAIN todo = 1..Len(todo)
  <2>1. VisitorTypes /\ KeepFollowsRead /\ AtItem
    BY DEF VisitOK, HandlersKeep, Unfolds
  <2> QED
    BY <2>1, Shifted
<1>1. ASSUME NEW j \in DOMAIN todo', todo'[j].do = "keep"
      PROVE  j = 1 /\ item.do = "hold"
  <2>1. CASE j \in DOMAIN s /\ todo'[j] = s[j]
    <3>1. item.do = "hold" /\ s = <<Keep(item.key)>>
      BY <1>1, <2>1 DEF Unfolds, MayFollow
    <3> QED
      BY <2>1, <3>1
  <2>2. CASE \E i \in DOMAIN todo : i >= 2 /\ todo'[j] = todo[i]
    BY <1>0, <1>1, <2>2 DEF KeepFollowsRead
  <2> QED
    BY <1>0, <2>1, <2>2, OldOrNew
<1>2. ASSUME todo' # <<>>, Head(todo').do = "keep"
      PROVE  calls' # <<>> /\ calls'[Len(calls')].at = "read"
  <2>1. 1 \in DOMAIN todo' /\ todo'[1].do = "keep"
    <3>1. todo' \in Seq(Item)
      BY <1>0, Shifted
    <3> QED
      BY <1>2, <3>1
  <2>2. calls' = <<ReadFrame(item.var, active)>>
    BY <1>1, <2>1 DEF Unfolds, CallsNext
  <2>3. Len(calls') = 1 /\ calls'[1] = ReadFrame(item.var, active)
    BY <2>2
  <2> QED
    BY <2>2, <2>3 DEF ReadFrame
<1> QED
  BY <1>1, <1>2 DEF KeepFollowsRead

LEMMA FinaliseLastVisit ==
  ASSUME VisitOK, NEW s, Unfolds(s)
  PROVE  FinaliseLast'
<1>0. /\ VisitorTypes /\ FinaliseLast /\ AtItem
      /\ Len(s) \in Nat /\ DOMAIN s = 1..Len(s) /\ todo \in Seq(Item)
      /\ Len(todo) \in Nat \ {0} /\ DOMAIN todo = 1..Len(todo) /\ item = todo[1]
      /\ Len(todo') = Len(s) + Len(todo) - 1
  <2>1. VisitorTypes /\ FinaliseLast /\ AtItem
    BY DEF VisitOK, HandlersKeep, Unfolds
  <2> QED
    BY <2>1, Shifted
<1>1. ASSUME NEW j \in DOMAIN todo', todo'[j].do = "finalise"
      PROVE  j = Len(todo')
  <2>1. CASE j \in DOMAIN s /\ todo'[j] = s[j]
    BY <1>1, <2>1 DEF Unfolds, MayFollow
  <2>2. CASE \E i \in DOMAIN todo : j = i + Len(s) - 1 /\ todo'[j] = todo[i]
    BY <1>0, <1>1, <2>2 DEF FinaliseLast
  <2> QED
    BY <1>0, <2>1, <2>2, OldOrNew
<1>2. ASSUME NEW f \in Frames', f.at = "finalise"
      PROVE  todo' = <<>>
  <2>1. item.do = "finalise" /\ s = <<>>
    BY <1>2 DEF Unfolds, CallsNext
  <2>2. 1 = Len(todo)
    BY <1>0, <2>1 DEF FinaliseLast
  <2>3. Len(todo') = 0 /\ todo' \in Seq(Item)
    <3>1. Len(s) = 0
      BY <2>1
    <3>2. todo' \in Seq(Item)
      BY <1>0, Shifted
    <3> QED
      BY <1>0, <2>2, <3>1, <3>2
  <2> QED
    BY <2>3
<1>3. finalised' = FALSE
  BY DEF Unfolds, CallsNext
<1> QED
  BY <1>1, <1>2, <1>3 DEF FinaliseLast

LEMMA HandlersKeepVisit ==
  ASSUME VisitOK, NEW s, Unfolds(s)
  PROVE  HandlersKeep'
<1>1. Warned /\ HandlersKeep
  BY DEF VisitOK
<1> QED
  BY <1>1, VisitorTypesNext, LoopsNestedNext, BlocksCreatedNext,
     KeysCreatedNext, KeysScopedNext, KeptIsDefinedVisit,
     KeepFollowsReadVisit, FinaliseLastVisit
  DEF HandlersKeep

-----------------------------------------------------------------------------
(* The registers that handlers keep, while a call is in progress           *)

LEMMA KeptIsDefinedStep ==
  ASSUME StepOK, Step, HandlersKeep, UNCHANGED visitor
  PROVE  KeptIsDefined'
<1>0. /\ VisitorTypes /\ KeptIsDefined /\ FinaliseLast
      /\ todo' = todo /\ held' = held /\ todo \in Seq(Item)
      /\ [Next]_vars /\ InductiveSSA
  BY StepFacts DEF HandlersKeep, VisitorTypes, visitor
<1> SUFFICES ASSUME NEW k \in DOMAIN held, NEW r, r = held[k],
                    NEW j \in DOMAIN todo, k \in KeysOf(todo[j])
             PROVE  IsKept(r, j)'
  <2>1. \A k \in DOMAIN held : held[k] \in Reg \cup {NoReg}
    BY <1>0 DEF VisitorTypes
  <2> QED
    BY <1>0, <2>1 DEF KeptIsDefined
<1>1. IsKept(r, j)
  BY <1>0 DEF KeptIsDefined
<1>2. \A f \in Frames : f.at # "finalise"
  <2>1. todo # <<>>
    BY <1>0
  <2> QED
    BY <1>0, <2>1 DEF FinaliseLast
<1>9. PICK v \in Var : v = VarOf(r) /\ \E n \in 0..versions[v] :
        VersionOf(r) < n /\ Protected(v, n) /\ ClosesYoung(v, n, j)
  BY <1>1 DEF IsKept
<1>3. PICK n \in 0..versions[v] :
        /\ v = VarOf(r) /\ VersionOf(r) < n
        /\ Protected(v, n) /\ ClosesYoung(v, n, j)
  BY <1>9
<1>4. /\ versions[v] \in Nat /\ versions'[v] \in Nat
      /\ versions[v] <= versions'[v]
  BY <1>0, VersionsUp
<1>5. n \in Nat /\ n \in 0..versions'[v]
  BY <1>3, <1>4
<1>6. r \in DefinedRegs'
  BY <1>1, <1>3, <1>5, ProtectedStays DEF IsKept
<1>7. Protected(v, n)'
  BY <1>2, <1>3, <1>5, ProtectedNext
<1>8. ClosesYoung(v, n, j)'
  <2> SUFFICES ASSUME NEW i \in 1..(j - 1), todo[i].do = "close"
               PROVE  \A x \in Range(incomplete'[todo[i].block]) :
                        VarOf(x) = v => n <= VersionOf(x)
    BY <1>0 DEF ClosesYoung
  <2>1. i \in DOMAIN todo
    BY <1>0
  <2>2. todo[i].block \in Block
    BY <1>0, <2>1, ItemFields
  <2>3. \A x \in Range(incomplete[todo[i].block]) :
          VarOf(x) = v => n <= VersionOf(x)
    BY <1>3 DEF ClosesYoung
  <2> QED
    BY <1>3, <1>5, <2>2, <2>3, WaitingYoung
<1> QED
  BY <1>3, <1>5, <1>6, <1>7, <1>8 DEF IsKept

LEMMA KeepFollowsReadStep ==
  ASSUME StepOK, Step, HandlersKeep, UNCHANGED visitor
  PROVE  KeepFollowsRead'
<1>0. KeepFollowsRead /\ todo' = todo /\ calls # <<>> /\ fault = "none"
  BY StepStack DEF HandlersKeep, visitor
<1>1. ASSUME todo # <<>>, Head(todo).do = "keep", fault' = "none"
      PROVE  IF calls' = <<>> THEN ret' \in DefinedRegs'
                              ELSE (Bottom').at \in {"read", "write"}
  <2>1. Bottom.at \in {"read", "write"}
    BY <1>0, <1>1 DEF KeepFollowsRead, Bottom
  <2> QED
    BY <1>1, <2>1, BottomNext
<1> QED
  BY <1>0, <1>1 DEF KeepFollowsRead, Bottom

LEMMA FinaliseLastStep ==
  ASSUME StepOK, Step, HandlersKeep, UNCHANGED visitor
  PROVE  FinaliseLast'
<1>0. /\ FinaliseLast /\ todo' = todo /\ top \in Frames
      /\ InductiveSSA /\ Shape /\ [Next]_vars
  BY StepFacts, StepStack DEF HandlersKeep, visitor
<1>1. ASSUME NEW f \in Frames', f.at = "finalise"
      PROVE  todo = <<>>
  BY <1>0, <1>1, NewSeals DEF FinaliseLast
<1>2. finalised' => todo = <<>>
  <2>1. CASE FinaliseComplete
    <3>1. top.at = "finalise"
      BY <2>1 DEF FinaliseComplete, Running, top
    <3> QED
      BY <1>0, <3>1 DEF FinaliseLast
  <2>2. CASE finalised' = finalised
    BY <1>0, <2>2 DEF FinaliseLast
  <2> QED
    BY <1>0, <2>1, <2>2, Changes
<1> QED
  BY <1>0, <1>1, <1>2 DEF FinaliseLast

LEMMA HandlersKeepStep ==
  ASSUME Warned, [Next]_vars, Step, HandlersKeep, UNCHANGED visitor
  PROVE  HandlersKeep'
<1>0. StepOK
  BY DEF Warned, StepOK
<1>1. blocks' = blocks
  BY <1>0, StepStack
<1>2. VisitorTypes' /\ LoopsNested' /\ KeysCreated' /\ KeysScoped'
  <2>0. VisitorTypes /\ LoopsNested /\ KeysCreated /\ KeysScoped
    BY DEF HandlersKeep
  <2>1. VisitorTypes'
    BY <2>0 DEF visitor, VisitorTypes
  <2>2. LoopsNested'
    BY <2>0 DEF visitor, LoopsNested, Exits
  <2>3. KeysCreated'
    BY <2>0 DEF visitor, KeysCreated
  <2>4. KeysScoped'
    BY <2>0 DEF visitor, KeysScoped
  <2> QED
    BY <2>1, <2>2, <2>3, <2>4
<1>3. BlocksCreated'
  BY <1>1 DEF HandlersKeep, visitor, BlocksCreated, Created, NewLabels
<1> QED
  BY <1>0, <1>2, <1>3, KeptIsDefinedStep, KeepFollowsReadStep,
     FinaliseLastStep
  DEF HandlersKeep

(* Neither does the machine change anything of it.                         *)
LEMMA HandlersKeepStutter ==
  ASSUME HandlersKeep, UNCHANGED <<vars, visitor>>
  PROVE  HandlersKeep'
<1>0. VisitorTypes /\ LoopsNested /\ KeysCreated /\ KeysScoped
  BY DEF HandlersKeep
<1>1. VisitorTypes' /\ LoopsNested' /\ KeysCreated' /\ KeysScoped'
  <2>1. VisitorTypes'
    BY <1>0 DEF visitor, VisitorTypes
  <2>2. LoopsNested'
    BY <1>0 DEF visitor, LoopsNested, Exits
  <2>3. KeysCreated'
    BY <1>0 DEF visitor, KeysCreated
  <2>4. KeysScoped'
    BY <1>0 DEF visitor, KeysScoped
  <2> QED
    BY <2>1, <2>2, <2>3, <2>4
<1>2. BlocksCreated' /\ FinaliseLast' /\ KeepFollowsRead'
  BY DEF HandlersKeep, visitor, BlocksCreated, Created, NewLabels, vars,
         cfgVars, ssaVars, callVars, FinaliseLast, Frames, KeepFollowsRead,
         DefinedRegs, PhiRegs, WrittenRegs
<1>3. ASSUME NEW v, NEW n, Protected(v, n)
      PROVE  Protected(v, n)'
  BY <1>3 DEF Protected, vars, cfgVars, ssaVars, callVars, Frames
<1>4. ASSUME NEW v, NEW n, NEW j, ClosesYoung(v, n, j)
      PROVE  ClosesYoung(v, n, j)'
  BY <1>4 DEF ClosesYoung, vars, ssaVars, visitor
<1>5. DefinedRegs' = DefinedRegs
  BY DEF DefinedRegs, PhiRegs, WrittenRegs, vars, cfgVars, ssaVars
<1>6. versions' = versions /\ todo' = todo /\ held' = held
  BY DEF vars, ssaVars, visitor
<1>7. ASSUME NEW r, NEW j, IsKept(r, j)
      PROVE  IsKept(r, j)'
  BY <1>3, <1>4, <1>5, <1>6, <1>7 DEF IsKept
<1>8. KeptIsDefined'
  BY <1>6, <1>7 DEF HandlersKeep, KeptIsDefined
<1> QED
  BY <1>1, <1>2, <1>8 DEF HandlersKeep

-----------------------------------------------------------------------------
(* The order of jumps, activations and seals, while a call is in progress  *)

(* A block that is being sealed was, or is among those that finalise seals.*)
LEMMA SealFrom ==
  ASSUME StepOK, Step, NEW f \in Frames', f.at \in {"seal", "sealing"}
  PROVE  \/ \E g \in Frames : g.at \in {"seal", "sealing"} /\ g.block = f.block
         \/ /\ FinaliseSeal /\ top.at = "finalise" /\ top \in Frames
            /\ f.block \in top.blocks
            /\ Frames' = {f, FinaliseFrame(top.blocks \ {f.block})} \cup Below
            /\ f.at = "seal"
<1>0. InductiveSSA /\ Shape /\ [Next]_vars /\ top \in Frames
  BY StepFacts, StepStack
<1>1. CASE f \in Frames
  BY <1>1
<1>2. CASE f.at = "seal" /\ f \notin Frames
  <2>1. FinaliseSeal /\ top.at = "finalise"
    BY <1>2, NewSeals
  <2>2. PICK b \in top.blocks :
          Frames' = {SealFrame(b), FinaliseFrame(top.blocks \ {b})} \cup Below
    BY <1>0, <2>1, FinaliseSealMoves
  <2>3. f = SealFrame(b)
    <3>1. FinaliseFrame(top.blocks \ {b}).at = "finalise"
      BY FrameKinds
    <3>2. Below \subseteq Frames
      BY <1>0, ShapeFacts, StepStack
    <3> QED
      BY <1>2, <2>2, <3>1, <3>2
  <2>4. f.block = b
    BY <2>3 DEF SealFrame
  <2> QED
    BY <1>0, <1>2, <2>1, <2>2, <2>3, <2>4
<1>3. CASE f.at = "sealing" /\ f \notin Frames
  <2>1. "sealing" \notin Marks
    BY DEF Marks, Gathers
  <2>2. CASE CompletePhi
    <3>1. top.at = "sealing"
      BY <2>2 DEF CompletePhi, Running, top
    <3>2. f = SealingFrame(top.block, Tail(top.todo))
      <4>1. Below \subseteq Frames
        BY <1>0, ShapeFacts, StepStack
      <4> QED
        BY <1>0, <1>3, <2>2, <4>1, CompletePhiMoves, FrameKinds
    <3> QED
      BY <1>0, <3>1, <3>2 DEF SealingFrame
  <2>3. CASE StartSeal
    <3>1. top.at = "seal"
      BY <2>3 DEF StartSeal, Running, top
    <3>2. f = SealingFrame(top.block, incomplete[top.block])
      BY <1>0, <1>3, <2>1, <2>3, NewFrames, FrameKinds
      DEF ReadJoin, ReadOperand, AppendOperand, OperandsComplete,
          CollectResult, StartSeal, CompletePhi, Running, Missing, Reading
    <3> QED
      BY <1>0, <3>1, <3>2 DEF SealingFrame
  <2>4. CompletePhi \/ StartSeal
    BY <1>0, <1>3, <2>1, NewFrames, FrameKinds
  <2> QED
    BY <2>2, <2>3, <2>4
<1> QED
  BY <1>1, <1>2, <1>3

(* What is being sealed is sealed, or goes on to be.                       *)
LEMMA SealGoesOn ==
  ASSUME StepOK, Step, fault' = "none", NEW b, IsBeingSealed(b)
  PROVE  IsBeingSealed(b)' \/ b \in sealed'
<1>0. /\ InductiveSSA /\ Shape /\ [Next]_vars /\ NoFixupFault /\ top \in Frames
  BY StepFacts, StepStack
<1>1. PICK f \in Frames : f.at \in {"seal", "sealing"} /\ f.block = b
  BY DEF IsBeingSealed
<1>2. CASE f \in Frames'
  BY <1>1, <1>2 DEF IsBeingSealed
<1>3. CASE f = top
  <2>1. CASE StartSeal
    <3>1. PICK g : g = SealingFrame(top.block, incomplete[top.block])
      OBVIOUS
    <3>2. Frames' = {g} \cup Below
      <4>1. \/ Frames' = {g} \cup Below
            \/ calls' = <<>>
        BY <1>0, <2>1, <3>1, StartSealMoves
      <4>2. calls' # <<>>
        <5>1. Become(<<SealingFrame(top.block, incomplete[top.block])>>)
                => calls' # <<>>
          <6>1. calls \in Seq(Frame) /\ calls # <<>>
            BY StepStack
          <6> QED
            BY <6>1 DEF Become
        <5> QED
          BY <2>1, <5>1 DEF StartSeal, Raise
      <4> QED
        BY <4>1, <4>2
    <3>3. g \in Frames' /\ g.at = "sealing" /\ g.block = b
      BY <1>1, <1>3, <3>1, <3>2 DEF SealingFrame
    <3> QED
      BY <3>3 DEF IsBeingSealed
  <2>2. CASE CompletePhi
    <3>1. PICK g : g = SealingFrame(top.block, Tail(top.todo))
      OBVIOUS
    <3>2. g \in Frames' /\ g.at = "sealing" /\ g.block = b
      BY <1>0, <1>1, <1>3, <2>2, <3>1, CompletePhiMoves DEF SealingFrame
    <3> QED
      BY <3>2 DEF IsBeingSealed
  <2>3. CASE SealComplete
    BY <1>1, <1>3, <2>3 DEF SealComplete
  <2>4. StartSeal \/ CompletePhi \/ SealComplete
    BY <1>1, <1>3 DEF Step, ReadLocal, ReadUnsealed, ReadSinglePredecessor,
      ReadJoin, WriteBack, ReadOperand, AppendOperand, OperandsComplete,
      CollectResult, FixupDefinitions, FixupComplete, TryUndefined,
      TryNotTrivial, TryTrivial, TryUsers, AddUse, FinaliseSeal,
      FinaliseComplete, Running, Missing, Reading, top
  <2> QED
    BY <2>1, <2>2, <2>3, <2>4
<1> QED
  BY <1>0, <1>1, <1>2, <1>3, BelowKept

(* The block that is sealed was being sealed, and no other is.             *)
LEMMA SealedOne ==
  ASSUME StepOK, Step
  PROVE  \/ sealed' = sealed
         \/ /\ SealComplete /\ top.at = "sealing" /\ top \in Frames
            /\ sealed' = sealed \cup {top.block}
            /\ \A f \in Frames' : f.at = "finalise" /\ f \in Frames
<1>0. /\ InductiveSSA /\ Shape /\ [Next]_vars /\ top \in Frames
      /\ calls \in Seq(Frame) /\ calls # <<>>
  BY StepFacts, StepStack
<1>1. CASE SealComplete
  <2>1. top.at = "sealing"
    BY <1>1 DEF SealComplete, Running, top
  <2>2. Frames' = Below /\ Below \subseteq Frames
    BY <1>0, <1>1, ReturnMoves, ShapeFacts
  <2>3. \A f \in Below : f.at = "finalise"
    BY <1>0, <2>1, ShapeFacts
  <2> QED
    BY <1>0, <1>1, <2>1, <2>2, <2>3 DEF SealComplete
<1> QED
  BY <1>0, <1>1, Changes

LEMMA MayBeTargetStep ==
  ASSUME StepOK, Step, HandlersKeep, todo # <<>>, NEW b, MayBeTarget(b)
  PROVE  MayBeTarget(b)'
<1>0. \A f \in Frames : f.at # "finalise"
  BY DEF HandlersKeep, FinaliseLast
<1>1. b \notin sealed'
  <2>1. CASE sealed' = sealed
    BY <2>1 DEF MayBeTarget
  <2>2. CASE top.at = "sealing" /\ top \in Frames
             /\ sealed' = sealed \cup {top.block}
    BY <2>2 DEF MayBeTarget, IsBeingSealed
  <2> QED
    BY <2>1, <2>2, SealedOne
<1>2. ~IsBeingSealed(b)'
  <2> SUFFICES ASSUME NEW f \in Frames', f.at \in {"seal", "sealing"},
                      f.block = b
               PROVE  FALSE
    BY DEF IsBeingSealed
  <2>1. \E g \in Frames : g.at \in {"seal", "sealing"} /\ g.block = f.block
    BY <1>0, SealFrom
  <2> QED
    BY <2>1 DEF MayBeTarget, IsBeingSealed
<1> QED
  BY <1>1, <1>2 DEF MayBeTarget

(* No step of a call finds the blocks not well formed.                     *)
LEMMA BlocksWellFormedStep ==
  ASSUME Warned, [Next]_vars, Step, HandlersKeep, BlocksInOrder
  PROVE  BlocksWellFormed'
<1>0. StepOK
  BY DEF Warned, StepOK
<1>1. /\ InductiveSSA /\ Shape /\ fault = "none" /\ top \in Frames
      /\ PredecessorsTerminated /\ SealedOnce /\ SealedAtLast
      /\ calls \in Seq(Frame) /\ calls # <<>>
      /\ preds \in [Block -> Seq(Block)]
  BY <1>0, StepFacts, StepStack DEF BlocksInOrder, TypeOK
<1>2. NoAlgorithmFault' /\ fault' \in Faults
  BY <1>0, ConstructionNext, StepFacts
  DEF StepOK, Construction, TypeOK
<1>3. CASE StartSeal
  <2>1. top.at = "seal" /\ top.block \in Block
    BY <1>1, <1>3, TopFields DEF StartSeal
  <2>2. top.block \notin sealed /\ Range(preds[top.block]) \subseteq terminated
    BY <1>1, <2>1 DEF SealedOnce, PredecessorsTerminated
  <2>3. fault' = fault
    BY <1>3, <2>2 DEF StartSeal
  <2> QED
    BY <1>1, <2>3 DEF BlocksWellFormed
<1>4. CASE FinaliseComplete
  <2>1. top.at = "finalise" /\ top.blocks = {}
    BY <1>4 DEF FinaliseComplete, Running, top
  <2>2. todo = <<>>
    BY <1>1, <2>1 DEF HandlersKeep, FinaliseLast
  <2>3. \A b : ~IsBeingSealed(b)
    <3>1. Tail(calls) = <<>> /\ Frames = {top} \cup Below
      BY <1>1, <2>1, ShapeFacts
    <3>2. Frames = {top}
      BY <3>1 DEF Below, Range
    <3> QED
      BY <2>1, <3>2 DEF IsBeingSealed
  <2>4. Range(todo) = {}
    BY <2>2 DEF Range
  <2>5. Range(blocks) \subseteq sealed
    BY <1>1, <2>1, <2>3, <2>4 DEF SealedAtLast
  <2>6. fault' \in {"none", "incomplete phi"}
    BY <1>1, <1>4, <2>5 DEF FinaliseComplete, Raise
  <2> QED
    BY <1>2, <2>6 DEF BlocksWellFormed, NoAlgorithmFault, AlgorithmFaults
<1>5. CASE FixupDefinitions
  <2>1. fault' \in {"none", "removed incomplete phi", "tangled web"}
    BY <1>1, <1>5 DEF FixupDefinitions, Raise
  <2> QED
    BY <1>2, <2>1 DEF BlocksWellFormed, NoAlgorithmFault, AlgorithmFaults
<1>6. CASE ~StartSeal /\ ~FinaliseComplete /\ ~FixupDefinitions
  <2>1. fault' = fault
    BY <1>6 DEF Step, ReadLocal, ReadUnsealed, ReadSinglePredecessor,
      ReadJoin, WriteBack, ReadOperand, AppendOperand, OperandsComplete,
      CollectResult, FixupComplete, TryUndefined, TryNotTrivial, TryTrivial,
      TryUsers, CompletePhi, SealComplete, AddUse, FinaliseSeal
  <2> QED
    BY <1>1, <2>1 DEF BlocksWellFormed
<1> QED
  BY <1>3, <1>4, <1>5, <1>6

LEMMA SealedOnceStep ==
  ASSUME StepOK, Step, HandlersKeep, UNCHANGED visitor, SealedOnce
  PROVE  SealedOnce'
<1>0. /\ blocks' = blocks /\ todo' = todo /\ InductiveSSA /\ Shape
      /\ calls \in Seq(Frame) /\ calls # <<>>
  BY StepStack, StepFacts DEF visitor
<1>1. \/ sealed' = sealed
      \/ /\ top.at = "sealing" /\ top \in Frames
         /\ sealed' = sealed \cup {top.block}
         /\ \A f \in Frames' : f.at = "finalise" /\ f \in Frames
  BY SealedOne
<1>2. /\ sealed' \subseteq Range(blocks)
      /\ todo # <<>> => sealed' \cap Labelled = {}
  BY <1>1 DEF SealedOnce
<1>3. ASSUME NEW f \in Frames', f.at \in {"seal", "sealing"}
      PROVE  /\ f.block \in Range(blocks) \ sealed'
             /\ f.block \in Labelled => todo = <<>>
  <2>1. sealed' = sealed
    BY <1>1, <1>3
  <2>2. CASE \E g \in Frames :
               g.at \in {"seal", "sealing"} /\ g.block = f.block
    BY <2>1, <2>2 DEF SealedOnce
  <2>3. CASE /\ top.at = "finalise" /\ top \in Frames
             /\ f.block \in top.blocks
    BY <2>1, <2>3 DEF SealedOnce, HandlersKeep, FinaliseLast
  <2> QED
    BY <1>3, <2>2, <2>3, SealFrom
<1>4. ASSUME NEW f \in Frames', f.at = "finalise"
      PROVE  /\ f.blocks \subseteq Range(blocks) \ sealed'
             /\ \A b \in f.blocks : ~IsBeingSealed(b)'
  <2>1. CASE f \in Frames
    <3>1. f.blocks \subseteq Range(blocks) \ sealed
          /\ \A b \in f.blocks : ~IsBeingSealed(b)
      BY <1>4, <2>1 DEF SealedOnce
    <3>2. f.blocks \subseteq Range(blocks) \ sealed'
      BY <1>1, <3>1 DEF IsBeingSealed
    <3>3. ASSUME NEW b \in f.blocks, NEW g \in Frames',
                 g.at \in {"seal", "sealing"}, g.block = b
          PROVE  FALSE
      <4>1. CASE \E h \in Frames :
                   h.at \in {"seal", "sealing"} /\ h.block = g.block
        BY <3>1, <3>3, <4>1 DEF IsBeingSealed
      <4>2. CASE /\ FinaliseSeal /\ top.at = "finalise"
                 /\ g.block \in top.blocks
                 /\ Frames' = {g, FinaliseFrame(top.blocks \ {g.block})}
                              \cup Below
        <5>1. Below = {}
          <6>1. Tail(calls) = <<>>
            BY <1>0, <4>2, ShapeFacts
          <6> QED
            BY <6>1 DEF Below, Range
        <5>2. f = FinaliseFrame(top.blocks \ {g.block})
          BY <1>4, <3>3, <4>2, <5>1
        <5>3. f.blocks = top.blocks \ {g.block}
          BY <5>2 DEF FinaliseFrame
        <5> QED
          BY <3>3, <5>3
      <4> QED
        BY <3>3, <4>1, <4>2, SealFrom
    <3> QED
      BY <3>2, <3>3 DEF IsBeingSealed
  <2>2. CASE f \notin Frames
    <3>1. /\ FinaliseSeal /\ top.at = "finalise" /\ top \in Frames
      BY <1>4, <2>2, NewSeals
    <3>2. PICK b \in top.blocks :
            Frames' = {SealFrame(b), FinaliseFrame(top.blocks \ {b})}
                      \cup Below
      BY <1>0, <3>1, FinaliseSealMoves
    <3>3. Below = {}
      <4>1. Tail(calls) = <<>>
        BY <1>0, <3>1, ShapeFacts
      <4> QED
        BY <4>1 DEF Below, Range
    <3>4. /\ SealFrame(b).at = "seal" /\ SealFrame(b).block = b
          /\ FinaliseFrame(top.blocks \ {b}).at = "finalise"
          /\ FinaliseFrame(top.blocks \ {b}).blocks = top.blocks \ {b}
      BY DEF SealFrame, FinaliseFrame
    <3>5. f = FinaliseFrame(top.blocks \ {b})
      BY <1>4, <3>2, <3>3, <3>4
    <3>6. sealed' = sealed
      BY <3>1 DEF FinaliseSeal, ssaVars
    <3>7. ASSUME NEW g \in Frames', g.at \in {"seal", "sealing"}
          PROVE  g.block = b
      BY <3>2, <3>3, <3>4, <3>7
    <3> QED
      BY <3>1, <3>4, <3>5, <3>6, <3>7 DEF SealedOnce, IsBeingSealed
  <2> QED
    BY <2>1, <2>2
<1> QED
  BY <1>0, <1>2, <1>3, <1>4 DEF SealedOnce

LEMMA SealedAtLastStep ==
  ASSUME StepOK, Step, fault' = "none", UNCHANGED visitor, SealedAtLast
  PROVE  SealedAtLast'
<1>0. blocks' = blocks /\ todo' = todo /\ sealed \subseteq sealed'
  BY StepStack, SealedOne DEF visitor
<1>1. ASSUME NEW b \in Range(blocks) \ Labelled
      PROVE  \/ b \in sealed' \/ IsBeingSealed(b)'
             \/ \E x \in Range(todo) : x.do = "close" /\ x.block = b
  BY <1>0, SealGoesOn DEF SealedAtLast
<1>2. ASSUME NEW f \in Frames', f.at = "finalise",
             NEW b \in Range(blocks) \cap Labelled
      PROVE  b \in sealed' \/ IsBeingSealed(b)' \/ b \in f.blocks
  <2>1. CASE f \in Frames
    BY <1>0, <1>2, <2>1, SealGoesOn DEF SealedAtLast
  <2>2. CASE f \notin Frames
    <3>1. /\ FinaliseSeal /\ top.at = "finalise" /\ top \in Frames
      BY <1>2, <2>2, NewSeals
    <3>2. PICK c \in top.blocks :
            Frames' = {SealFrame(c), FinaliseFrame(top.blocks \ {c})}
                      \cup Below
      BY <3>1, StepFacts, FinaliseSealMoves
    <3>3. /\ SealFrame(c).at = "seal" /\ SealFrame(c).block = c
          /\ FinaliseFrame(top.blocks \ {c}).at = "finalise"
          /\ FinaliseFrame(top.blocks \ {c}).blocks = top.blocks \ {c}
      BY DEF SealFrame, FinaliseFrame
    <3>4. f = FinaliseFrame(top.blocks \ {c})
      <4>1. Below \subseteq Frames
        BY StepStack, StepFacts, ShapeFacts
      <4> QED
        BY <1>2, <2>2, <3>2, <3>3, <4>1
    <3>5. IsBeingSealed(c)'
      BY <3>2, <3>3 DEF IsBeingSealed
    <3>6. b \in sealed \/ IsBeingSealed(b) \/ b \in top.blocks
      BY <3>1 DEF SealedAtLast
    <3> QED
      BY <1>0, <3>3, <3>4, <3>5, <3>6, SealGoesOn
  <2> QED
    BY <2>1, <2>2
<1>3. \A i \in DOMAIN todo' : todo'[i].do = "open" =>
        /\ todo'[i].block \notin Labelled
        /\ \E j \in DOMAIN todo' : /\ i < j /\ todo'[j].do = "close"
                                   /\ todo'[j].block = todo'[i].block
  BY <1>0 DEF SealedAtLast
<1> QED
  BY <1>0, <1>1, <1>2, <1>3 DEF SealedAtLast

LEMMA BlocksInOrderStep ==
  ASSUME Warned, [Next]_vars, Step, HandlersKeep, UNCHANGED visitor,
         BlocksInOrder
  PROVE  BlocksInOrder'
<1>0. StepOK
  BY DEF Warned, StepOK
<1>1. BlocksWellFormed'
  BY BlocksWellFormedStep
<1> SUFFICES ASSUME fault' = "none"
             PROVE  (/\ JumpsInOrder /\ EndsInOrder /\ LoopsInOrder
                     /\ SealedOnce /\ SealedAtLast)'
  BY <1>1 DEF BlocksInOrder
<1>2. /\ fault = "none" /\ UNCHANGED <<blocks, terminated>>
      /\ todo' = todo /\ loops' = loops
      /\ JumpsInOrder /\ EndsInOrder /\ LoopsInOrder /\ SealedOnce
      /\ SealedAtLast /\ todo \in Seq(Item)
  BY <1>0, StepStack DEF BlocksInOrder, visitor, HandlersKeep, VisitorTypes
<1>3. \A b : todo # <<>> /\ MayBeTarget(b) => MayBeTarget(b)'
  BY <1>0, MayBeTargetStep
<1>4. JumpsInOrder'
  <2>1. DOMAIN todo # {} => todo # <<>>
    BY <1>2
  <2> QED
    BY <1>2, <1>3, <2>1 DEF JumpsInOrder
<1>5. EndsInOrder'
  BY <1>2 DEF EndsInOrder, active
<1>6. LoopsInOrder'
  <2>1. PICK e \in [DOMAIN loops -> DOMAIN todo] : Exits(e) /\ LoopsOpen(e)
    BY <1>2 DEF LoopsInOrder
  <2>2. Exits(e)'
    BY <1>2, <2>1 DEF Exits
  <2>3. \A k \in DOMAIN loops : todo # <<>>
    BY <1>2, <2>1
  <2>4. LoopsOpen(e)'
    BY <1>2, <1>3, <2>1, <2>3 DEF LoopsOpen
  <2> QED
    BY <1>2, <2>1, <2>2, <2>4 DEF LoopsInOrder
<1> QED
  BY <1>0, <1>2, <1>4, <1>5, <1>6, SealedOnceStep, SealedAtLastStep

LEMMA LabelsWillBeFoundStep ==
  ASSUME StepOK, Step, UNCHANGED visitor, LabelsWillBeFound
  PROVE  LabelsWillBeFound'
<1>1. /\ UNCHANGED <<blocks, preds>> /\ todo' = todo /\ loops' = loops
      /\ fault = "none"
  BY StepStack DEF visitor
<1> QED
  BY <1>1 DEF LabelsWillBeFound, IsWanted, WillBeFound, Activated

-----------------------------------------------------------------------------
(* The order of jumps, activations and seals, while an item is done        *)

(* What doing an item does to the blocks.                                  *)
MovesInOrder ==
  /\ \A b \in Block \ Labelled :
       item.do = "close" /\ b = item.block => IsBeingSealed(b)'
  /\ \A b \in Range(blocks') \ (Range(blocks) \cup Labelled) :
       IsBeingSealed(b)' \/ (item.do = "open" /\ b = item.block)
  /\ \A b \in Block :
       preds'[b] # <<>> => preds[b] # <<>> \/ b \in Targets(item)
  /\ item.do = "activate" => item.block \in Range(blocks')

(* An item among those that take the place of the first one.               *)
ItemInOrder(s, j) ==
  /\ s[j].do = "try" => ThenInOrder(s[j])
  /\ Seals(s[j]) \subseteq Fresh \cup Seals(item)
  /\ s[j].do = "open" =>
       /\ s[j].block \notin Labelled
       /\ \E k \in DOMAIN s : /\ j < k /\ s[k].do = "close"
                              /\ s[k].block = s[j].block
  /\ \A b \in NeedsOpen(s[j]) :
       /\ b \in Fresh \/ MayBeTarget(b)'
       /\ \A i \in 1..(j - 1) : b \notin Seals(s[i])
  /\ \A b \in Targets(s[j]) \cap Labelled :
       \/ IsWanted(b)
       \/ \E h \in DOMAIN s : /\ s[h].do \in {"activate", "visit"}
                              /\ s[h].block = b

ItemsInOrder(s) ==
  /\ \A j \in DOMAIN s : ItemInOrder(s, j)
  /\ s # <<>> => ~NeedsEnd(s[1])
  /\ \A i \in 1..(Len(s) - 1) : NeedsEnd(s[i + 1]) => Ends(s[i])
  /\ Ends(item) => IF s = <<>> THEN active' \in terminated'
                               ELSE Ends(s[Len(s)])
  /\ item.do = "visit" /\ item.block \in Labelled =>
       \/ item.block \in Range(blocks')
       \/ \E h \in DOMAIN s : s[h].do = "activate" /\ s[h].block = item.block

VisitInOrder(s) ==
  /\ VisitOK /\ Unfolds(s) /\ fault' = "none"
  /\ JumpsInOrder /\ EndsInOrder /\ LoopsInOrder /\ SealedOnce /\ SealedAtLast
  /\ MovesInOrder /\ ItemsInOrder(s)

LEMMA VisitFacts ==
  ASSUME NEW s, VisitInOrder(s)
  PROVE  /\ Warned /\ HandlersKeep /\ [Next]_vars /\ Idle /\ AtItem
         /\ VisitorTypes /\ Unfolds(s) /\ todo # <<>>
         /\ item = todo[1] /\ DOMAIN todo = 1..Len(todo) /\ item \in Item
         /\ Len(todo) \in Nat \ {0} /\ 1 \in DOMAIN todo
         /\ Len(s) \in Nat /\ DOMAIN s = 1..Len(s)
         /\ DOMAIN todo' = 1..Len(todo') /\ Len(todo') = Len(s) + Len(todo) - 1
         /\ sealed' = sealed /\ Frames = {} /\ \A b : ~IsBeingSealed(b)
         /\ Range(blocks') \subseteq Block
         /\ Range(blocks) \subseteq Range(blocks')
<1>1. /\ Warned /\ HandlersKeep /\ [Next]_vars /\ Idle /\ AtItem
      /\ VisitorTypes /\ Unfolds(s) /\ todo # <<>>
  BY DEF VisitInOrder, VisitOK, Unfolds, AtItem, HandlersKeep
<1>2. /\ item = todo[1] /\ DOMAIN todo = 1..Len(todo) /\ item \in Item
      /\ Len(todo) \in Nat \ {0}
      /\ Len(s) \in Nat /\ DOMAIN s = 1..Len(s)
      /\ DOMAIN todo' = 1..Len(todo') /\ Len(todo') = Len(s) + Len(todo) - 1
  BY <1>1, Shifted
<1>3. /\ sealed' = sealed /\ Frames = {} /\ InductiveSSA' /\ InductiveSSA
  BY <1>1, IdleKeeps
<1>4. Range(blocks') \subseteq Block /\ Range(blocks) \subseteq Range(blocks')
  BY <1>1, <1>3, RangeType, BlocksGrow DEF InductiveSSA, TypeOK
<1>5. \A b : ~IsBeingSealed(b)
  BY <1>3 DEF IsBeingSealed
<1> QED
  BY <1>1, <1>2, <1>3, <1>4, <1>5

(* Only what the item seals begins to be sealed.                           *)
LEMMA MayBeTargetVisit ==
  ASSUME NEW s, VisitInOrder(s), NEW b
  PROVE  /\ IsBeingSealed(b)' => b \in Seals(item) /\ b \in Range(blocks')
         /\ b \notin sealed /\ b \notin Seals(item) => MayBeTarget(b)'
<1>1. IsBeingSealed(b)' => b \in Seals(item) /\ b \in Range(blocks')
  <2> SUFFICES ASSUME NEW f \in Frames', f.at \in {"seal", "sealing"},
                      f.block = b
               PROVE  b \in Seals(item) /\ b \in Range(blocks')
    BY DEF IsBeingSealed
  <2> QED
    BY VisitFacts DEF Unfolds, CallsNext
<1>2. sealed' = sealed
  BY VisitFacts
<1> QED
  BY <1>1, <1>2 DEF MayBeTarget

LEMMA FreshMayBeTarget ==
  ASSUME NEW s, VisitInOrder(s), NEW b \in Fresh
  PROVE  /\ MayBeTarget(b)' /\ b \notin Range(blocks) /\ b \notin sealed
         /\ b \notin Activates(item) \cup NeedsOpen(item) \cup Seals(item)
<1>1. /\ HandlersKeep /\ VisitorTypes /\ Unfolds(s) /\ item \in Range(todo)
      /\ item \in Item
  BY VisitFacts, FirstItem
<1>2. Fresh \cap Created = {}
  BY <1>1, CreatedGrow
<1>3. /\ b \notin Range(blocks)
      /\ b \notin Activates(item) \cup NeedsOpen(item)
  BY <1>1, <1>2 DEF HandlersKeep, BlocksCreated
<1>4. b \notin Seals(item)
  BY <1>1, <1>3, ItemBlocks
<1>5. b \notin sealed
  BY <1>3 DEF VisitInOrder, SealedOnce
<1> QED
  BY <1>3, <1>4, <1>5, MayBeTargetVisit

LEMMA JumpsInOrderVisit ==
  ASSUME NEW s, VisitInOrder(s)
  PROVE  JumpsInOrder'
<1>0. /\ VisitorTypes /\ Unfolds(s) /\ JumpsInOrder /\ BlocksCreated
      /\ item = todo[1] /\ DOMAIN todo = 1..Len(todo) /\ Len(todo) \in Nat
      /\ Len(s) \in Nat /\ DOMAIN s = 1..Len(s) /\ HandlersKeep
      /\ DOMAIN todo' = 1..Len(todo')
  BY VisitFacts DEF VisitInOrder, HandlersKeep
<1>1. \A j \in DOMAIN s : ItemInOrder(s, j)
  BY DEF VisitInOrder, ItemsInOrder
<1>2. ASSUME NEW x \in Range(todo'), x.do = "try"
      PROVE  ThenInOrder(x)
  <2>1. PICK i \in DOMAIN todo' : x = todo'[i]
    BY DEF Range
  <2>2. CASE i \in DOMAIN s /\ todo'[i] = s[i]
    BY <1>1, <1>2, <2>1, <2>2 DEF ItemInOrder
  <2>3. CASE \E j \in DOMAIN todo : todo'[i] = todo[j]
    <3>1. x \in Range(todo)
      BY <2>1, <2>3 DEF Range
    <3> QED
      BY <1>0, <1>2, <3>1 DEF JumpsInOrder
  <2> QED
    BY <1>0, <2>2, <2>3, OldOrNew
<1>3. ASSUME NEW j \in DOMAIN todo', NEW b \in NeedsOpen(todo'[j])
      PROVE  /\ MayBeTarget(b)'
             /\ \A i \in 1..(j - 1) : b \notin Seals(todo'[i])
  <2>1. CASE j \in DOMAIN s /\ todo'[j] = s[j]
    <3>1. MayBeTarget(b)' /\ \A i \in 1..(j - 1) : b \notin Seals(s[i])
      BY <1>1, <1>3, <2>1, FreshMayBeTarget DEF ItemInOrder
    <3>2. \A i \in 1..(j - 1) : todo'[i] = s[i]
      <4>1. \A i \in 1..(j - 1) : i \in 1..Len(s)
        BY <1>0, <2>1
      <4> QED
        BY <1>0, <4>1, Shifted
    <3> QED
      BY <3>1, <3>2
  <2>2. CASE \E g \in DOMAIN todo : /\ g >= 2 /\ j = g + Len(s) - 1
                                    /\ todo'[j] = todo[g]
    <3>1. PICK g \in DOMAIN todo : /\ g >= 2 /\ j = g + Len(s) - 1
                                   /\ todo'[j] = todo[g]
      BY <2>2
    <3>2. /\ MayBeTarget(b) /\ b \in Created
          /\ \A h \in 1..(g - 1) : b \notin Seals(todo[h])
      <4>1. b \in NeedsOpen(todo[g])
        BY <1>3, <3>1
      <4>2. b \in Created
        BY <1>0, <4>1 DEF BlocksCreated, Range
      <4> QED
        BY <1>0, <4>1, <4>2 DEF JumpsInOrder
    <3>3. b \notin Seals(item) /\ b \notin sealed
      <4>1. 1 \in 1..(g - 1)
        BY <1>0, <3>1
      <4> QED
        BY <1>0, <3>2, <4>1 DEF MayBeTarget
    <3>4. ASSUME NEW i \in 1..(j - 1)
          PROVE  b \notin Seals(todo'[i])
      <4>0. i \in DOMAIN todo'
        BY <1>0
      <4>1. CASE i \in DOMAIN s /\ todo'[i] = s[i]
        <5>1. Seals(s[i]) \subseteq Fresh \cup Seals(item)
          BY <1>1, <4>1 DEF ItemInOrder
        <5> QED
          BY <1>0, <3>2, <3>3, <4>1, <5>1, CreatedGrow
      <4>2. CASE \E h \in DOMAIN todo : /\ h >= 2 /\ i = h + Len(s) - 1
                                        /\ todo'[i] = todo[h]
        <5>1. PICK h \in DOMAIN todo : /\ h >= 2 /\ i = h + Len(s) - 1
                                       /\ todo'[i] = todo[h]
          BY <4>2
        <5>2. h \in 1..(g - 1)
          BY <1>0, <3>1, <5>1
        <5> QED
          BY <3>2, <5>1, <5>2
      <4> QED
        BY <1>0, <4>0, <4>1, <4>2, OldOrNew
    <3> QED
      BY <3>3, <3>4, MayBeTargetVisit
  <2> QED
    BY <1>0, <2>1, <2>2, OldOrNew
<1> QED
  BY <1>2, <1>3 DEF JumpsInOrder

LEMMA EndsInOrderVisit ==
  ASSUME NEW s, VisitInOrder(s)
  PROVE  EndsInOrder'
<1>0. /\ VisitorTypes /\ Unfolds(s) /\ EndsInOrder
      /\ item = todo[1] /\ DOMAIN todo = 1..Len(todo) /\ Len(todo) \in Nat \ {0}
      /\ Len(s) \in Nat /\ DOMAIN s = 1..Len(s)
      /\ DOMAIN todo' = 1..Len(todo') /\ Len(todo') = Len(s) + Len(todo) - 1
  BY VisitFacts DEF VisitInOrder
<1>1. /\ s # <<>> => ~NeedsEnd(s[1])
      /\ \A i \in 1..(Len(s) - 1) : NeedsEnd(s[i + 1]) => Ends(s[i])
      /\ Ends(item) => IF s = <<>> THEN active' \in terminated'
                                   ELSE Ends(s[Len(s)])
  BY DEF VisitInOrder, ItemsInOrder
<1>2. ASSUME NEW g \in DOMAIN todo, g >= 2, NeedsEnd(todo[g])
      PROVE  Ends(todo[g - 1])
  <2>1. g - 1 \in 1..(Len(todo) - 1) /\ (g - 1) + 1 = g
    BY <1>0, <1>2
  <2> QED
    BY <1>0, <1>2, <2>1 DEF EndsInOrder
<1>3. ASSUME todo' # <<>>, NeedsEnd(Head(todo'))
      PROVE  active' \in terminated'
  <2>1. todo' \in Seq(Item)
    BY <1>0, Shifted
  <2>2. 1 \in DOMAIN todo' /\ NeedsEnd(todo'[1])
    BY <1>3, <2>1
  <2>3. s = <<>>
    <3>1. s # <<>> => 1 \in 1..Len(s)
      <4>1. s \in Seq(Item)
        BY <1>0 DEF Unfolds
      <4> QED
        BY <4>1
    <3>2. s # <<>> => todo'[1] = s[1]
      BY <1>0, <3>1, Shifted
    <3> QED
      BY <1>1, <2>2, <3>2
  <2>4. Len(s) = 0
    BY <2>3
  <2>5. 1 \notin DOMAIN s
    BY <1>0, <2>4
  <2>6. PICK g \in DOMAIN todo : g >= 2 /\ 1 = g + Len(s) - 1
                                 /\ todo'[1] = todo[g]
    BY <1>0, <2>2, <2>5, OldOrNew
  <2>7. g = 2
    BY <1>0, <2>4, <2>6
  <2>8. Ends(item)
    BY <1>0, <1>2, <2>2, <2>6, <2>7
  <2> QED
    BY <1>1, <2>3, <2>8
<1>4. ASSUME NEW i \in 1..(Len(todo') - 1), NeedsEnd(todo'[i + 1])
      PROVE  Ends(todo'[i])
  <2>0. i \in DOMAIN todo' /\ i + 1 \in DOMAIN todo' /\ i \in Nat
    BY <1>0
  <2>1. CASE i + 1 \in DOMAIN s /\ todo'[i + 1] = s[i + 1]
    <3>1. i \in 1..(Len(s) - 1) /\ i \in 1..Len(s)
      BY <1>0, <2>0, <2>1
    <3> QED
      BY <1>0, <1>1, <1>4, <2>1, <3>1, Shifted
  <2>2. CASE \E g \in DOMAIN todo : /\ g >= 2 /\ i + 1 = g + Len(s) - 1
                                    /\ todo'[i + 1] = todo[g]
    <3>1. PICK g \in DOMAIN todo : /\ g >= 2 /\ i + 1 = g + Len(s) - 1
                                   /\ todo'[i + 1] = todo[g]
      BY <2>2
    <3>2. Ends(todo[g - 1])
      BY <1>2, <1>4, <3>1
    <3>3. CASE g = 2
      <4>1. Ends(item) /\ i = Len(s)
        BY <1>0, <2>0, <3>1, <3>2, <3>3
      <4>2. s # <<>> /\ i \in 1..Len(s)
        <5>1. i >= 1
          BY <1>0
        <5>2. s = <<>> => Len(s) = 0
          OBVIOUS
        <5> QED
          BY <1>0, <4>1, <5>1, <5>2
      <4> QED
        BY <1>0, <1>1, <4>1, <4>2, Shifted
    <3>4. CASE g # 2
      <4>1. g - 1 \in DOMAIN todo /\ g - 1 >= 2 /\ i = (g - 1) + Len(s) - 1
        BY <1>0, <2>0, <3>1, <3>4
      <4>2. todo'[i] = todo[g - 1]
        BY <1>0, <4>1, NewPlace
      <4> QED
        BY <3>2, <4>2
    <3> QED
      BY <3>3, <3>4
  <2> QED
    BY <1>0, <2>0, <2>1, <2>2, OldOrNew
<1> QED
  BY <1>3, <1>4 DEF EndsInOrder

LEMMA LoopsInOrderVisit ==
  ASSUME NEW s, VisitInOrder(s)
  PROVE  LoopsInOrder'
<1>0. /\ VisitorTypes /\ Unfolds(s) /\ LoopsInOrder /\ BlocksCreated
      /\ item = todo[1] /\ DOMAIN todo = 1..Len(todo) /\ Len(todo) \in Nat
      /\ Len(s) \in Nat /\ DOMAIN s = 1..Len(s) /\ item \in Item
      /\ DOMAIN todo' = 1..Len(todo')
      /\ loops \in Seq(LoopTargets) /\ DOMAIN loops = 1..Len(loops)
      /\ Len(loops) \in Nat
  BY VisitFacts DEF VisitInOrder, HandlersKeep, VisitorTypes
<1>1. PICK e \in [DOMAIN loops -> DOMAIN todo] : Exits(e) /\ LoopsOpen(e)
  BY <1>0 DEF LoopsInOrder
<1>2. PICK n : n = MovedExits(s, e)
  OBVIOUS
<1>3. n \in [DOMAIN loops' -> DOMAIN todo'] /\ Exits(n)'
      /\ (item.do = "exit" => loops # <<>> /\ e[1] = 1)
  BY <1>0, <1>1, <1>2, ExitsMove
(* The blocks of a loop that goes on stay open until its exit.             *)
<1>4. ASSUME NEW k \in DOMAIN loops, NEW b \in {loops[k].cont, loops[k].brk},
             NEW m, m <= e[k] + Len(s) - 1, m \in Nat
      PROVE  MayBeTarget(b)' /\ \A i \in 1..m : i \in DOMAIN todo' =>
               b \notin Seals(todo'[i])
  <2>0. e[k] \in DOMAIN todo /\ e[k] \in Nat /\ e[k] >= 1
    BY <1>0, <1>1
  <2>1. MayBeTarget(b) /\ \A i \in 1..e[k] : b \notin Seals(todo[i])
    BY <1>1 DEF LoopsOpen
  <2>2. b \in Created
    <3>1. loops[k] \in Range(loops)
      BY DEF Range
    <3> QED
      BY <1>0, <3>1 DEF BlocksCreated
  <2>3. b \notin Seals(item) /\ b \notin sealed
    <3>1. 1 \in 1..e[k]
      BY <2>0
    <3> QED
      BY <1>0, <2>1, <3>1 DEF MayBeTarget
  <2>4. ASSUME NEW i \in 1..m, i \in DOMAIN todo'
        PROVE  b \notin Seals(todo'[i])
    <3>1. CASE i \in DOMAIN s /\ todo'[i] = s[i]
      <4>1. Seals(s[i]) \subseteq Fresh \cup Seals(item)
        BY <3>1 DEF VisitInOrder, ItemsInOrder, ItemInOrder
      <4> QED
        BY <1>0, <2>2, <2>3, <3>1, <4>1, CreatedGrow
    <3>2. CASE \E h \in DOMAIN todo : /\ h >= 2 /\ i = h + Len(s) - 1
                                      /\ todo'[i] = todo[h]
      <4>1. PICK h \in DOMAIN todo : /\ h >= 2 /\ i = h + Len(s) - 1
                                     /\ todo'[i] = todo[h]
        BY <3>2
      <4>2. h \in 1..e[k]
        BY <1>0, <1>4, <2>0, <4>1
      <4> QED
        BY <2>1, <4>1, <4>2
    <3> QED
      BY <1>0, <2>4, <3>1, <3>2, OldOrNew
  <2> QED
    BY <2>3, <2>4, MayBeTargetVisit
<1>5. SUFFICES ASSUME NEW k \in DOMAIN loops',
                      NEW b \in {loops'[k].cont, loops'[k].brk}
               PROVE  /\ MayBeTarget(b)'
                      /\ \A i \in 1..n[k] : b \notin Seals(todo'[i])
  <2>1. LoopsOpen(n)'
    BY <1>5 DEF LoopsOpen
  <2> QED
    BY <1>3, <2>1 DEF LoopsInOrder
<1>6. n[k] \in DOMAIN todo' /\ n[k] \in Nat
      /\ \A i \in 1..n[k] : i \in DOMAIN todo'
  BY <1>0, <1>3
<1>7. CASE item.do \notin {"loop", "exit"}
  <2>1. loops' = loops /\ n[k] = e[k] + Len(s) - 1
    BY <1>2, <1>7 DEF Unfolds, LoopsNext, MovedExits, VisitInOrder
  <2>2. /\ k \in DOMAIN loops /\ b \in {loops[k].cont, loops[k].brk}
        /\ n[k] <= e[k] + Len(s) - 1
    BY <1>6, <2>1
  <2> QED
    BY <1>4, <1>6, <2>2
<1>8. CASE item.do = "loop"
  <2>1. loops' = <<LoopOf(item)>> \o loops /\ s = <<Body, ExitLoop>>
    BY <1>0, <1>8 DEF Unfolds, LoopsNext
  <2>2. /\ Len(s) = 2 /\ s[1] = Body /\ s[2] = ExitLoop
        /\ DOMAIN loops' = 1..(Len(loops) + 1)
        /\ loops'[1] = LoopOf(item)
        /\ \A l \in DOMAIN loops : loops'[l + 1] = loops[l]
    <3>1. LoopOf(item) \in LoopTargets
      BY <1>0, <1>8, ItemFields DEF LoopOf, LoopTargets
    <3>2. /\ <<LoopOf(item)>> \in Seq(LoopTargets) /\ Len(<<LoopOf(item)>>) = 1
      BY <3>1
    <3>3. /\ Len(loops') = 1 + Len(loops) /\ loops' \in Seq(LoopTargets)
          /\ loops'[1] = LoopOf(item)
          /\ \A l \in 2..(1 + Len(loops)) : loops'[l] = loops[l - 1]
      BY <1>0, <2>1, <3>2, ConcatProperties
    <3>4. \A l \in DOMAIN loops :
            l + 1 \in 2..(1 + Len(loops)) /\ (l + 1) - 1 = l
      BY <1>0
    <3>5. DOMAIN loops' = 1..(Len(loops) + 1)
      BY <1>0, <3>3
    <3>6. \A l \in DOMAIN loops : loops'[l + 1] = loops[(l + 1) - 1]
      BY <3>3, <3>4
    <3> QED
      BY <2>1, <3>3, <3>4, <3>5, <3>6
  <2>3. CASE k = 1
    <3>1. n[k] = 2
      BY <1>2, <1>8, <2>3 DEF MovedExits
    <3>2. b \in {item.cont, item.brk}
      BY <2>2, <2>3 DEF LoopOf
    <3>3. b \in NeedsOpen(item) /\ Seals(item) = {}
      BY <1>0, <1>8, <3>2, ItemBlocks
    <3>4. b \notin sealed
      BY <1>0, <3>3, VisitFacts DEF VisitInOrder, JumpsInOrder, MayBeTarget
    <3>5. Seals(Body) = {} /\ Seals(ExitLoop) = {}
      <4>1. Body \in Item /\ ExitLoop \in Item
        BY DEF Body, ExitLoop, Item
      <4>2. Body.do = "statements" /\ ExitLoop.do = "exit"
        BY DEF Body, ExitLoop
      <4> QED
        BY <4>1, <4>2, ItemBlocks
    <3>6. todo'[1] = s[1] /\ todo'[2] = s[2]
      <4>1. 1 \in 1..Len(s) /\ 2 \in 1..Len(s)
        BY <2>2
      <4> QED
        BY <1>0, <4>1, Shifted
    <3>7. \A i \in 1..n[k] : i = 1 \/ i = 2
      BY <3>1
    <3> QED
      BY <2>2, <3>3, <3>4, <3>5, <3>6, <3>7, MayBeTargetVisit
  <2>4. CASE k # 1
    <3>1. k - 1 \in DOMAIN loops /\ (k - 1) + 1 = k
      BY <1>0, <2>2, <2>4
    <3>2. n[k] = e[k - 1] + 1 /\ e[k - 1] \in Nat
      BY <1>0, <1>1, <1>2, <1>8, <2>4, <3>1 DEF MovedExits
    <3>3. b \in {loops[k - 1].cont, loops[k - 1].brk}
      BY <2>2, <3>1
    <3>4. n[k] <= e[k - 1] + Len(s) - 1
      BY <2>2, <3>2
    <3> QED
      BY <1>4, <1>6, <3>1, <3>3, <3>4
  <2> QED
    BY <2>3, <2>4
<1>9. CASE item.do = "exit"
  <2>1. loops' = Tail(loops) /\ s = <<>> /\ Len(s) = 0 /\ loops # <<>>
    BY <1>0, <1>3, <1>9 DEF Unfolds, LoopsNext
  <2>2. k + 1 \in DOMAIN loops /\ loops'[k] = loops[k + 1]
    BY <1>0, <2>1
  <2>3. n[k] = e[k + 1] - 1 /\ e[k + 1] \in Nat
    BY <1>0, <1>1, <1>2, <1>9, <2>2 DEF MovedExits
  <2>4. n[k] <= e[k + 1] + Len(s) - 1
    BY <2>1, <2>3
  <2>5. b \in {loops[k + 1].cont, loops[k + 1].brk}
    BY <2>2
  <2> QED
    BY <1>4, <1>6, <2>2, <2>4, <2>5
<1> QED
  BY <1>7, <1>8, <1>9

LEMMA SealedOnceVisit ==
  ASSUME NEW s, VisitInOrder(s)
  PROVE  SealedOnce'
<1>0. /\ VisitorTypes /\ Unfolds(s) /\ SealedOnce /\ JumpsInOrder
      /\ sealed' = sealed /\ item \in Item /\ item = todo[1]
      /\ 1 \in DOMAIN todo /\ todo # <<>>
      /\ Range(blocks) \subseteq Range(blocks')
  BY VisitFacts DEF VisitInOrder
<1>1. ASSUME NEW f \in Frames', f.at \in {"seal", "sealing"}
      PROVE  f.block \in Range(blocks') \ sealed' /\ f.block \notin Labelled
  <2>1. /\ f.block \in Range(blocks') \cap Seals(item)
        /\ ~Activated(f.block) \/ (item.do = "close" /\ f.block = item.block)
    BY <1>0, <1>1 DEF Unfolds, CallsNext
  <2>2. CASE ~Activated(f.block)
    BY <1>0, <2>1, <2>2, ItemBlocks DEF Activated, SealedOnce
  <2>3. CASE item.do = "close" /\ f.block = item.block
    <3>1. f.block \in NeedsOpen(item)
      BY <1>0, <2>3, ItemBlocks
    <3>2. f.block \notin sealed
      BY <1>0, <3>1 DEF JumpsInOrder, MayBeTarget
    <3> QED
      BY <1>0, <2>1, <3>2, ItemBlocks
  <2> QED
    BY <2>1, <2>2, <2>3
<1>2. ASSUME NEW f \in Frames', f.at = "finalise"
      PROVE  /\ f.blocks \subseteq Range(blocks') \ sealed'
             /\ \A b \in f.blocks : ~IsBeingSealed(b)'
  <2>1. f.blocks = Labelled \cap Range(blocks) /\ Frames' = {f}
    BY <1>0, <1>2 DEF Unfolds, CallsNext
  <2> QED
    BY <1>0, <1>2, <2>1 DEF SealedOnce, IsBeingSealed
<1>3. sealed' \subseteq Range(blocks') /\ sealed' \cap Labelled = {}
  BY <1>0 DEF SealedOnce
<1> QED
  BY <1>1, <1>2, <1>3 DEF SealedOnce

LEMMA SealedAtLastVisit ==
  ASSUME NEW s, VisitInOrder(s)
  PROVE  SealedAtLast'
<1>0. /\ VisitorTypes /\ Unfolds(s) /\ SealedAtLast /\ MovesInOrder
      /\ sealed' = sealed /\ item = todo[1] /\ \A b : ~IsBeingSealed(b)
      /\ 1 \in DOMAIN todo /\ DOMAIN todo = 1..Len(todo) /\ Len(todo) \in Nat
      /\ Len(s) \in Nat /\ DOMAIN s = 1..Len(s)
      /\ Range(blocks) \subseteq Range(blocks')
      /\ Range(blocks') \subseteq Block
  BY VisitFacts DEF VisitInOrder
<1>1. ASSUME NEW x \in Range(todo), x # item
      PROVE  x \in Range(todo')
  <2>1. PICK j \in DOMAIN todo : x = todo[j] /\ j # 1
    BY <1>0, <1>1 DEF Range
  <2>2. j >= 2
    BY <1>0, <2>1
  <2> QED
    BY <1>0, <2>1, <2>2, NewPlace DEF Range
<1>2. ASSUME NEW b \in Range(blocks') \ Labelled
      PROVE  \/ b \in sealed' \/ IsBeingSealed(b)'
             \/ \E x \in Range(todo') : x.do = "close" /\ x.block = b
  <2>1. CASE b \in Range(blocks) /\ b \notin sealed
    <3>1. PICK x \in Range(todo) : x.do = "close" /\ x.block = b
      BY <1>0, <1>2, <2>1 DEF SealedAtLast
    <3>2. CASE x = item
      BY <1>0, <1>2, <3>1, <3>2 DEF MovesInOrder
    <3> QED
      BY <1>1, <3>1, <3>2
  <2>2. CASE b \notin Range(blocks) /\ item.do = "open" /\ b = item.block
    <3>1. PICK j \in DOMAIN todo : /\ 1 < j /\ todo[j].do = "close"
                                   /\ todo[j].block = b
      BY <1>0, <2>2 DEF SealedAtLast
    <3>2. j >= 2
      BY <1>0, <3>1
    <3> QED
      BY <1>0, <3>1, <3>2, NewPlace DEF Range
  <2> QED
    BY <1>0, <1>2, <2>1, <2>2 DEF MovesInOrder
<1>3. ASSUME NEW i \in DOMAIN todo', todo'[i].do = "open"
      PROVE  /\ todo'[i].block \notin Labelled
             /\ \E j \in DOMAIN todo' : /\ i < j /\ todo'[j].do = "close"
                                        /\ todo'[j].block = todo'[i].block
  <2>1. CASE i \in DOMAIN s /\ todo'[i] = s[i]
    <3>1. ItemInOrder(s, i)
      BY <2>1 DEF VisitInOrder, ItemsInOrder
    <3>2. PICK j \in DOMAIN s : /\ i < j /\ s[j].do = "close"
                                /\ s[j].block = s[i].block
      BY <1>3, <2>1, <3>1 DEF ItemInOrder
    <3>3. j \in DOMAIN todo' /\ todo'[j] = s[j]
      <4>1. j \in 1..Len(s) /\ DOMAIN todo' = 1..Len(todo')
            /\ Len(todo') = Len(s) + Len(todo) - 1
        BY <1>0, Shifted
      <4>2. Len(todo) >= 1
        BY <1>0
      <4>3. j \in 1..Len(todo')
        BY <1>0, <4>1, <4>2
      <4> QED
        BY <1>0, <4>1, <4>3, Shifted
    <3> QED
      BY <1>3, <2>1, <3>1, <3>2, <3>3 DEF ItemInOrder
  <2>2. CASE \E h \in DOMAIN todo : /\ h >= 2 /\ i = h + Len(s) - 1
                                    /\ todo'[i] = todo[h]
    <3>1. PICK h \in DOMAIN todo : /\ h >= 2 /\ i = h + Len(s) - 1
                                   /\ todo'[i] = todo[h]
      BY <2>2
    <3>2. /\ todo[h].block \notin Labelled
          /\ \E j \in DOMAIN todo : /\ h < j /\ todo[j].do = "close"
                                    /\ todo[j].block = todo[h].block
      BY <1>0, <1>3, <3>1 DEF SealedAtLast
    <3>3. PICK j \in DOMAIN todo : /\ h < j /\ todo[j].do = "close"
                                   /\ todo[j].block = todo[h].block
      BY <3>2
    <3>4. j >= 2 /\ i < j + Len(s) - 1
      BY <1>0, <3>1, <3>3
    <3>5. j + Len(s) - 1 \in DOMAIN todo' /\ todo'[j + Len(s) - 1] = todo[j]
      BY <1>0, <3>4, NewPlace
    <3> QED
      BY <3>1, <3>2, <3>3, <3>4, <3>5
  <2> QED
    BY <1>0, <2>1, <2>2, OldOrNew
<1>4. ASSUME NEW f \in Frames', f.at = "finalise",
             NEW b \in Range(blocks') \cap Labelled
      PROVE  b \in f.blocks
  <2>1. f.blocks = Labelled \cap Range(blocks) /\ item.do = "finalise"
    BY <1>0, <1>4 DEF Unfolds, CallsNext
  <2>2. blocks' = blocks
    <3>1. Activates(item) = {}
      BY <2>1, VisitFacts, ItemBlocks
    <3> QED
      BY <1>0, <3>1 DEF Unfolds, CallsNext
  <2> QED
    BY <2>1, <2>2
<1> QED
  BY <1>2, <1>3, <1>4 DEF SealedAtLast

LEMMA LabelsWillBeFoundVisit ==
  ASSUME NEW s, VisitInOrder(s), LabelsWillBeFound
  PROVE  LabelsWillBeFound'
<1>0. /\ VisitorTypes /\ Unfolds(s) /\ MovesInOrder /\ ItemsInOrder(s)
      /\ item = todo[1] /\ 1 \in DOMAIN todo /\ item \in Item
      /\ DOMAIN todo = 1..Len(todo) /\ Len(todo) \in Nat
      /\ Len(s) \in Nat /\ DOMAIN s = 1..Len(s) /\ fault = "none"
      /\ Range(blocks) \subseteq Range(blocks') /\ item \in Range(todo)
      /\ loops \in Seq(LoopTargets) /\ Labelled \subseteq Block
      /\ DOMAIN todo' = 1..Len(todo') /\ Len(todo') = Len(s) + Len(todo) - 1
  <2>1. /\ VisitorTypes /\ Unfolds(s) /\ MovesInOrder /\ ItemsInOrder(s)
        /\ item = todo[1] /\ 1 \in DOMAIN todo /\ item \in Item
        /\ DOMAIN todo = 1..Len(todo) /\ Len(todo) \in Nat
        /\ Len(s) \in Nat /\ DOMAIN s = 1..Len(s) /\ Idle
        /\ Range(blocks) \subseteq Range(blocks')
        /\ DOMAIN todo' = 1..Len(todo') /\ Len(todo') = Len(s) + Len(todo) - 1
    BY VisitFacts DEF VisitInOrder
  <2>2. item \in Range(todo) /\ Labelled \subseteq Block
    BY <2>1, ConstantsAssumption DEF Range
  <2> QED
    BY <2>1, <2>2 DEF Idle, VisitorTypes
<1> SUFFICES ASSUME NEW b \in Labelled, IsWanted(b)'
             PROVE  WillBeFound(b)'
  BY DEF LabelsWillBeFound
<1>1. ASSUME NEW h \in DOMAIN s, s[h].do \in {"activate", "visit"},
             s[h].block = b
      PROVE  WillBeFound(b)'
  <2>1. h \in 1..Len(s) /\ h \in 1..Len(todo')
    <3>1. Len(todo) >= 1
      BY <1>0
    <3> QED
      BY <1>0, <3>1
  <2>2. todo'[h] = s[h] /\ h \in DOMAIN todo'
    BY <1>0, <2>1, Shifted
  <2>3. s[h] \in Range(todo')
    BY <2>2 DEF Range
  <2> QED
    BY <1>1, <2>3 DEF WillBeFound
<1>2. CASE IsWanted(b)
  <2>1. WillBeFound(b)
    BY <1>0, <1>2 DEF LabelsWillBeFound
  <2>2. CASE Activated(b)
    BY <1>0, <2>2 DEF WillBeFound, Activated
  <2>3. CASE \E x \in Range(todo) : x.do \in {"activate", "visit"}
                                    /\ x.block = b
    <3>1. PICK j \in DOMAIN todo :
            todo[j].do \in {"activate", "visit"} /\ todo[j].block = b
      BY <2>3 DEF Range
    <3>2. CASE j = 1
      <4>1. CASE item.do = "activate"
        BY <1>0, <3>1, <3>2, <4>1 DEF MovesInOrder, WillBeFound, Activated
      <4>2. CASE item.do = "visit"
        <5>1. CASE item.block \in Range(blocks')
          BY <1>0, <3>1, <3>2, <5>1 DEF WillBeFound, Activated
        <5> QED
          BY <1>0, <1>1, <3>1, <3>2, <4>2, <5>1 DEF ItemsInOrder
      <4> QED
        BY <1>0, <3>1, <3>2, <4>1, <4>2
    <3>3. CASE j # 1
      <4>1. j >= 2
        BY <1>0, <3>3
      <4>2. todo[j] \in Range(todo')
        BY <1>0, <4>1, NewPlace DEF Range
      <4> QED
        BY <3>1, <4>2 DEF WillBeFound
    <3> QED
      BY <3>2, <3>3
  <2> QED
    BY <2>1, <2>2, <2>3 DEF WillBeFound
<1>3. CASE ~IsWanted(b)
  <2>1. b \notin Targets(item)
    BY <1>0, <1>3 DEF IsWanted
  <2>2. preds'[b] = <<>>
    BY <1>0, <1>3, <2>1 DEF MovesInOrder, IsWanted
  <2>3. ASSUME NEW l \in Range(loops'),
               b \in {l.cont, l.brk, l.label}
        PROVE  FALSE
    <3>1. CASE item.do = "loop"
      <4>1. LoopOf(item) \in LoopTargets
        BY <1>0, <3>1, ItemFields DEF LoopOf, LoopTargets
      <4>2. loops' = <<LoopOf(item)>> \o loops
        BY <1>0, <3>1 DEF Unfolds, LoopsNext
      <4>3. /\ loops' \in Seq(LoopTargets) /\ loops' # <<>>
            /\ Head(loops') = LoopOf(item) /\ Tail(loops') = loops
        BY <1>0, <4>1, <4>2
      <4>4. l = LoopOf(item) \/ l \in Range(loops)
        BY <2>3, <4>3, TailRange
      <4>5. b \notin {item.cont, item.brk, item.label}
        BY <1>0, <2>1, <3>1, ItemBlocks
      <4> QED
        BY <1>3, <2>3, <4>4, <4>5 DEF LoopOf, IsWanted
    <3>2. CASE item.do = "exit"
      <4>1. PICK e \in [DOMAIN loops -> DOMAIN todo] : Exits(e)
        BY VisitFacts DEF HandlersKeep, LoopsNested
      <4>2. PICK n : n = MovedExits(s, e)
        OBVIOUS
      <4>3. loops # <<>>
        BY <1>0, <3>2, <4>1, <4>2, ExitsMove
      <4>4. Range(Tail(loops)) \subseteq Range(loops)
        BY <1>0, <4>3, TailRange
      <4> QED
        BY <1>0, <1>3, <2>3, <3>2, <4>4 DEF Unfolds, LoopsNext, IsWanted
    <3> QED
      BY <1>0, <1>3, <2>3, <3>1, <3>2 DEF Unfolds, LoopsNext, IsWanted
  <2>4. PICK x \in Range(todo') : b \in Targets(x)
    BY <2>2, <2>3 DEF IsWanted
  <2>5. PICK i \in DOMAIN todo' : x = todo'[i]
    BY DEF Range
  <2>6. i \in DOMAIN s /\ x = s[i]
    <3>1. x \notin Range(todo)
      BY <1>3, <2>4 DEF IsWanted
    <3> QED
      BY <1>0, <2>5, <3>1, OldOrNew DEF Range
  <2>7. ItemInOrder(s, i)
    BY <1>0, <2>6 DEF ItemsInOrder
  <2> QED
    BY <1>1, <1>3, <2>4, <2>6, <2>7 DEF ItemInOrder
<1> QED
  BY <1>2, <1>3

(* Doing an item keeps the blocks in order.                                *)
LEMMA InOrderVisit ==
  ASSUME VisitOK, BlocksInOrder, LabelsWillBeFound, NEW s, Unfolds(s),
         BlocksWellFormed', fault' = "none" => MovesInOrder /\ ItemsInOrder(s)
  PROVE  BlocksInOrder' /\ LabelsWillBeFound'
<1>1. fault = "none"
  BY DEF Unfolds, AtItem, Idle
<1>2. fault' = "none" => VisitInOrder(s)
  BY <1>1 DEF BlocksInOrder, VisitInOrder
<1>3. BlocksInOrder'
  BY <1>2, JumpsInOrderVisit, EndsInOrderVisit, LoopsInOrderVisit,
     SealedOnceVisit, SealedAtLastVisit
  DEF BlocksInOrder
<1>4. LabelsWillBeFound'
  <2>1. CASE fault' = "none"
    BY <1>2, <2>1, LabelsWillBeFoundVisit
  <2>2. CASE fault' # "none"
    BY <2>2 DEF LabelsWillBeFound
  <2> QED
    BY <2>1, <2>2
<1> QED
  BY <1>3, <1>4

-----------------------------------------------------------------------------
(* What an action of the visitor does, in two parts: to the builder and to *)
(* the items                                                               *)

(* The items s take the place of the first one, as the invariants need.    *)
Fulfils(s) ==
  /\ [Next]_vars
  /\ Unfolds(s)
  /\ BlocksInOrder /\ LabelsWillBeFound =>
       /\ BlocksWellFormed'
       /\ fault' = "none" => MovesInOrder /\ ItemsInOrder(s)
VisitKeeps == \E s : Fulfils(s)

LEMMA FulfilsKeeps ==
  ASSUME Warned, HandlersKeep, VisitKeeps
  PROVE  /\ [Next]_vars /\ HandlersKeep'
         /\ BlocksInOrder /\ LabelsWillBeFound =>
              BlocksInOrder' /\ LabelsWillBeFound'
<1>1. PICK s : Fulfils(s)
  BY DEF VisitKeeps
<1>2. VisitOK /\ Unfolds(s)
  BY <1>1 DEF Fulfils, VisitOK
<1> QED
  BY <1>1, <1>2, HandlersKeepVisit, InOrderVisit DEF Fulfils

(* What an action does to the builder.                                     *)
ClientOK ==
  /\ [Next]_vars
  /\ CallsNext
  /\ BlocksInOrder =>
       /\ BlocksWellFormed'
       /\ fault' = "none" => MovesInOrder

VisitorReady == Warned /\ HandlersKeep /\ AtItem

LEMMA ReadyFacts ==
  ASSUME VisitorReady
  PROVE  /\ Idle /\ calls = <<>> /\ fault = "none" /\ finalised = FALSE
         /\ todo # <<>> /\ item \in Item /\ item = todo[1]
         /\ item = Head(todo) /\ item \in Range(todo) /\ 1 \in DOMAIN todo
         /\ VisitorTypes /\ Frames = {} /\ TypeOK /\ InductiveSSA /\ Shape
         /\ active \in Range(blocks) /\ active \in Block
         /\ blocks \in Seq(Block) /\ \A b : ~IsBeingSealed(b)
         /\ Range(blocks) \subseteq Block
<1>1. /\ Idle /\ calls = <<>> /\ fault = "none" /\ finalised = FALSE
  <2>1. Idle
    BY DEF VisitorReady, AtItem
  <2>2. finalised \in BOOLEAN
    BY DEF VisitorReady, Warned, InductiveSSA, TypeOK
  <2> QED
    BY <2>1, <2>2 DEF Idle
<1>2. /\ todo # <<>> /\ item \in Item /\ item = todo[1]
      /\ item = Head(todo) /\ item \in Range(todo) /\ 1 \in DOMAIN todo
      /\ VisitorTypes
  BY FirstItem DEF VisitorReady, HandlersKeep, item
<1>3. Frames = {} /\ \A b : ~IsBeingSealed(b)
  BY <1>1 DEF Frames, Range, IsBeingSealed
<1>4. /\ TypeOK /\ InductiveSSA /\ Shape /\ blocks \in Seq(Block)
      /\ blocks # <<>> /\ active \in Block
  BY QueryTypes DEF VisitorReady, Warned, InductiveSSA, TypeOK, Construction
<1>5. active \in Range(blocks) /\ Range(blocks) \subseteq Block
  BY <1>4, RangeType, ActiveIsActivated DEF Activated
<1> QED
  BY <1>1, <1>2, <1>3, <1>4, <1>5

(* Nothing that the properties are about.                                  *)
LEMMA QuietClient ==
  ASSUME VisitorReady, [Next]_vars,
         UNCHANGED <<blocks, preds, calls, fault, finalised>>,
         item.do \notin {"hold", "activate", "close"}
  PROVE  ClientOK
<1>0. /\ calls = <<>> /\ fault = "none" /\ finalised = FALSE /\ Frames = {}
  BY ReadyFacts
<1>1. Frames' = {}
  BY <1>0 DEF Frames
<1>2. CallsNext
  BY <1>0, <1>1 DEF CallsNext
<1>3. MovesInOrder
  BY DEF MovesInOrder
<1> QED
  BY <1>0, <1>2, <1>3 DEF ClientOK, BlocksWellFormed

(* The read of a variable.                                                 *)
LEMMA ReadClient ==
  ASSUME VisitorReady, item.var \in Var,
         \/ item.do = "hold" /\ ReadVariable(item.var) /\ MayRead
         \/ item.do = "use" /\ UseVariable(item.var) /\ MayAddOp
  PROVE  ClientOK
<1>0. /\ calls = <<>> /\ fault = "none" /\ finalised = FALSE /\ Frames = {}
      /\ item \in Item
  BY ReadyFacts
<1>1. /\ UNCHANGED <<blocks, preds, fault, finalised>>
      /\ item.do = "hold" => calls' = <<ReadFrame(item.var, active)>>
      /\ item.do = "use" => calls' = <<ReadFrame(item.var, active), UseFrame>>
  BY <1>0 DEF ReadVariable, UseVariable, Push
<1>2. \A f \in Frames' : f.at \in {"read", "use"}
  BY <1>1, FrameKinds DEF Frames, Range
<1>3. CallsNext
  BY <1>0, <1>1, <1>2 DEF CallsNext
<1>4. [Next]_vars
  BY DEF Next, Client, MayRead, MayAddOp
<1>5. MovesInOrder
  BY <1>1 DEF MovesInOrder
<1> QED
  BY <1>0, <1>1, <1>3, <1>4, <1>5 DEF ClientOK, BlocksWellFormed

(* The end of the active block, with a jump to ts.                         *)
LEMMA JumpClient ==
  ASSUME VisitorReady, NEW ts, ts = Targets(item), ts \subseteq Block,
         item.do \in {"goto", "branch", "end"},
         Terminate(ts), MayTerminate(ts)
  PROVE  /\ ClientOK
         /\ fault' = "none" => active' \in terminated'
<1>0. /\ calls = <<>> /\ fault = "none" /\ finalised = FALSE /\ Frames = {}
      /\ item \in Item /\ TypeOK /\ 1 \in DOMAIN todo /\ item = todo[1]
  BY ReadyFacts
<1>1. /\ UNCHANGED <<blocks, finalised, sealed>> /\ calls' = <<>>
      /\ \/ SealedTarget(ts) /\ fault' = "sealed target"
         \/ /\ fault' = "none" /\ terminated' = terminated \cup {active}
            /\ preds' = [b \in Block |-> IF b \in ts
                                         THEN AddPred(preds[b], active)
                                         ELSE preds[b]]
  BY <1>0 DEF Terminate, Raise, ssaVars
<1>2. CallsNext
  <2>0. calls' = <<>>
    BY <1>1
  <2>1. Frames' = {}
    BY <2>0 DEF Frames, Range
  <2>2. blocks' = blocks /\ finalised' = FALSE /\ item.do # "hold"
    BY <1>0, <1>1
  <2> QED
    BY <2>1, <2>2 DEF CallsNext
<1>3. [Next]_vars
  BY DEF Next, Client, MayTerminate
<1>4. BlocksInOrder => ~SealedTarget(ts)
  <2> SUFFICES ASSUME JumpsInOrder PROVE ts \cap sealed = {}
    BY <1>0 DEF BlocksInOrder, SealedTarget
  <2>1. ts \subseteq NeedsOpen(item)
    BY <1>0, ItemBlocks
  <2> QED
    BY <1>0, <2>1 DEF JumpsInOrder, MayBeTarget
<1>5. fault' = "none" => MovesInOrder /\ active' \in terminated'
  BY <1>1 DEF MovesInOrder, active
<1> QED
  BY <1>0, <1>1, <1>2, <1>3, <1>4, <1>5 DEF ClientOK, BlocksWellFormed

(* The activation of a block.                                              *)
LEMMA ActivateClient ==
  ASSUME VisitorReady,
         \/ item.do \in {"activate", "try"} /\ Activate(item.block)
         \/ item.do = "open" /\ ActivateOpen(item.block)
  PROVE  /\ ClientOK
         /\ \A b : IsBeingSealed(b)' => b = item.block /\ b \notin Labelled
<1> DEFINE a == item.block
<1>0. /\ calls = <<>> /\ fault = "none" /\ finalised = FALSE /\ Frames = {}
      /\ item \in Item /\ TypeOK /\ 1 \in DOMAIN todo /\ item = todo[1]
      /\ blocks \in Seq(Block) /\ todo # <<>> /\ item = Head(todo)
  BY ReadyFacts
<1>1. a \in Block
  BY <1>0, ItemFields
<1> DEFINE fs == IF item.do = "open" THEN <<>> ELSE SealIfUnlabelled(a)
<1>2. ActivateThen(a, fs)
  BY <1>0 DEF Activate, ActivateOpen
<1>3. /\ UNCHANGED <<preds, terminated, finalised>> /\ ~Activated(a)
      /\ \/ active \notin terminated /\ calls' = <<>> /\ blocks' = blocks
            /\ fault' = "not terminated"
         \/ calls' = <<>> /\ blocks' = blocks /\ fault' = "no predecessors"
         \/ fault' = "none" /\ blocks' = Append(blocks, a)
            /\ calls' = fs \o <<>>
  BY <1>0, <1>2 DEF ActivateThen, Raise, Push
<1>4. a \in Activates(item)
  BY <1>0, ItemBlocks DEF Activates
<1>5. item.do # "open" /\ a \notin Labelled => a \in Seals(item)
  BY <1>0, <1>4 DEF Seals
<1>6. CASE calls' = <<>> /\ blocks' = blocks /\ fault' # "none"
  <2>1. Frames' = {}
    BY <1>6 DEF Frames, Range
  <2>2. CallsNext
    BY <1>0, <1>3, <1>6, <2>1 DEF CallsNext
  <2>3. [Next]_vars
    BY <1>1 DEF Next, Client
  <2>4. BlocksInOrder => active \in terminated
    <3>1. NeedsEnd(item)
      BY DEF NeedsEnd
    <3> QED
      BY <1>0, <3>1 DEF BlocksInOrder, EndsInOrder
  <2>5. BlocksInOrder => BlocksWellFormed'
    BY <1>3, <1>6, <2>4 DEF BlocksWellFormed
  <2> QED
    BY <1>6, <2>1, <2>2, <2>3, <2>5 DEF ClientOK, IsBeingSealed
<1>7. CASE /\ fault' = "none" /\ blocks' = Append(blocks, a)
           /\ calls' = fs \o <<>>
  <2>1. \/ calls' = <<>> /\ Frames' = {}
           /\ (a \in Labelled \/ item.do = "open")
        \/ /\ calls' = <<SealFrame(a)>> /\ Frames' = {SealFrame(a)}
           /\ a \notin Labelled /\ item.do # "open"
    BY <1>7 DEF SealIfUnlabelled, Frames, Range
  <2>2. SealFrame(a).at = "seal" /\ SealFrame(a).block = a
    BY DEF SealFrame
  <2>3. Range(blocks') = Range(blocks) \cup {a}
    BY <1>0, <1>1, <1>7, AppendRange
  <2>4. CallsNext
    <3>1. ASSUME NEW f \in Frames'
          PROVE  /\ f.at = "seal"
                 /\ f.block \in Range(blocks') \cap Seals(item)
                 /\ ~Activated(f.block)
      BY <1>3, <1>5, <2>1, <2>2, <2>3, <3>1
    <3> QED
      BY <1>0, <1>3, <1>4, <1>7, <3>1 DEF CallsNext
  <2>5. [Next]_vars
    BY <1>1 DEF Next, Client
  <2>6. MovesInOrder
    <3>1. item.do # "close"
      OBVIOUS
    <3>2. \A b : b = a =>
            IsBeingSealed(b)' \/ item.do = "open" \/ a \in Labelled
      BY <2>1, <2>2 DEF IsBeingSealed
    <3> QED
      BY <1>3, <2>3, <3>1, <3>2 DEF MovesInOrder
  <2>7. \A b : IsBeingSealed(b)' => b = a /\ b \notin Labelled
    BY <2>1, <2>2 DEF IsBeingSealed
  <2> QED
    BY <1>7, <2>4, <2>5, <2>6, <2>7 DEF ClientOK, BlocksWellFormed
<1> QED
  BY <1>3, <1>6, <1>7

(* The end of the context of an open block.                                *)
LEMMA CloseClient ==
  ASSUME VisitorReady, item.do = "close", CloseOpen(item.block)
  PROVE  /\ ClientOK
         /\ BlocksInOrder => active' \in terminated'
<1> DEFINE a == item.block
<1>0. /\ calls = <<>> /\ fault = "none" /\ finalised = FALSE /\ Frames = {}
      /\ item \in Item /\ TypeOK /\ 1 \in DOMAIN todo /\ item = todo[1]
      /\ blocks \in Seq(Block) /\ todo # <<>> /\ item = Head(todo)
  BY ReadyFacts
<1>1. a \in Block
  BY <1>0, ItemFields
<1>2. /\ Activated(a) /\ calls' = SealIfUnlabelled(a) \o <<>>
      /\ UNCHANGED <<blocks, preds, terminated, fault, finalised>>
  BY <1>0 DEF CloseOpen, Push, cfgVars
<1>3. \/ calls' = <<>> /\ Frames' = {} /\ a \in Labelled
      \/ /\ calls' = <<SealFrame(a)>> /\ Frames' = {SealFrame(a)}
         /\ a \notin Labelled
  BY <1>2 DEF SealIfUnlabelled, Frames, Range
<1>4. SealFrame(a).at = "seal" /\ SealFrame(a).block = a
  BY DEF SealFrame
<1>5. a \notin Labelled => a \in Seals(item)
  BY <1>0, ItemBlocks
<1>6. CallsNext
  <2>1. ASSUME NEW f \in Frames'
        PROVE  /\ f.at = "seal" /\ f.block = item.block
               /\ f.block \in Range(blocks') \cap Seals(item)
    BY <1>2, <1>3, <1>4, <1>5, <2>1 DEF Activated
  <2> QED
    BY <1>0, <1>2, <2>1 DEF CallsNext
<1>7. [Next]_vars
  BY <1>1 DEF Next, Client
<1>8. MovesInOrder
  <2>1. \A b : b = a /\ a \notin Labelled => IsBeingSealed(b)'
    BY <1>3, <1>4 DEF IsBeingSealed
  <2> QED
    BY <1>2, <2>1 DEF MovesInOrder
<1>9. BlocksInOrder => active' \in terminated'
  <2>1. NeedsEnd(item)
    BY DEF NeedsEnd
  <2> QED
    BY <1>0, <1>2, <2>1 DEF BlocksInOrder, EndsInOrder, active
<1> QED
  BY <1>0, <1>2, <1>6, <1>7, <1>8, <1>9 DEF ClientOK, BlocksWellFormed

LEMMA FinaliseClient ==
  ASSUME VisitorReady, item.do = "finalise", Finalise
  PROVE  ClientOK
<1> DEFINE f == FinaliseFrame(Labelled \cap Range(blocks))
<1>0. calls = <<>> /\ fault = "none" /\ finalised = FALSE
  BY ReadyFacts
<1>1. calls' = <<f>> /\ UNCHANGED <<blocks, preds, fault, finalised>>
  BY <1>0 DEF Finalise, Push, cfgVars
<1>2. Frames' = {f}
  BY <1>1 DEF Frames, Range
<1>3. f.at = "finalise" /\ f.blocks = Labelled \cap Range(blocks)
  BY DEF FinaliseFrame
<1>4. CallsNext
  BY <1>0, <1>1, <1>2, <1>3 DEF CallsNext
<1>5. [Next]_vars
  BY DEF Next, Client
<1>6. MovesInOrder
  BY <1>1 DEF MovesInOrder
<1> QED
  BY <1>0, <1>1, <1>4, <1>5, <1>6 DEF ClientOK, BlocksWellFormed
-----------------------------------------------------------------------------
(* The actions that do one item                                            *)

(* Registers are kept and loops left only by the items that do so.         *)
LEMMA OthersLeave ==
  ASSUME VisitorTypes, UNCHANGED <<held, loops>>,
         item.do \notin {"keep", "loop", "exit"}
  PROVE  HeldNext /\ \A s : LoopsNext(s)
<1>1. \A k \in DOMAIN held : held[k] \in Reg \cup {NoReg}
  BY DEF VisitorTypes
<1> QED
  BY <1>1 DEF HeldNext, LoopsNext

(* An item is done, and nothing takes its place.                           *)
LEMMA DoneFollows ==
  ASSUME VisitorReady, ClientOK, Done, HeldNext, LoopsNext(<<>>),
         UNCHANGED <<blockCount, labelCount, tempCount>>,
         item.do # "hold",
         BlocksInOrder /\ fault' = "none" /\ Ends(item)
           => active' \in terminated',
         item.do = "visit" /\ item.block \in Labelled
           => item.block \in Range(blocks)
  PROVE  VisitKeeps
<1>0. VisitorTypes /\ todo # <<>> /\ AtItem
  BY ReadyFacts DEF VisitorReady
<1>1. todo' = <<>> \o Tail(todo) /\ <<>> \in Seq(Item)
  BY <1>0 DEF Done, VisitorTypes
<1>2. /\ blockCount' \in blockCount..MaxBlocks
      /\ labelCount' \in labelCount..Cardinality(Labelled)
      /\ tempCount' \in 0..Len(Temps)
  BY <1>0, FlowAssumption DEF VisitorTypes
<1>3. Unfolds(<<>>)
  BY <1>0, <1>1, <1>2 DEF Unfolds, UsesScoped, ClientOK
<1>4. Range(blocks) \subseteq Range(blocks')
  BY BlocksGrow, NextSSA, ReadyFacts DEF ClientOK, InductiveSSA
<1>5. BlocksInOrder /\ fault' = "none" => ItemsInOrder(<<>>)
  BY <1>4 DEF ItemsInOrder
<1>6. Fulfils(<<>>)
  BY <1>3, <1>5 DEF Fulfils, ClientOK
<1> QED
  BY <1>6 DEF VisitKeeps

(* An item whose place others take.                                        *)
LEMMA ExpandFollows ==
  ASSUME VisitorReady, ClientOK, NEW s \in Seq(Item), Expand(s),
         blockCount' \in blockCount..MaxBlocks,
         UNCHANGED <<labelCount, tempCount>>,
         item.do # "finalise", item.do = "hold" => s = <<Keep(item.key)>>,
         HeldNext, LoopsNext(s),
         \A j \in DOMAIN s : MayFollow(s[j]), UsesScoped(s),
         BlocksInOrder /\ LabelsWillBeFound /\ fault' = "none"
           => ItemsInOrder(s)
  PROVE  VisitKeeps
<1>0. VisitorTypes /\ todo # <<>> /\ AtItem
  BY ReadyFacts DEF VisitorReady
<1>1. /\ labelCount' \in labelCount..Cardinality(Labelled)
      /\ tempCount' \in 0..Len(Temps)
  BY <1>0 DEF VisitorTypes
<1>2. Unfolds(s)
  BY <1>0, <1>1 DEF Unfolds, ClientOK, Expand
<1>3. Fulfils(s)
  BY <1>2 DEF Fulfils, ClientOK
<1> QED
  BY <1>3 DEF VisitKeeps

LEMMA DoGotoKeeps ==
  ASSUME VisitorReady, DoGoto
  PROVE  VisitKeeps
<1>0. /\ item.do = "goto" /\ item \in Item /\ VisitorTypes
      /\ item.block \in Block /\ Targets(item) = {item.block}
  BY ReadyFacts, ItemFields, ItemBlocks DEF DoGoto, Doing
<1>1. /\ Done /\ UNCHANGED <<held, loops, blockCount, labelCount, tempCount>>
  BY DEF DoGoto, Only
<1>2. HeldNext /\ LoopsNext(<<>>)
  BY <1>0, <1>1, OthersLeave
<1>3. CASE active \in terminated /\ UNCHANGED vars
  <2>1. ClientOK
    BY <1>0, <1>3, QuietClient DEF vars, cfgVars, callVars
  <2>2. active' \in terminated'
    BY <1>3 DEF vars, cfgVars, active
  <2> QED
    BY <1>0, <1>1, <1>2, <2>1, <2>2, DoneFollows
<1>4. CASE MayTerminate({item.block}) /\ Terminate({item.block})
  <2>1. ClientOK /\ (fault' = "none" => active' \in terminated')
    BY <1>0, <1>4, JumpClient
  <2> QED
    BY <1>0, <1>1, <1>2, <2>1, DoneFollows
<1> QED
  BY <1>3, <1>4 DEF DoGoto

LEMMA DoActivateKeeps ==
  ASSUME VisitorReady, DoActivate \/ DoOpen
  PROVE  VisitKeeps
<1>0. item.do \in {"activate", "open"} /\ item \in Item /\ VisitorTypes
  BY ReadyFacts DEF DoActivate, DoOpen, Doing
<1>1. /\ Done /\ UNCHANGED <<held, loops, blockCount, labelCount, tempCount>>
  BY DEF DoActivate, DoOpen, Only
<1>2. HeldNext /\ LoopsNext(<<>>)
  BY <1>0, <1>1, OthersLeave
<1>3. ClientOK
  BY <1>0, ActivateClient DEF DoActivate, DoOpen, Doing
<1>4. ~Ends(item)
  BY <1>0, ItemBlocks
<1> QED
  BY <1>0, <1>1, <1>2, <1>3, <1>4, DoneFollows

LEMMA DoCloseKeeps ==
  ASSUME VisitorReady, DoClose
  PROVE  VisitKeeps
<1>0. item.do = "close" /\ item \in Item /\ VisitorTypes
  BY ReadyFacts DEF DoClose, Doing
<1>1. /\ Done /\ UNCHANGED <<held, loops, blockCount, labelCount, tempCount>>
  BY DEF DoClose, Only
<1>2. HeldNext /\ LoopsNext(<<>>)
  BY <1>0, <1>1, OthersLeave
<1>3. ClientOK /\ (BlocksInOrder => active' \in terminated')
  BY <1>0, CloseClient DEF DoClose
<1> QED
  BY <1>0, <1>1, <1>2, <1>3, DoneFollows

LEMMA DoBranchKeeps ==
  ASSUME VisitorReady, DoBranch
  PROVE  VisitKeeps
<1>0. /\ item.do = "branch" /\ item \in Item /\ VisitorTypes
      /\ item.targets \subseteq Block /\ Targets(item) = item.targets
  BY ReadyFacts, ItemFields, ItemBlocks DEF DoBranch, Doing
<1>1. /\ Done /\ UNCHANGED <<held, loops, blockCount, labelCount, tempCount>>
  BY DEF DoBranch, Only
<1>2. HeldNext /\ LoopsNext(<<>>)
  BY <1>0, <1>1, OthersLeave
<1>3. ClientOK /\ (fault' = "none" => active' \in terminated')
  BY <1>0, JumpClient DEF DoBranch
<1> QED
  BY <1>0, <1>1, <1>2, <1>3, DoneFollows

LEMMA EndFunctionKeeps ==
  ASSUME VisitorReady, EndFunction
  PROVE  VisitKeeps
<1>0. /\ item.do = "end" /\ item \in Item /\ VisitorTypes
      /\ Targets(item) = {} /\ ~Ends(item)
  BY ReadyFacts, ItemBlocks DEF EndFunction, Doing
<1>1. /\ Done /\ UNCHANGED <<held, loops, blockCount, labelCount, tempCount>>
  BY DEF EndFunction, Only
<1>2. HeldNext /\ LoopsNext(<<>>)
  BY <1>0, <1>1, OthersLeave
<1>3. ClientOK
  <2>1. CASE UNCHANGED vars
    BY <1>0, <2>1, QuietClient DEF vars, cfgVars, callVars
  <2>2. CASE MayTerminate({}) /\ Terminate({})
    BY <1>0, <2>2, JumpClient
  <2> QED
    BY <2>1, <2>2 DEF EndFunction
<1> QED
  BY <1>0, <1>1, <1>2, <1>3, DoneFollows

LEMMA DoFinaliseKeeps ==
  ASSUME VisitorReady, DoFinalise
  PROVE  VisitKeeps
<1>0. item.do = "finalise" /\ item \in Item /\ VisitorTypes /\ ~Ends(item)
  BY ReadyFacts, ItemBlocks DEF DoFinalise, Doing
<1>1. /\ Done /\ UNCHANGED <<held, loops, blockCount, labelCount, tempCount>>
  BY DEF DoFinalise, Only
<1>2. HeldNext /\ LoopsNext(<<>>)
  BY <1>0, <1>1, OthersLeave
<1>3. ClientOK
  BY <1>0, FinaliseClient DEF DoFinalise
<1> QED
  BY <1>0, <1>1, <1>2, <1>3, DoneFollows

(* A register that a handler has kept is still defined when it is used.    *)
LEMMA UseOfKept ==
  ASSUME VisitorReady, item.do = "useHeld"
  PROVE  held[item.key] \in DefinedRegs
<1>0. /\ 1 \in DOMAIN todo /\ item = todo[1] /\ item \in Item
      /\ VisitorTypes /\ HandlersKeep
  BY ReadyFacts DEF VisitorReady
<1>1. KeysOf(todo[1]) = {item.key}
  BY <1>0, ItemBlocks
<1>2. item.key \in DOMAIN held
  <2>1. ~(\E h \in 1..(1 - 1) : KeepsAs(todo[h], item.key))
    OBVIOUS
  <2> QED
    BY <1>0, <1>1, <2>1 DEF HandlersKeep, KeysScoped
<1> QED
  BY <1>0, <1>1, <1>2 DEF HandlersKeep, KeptIsDefined, IsKept

LEMMA OpsKeep ==
  ASSUME VisitorReady, DoAssign \/ DoUse \/ DoUseHeld
  PROVE  VisitKeeps
<1>0. /\ item.do \in {"assign", "use", "useHeld"}
      /\ item \in Item /\ VisitorTypes /\ ~Ends(item)
  BY ReadyFacts, ItemBlocks DEF DoAssign, DoUse, DoUseHeld, Doing
<1>1. /\ Done /\ UNCHANGED <<held, loops, blockCount, labelCount, tempCount>>
  BY DEF DoAssign, DoUse, DoUseHeld, Only
<1>2. HeldNext /\ LoopsNext(<<>>)
  BY <1>0, <1>1, OthersLeave
<1>3. CASE DoAssign
  <2>1. item.var \in Var /\ Assign(item.var) /\ NumOps < MaxOps
    BY <1>0, <1>3, ItemFields DEF DoAssign, Doing, MayAddOp
  <2>2. [Next]_vars /\ UNCHANGED <<blocks, preds, calls, fault, finalised>>
    BY <2>1 DEF Next, Client, Assign, callVars
  <2>3. ClientOK
    BY <1>0, <2>2, QuietClient
  <2> QED
    BY <1>0, <1>1, <1>2, <2>3, DoneFollows
<1>4. CASE DoUse
  <2>1. ClientOK
    BY <1>0, <1>4, ItemFields, ReadClient DEF DoUse, Doing
  <2> QED
    BY <1>0, <1>1, <1>2, <2>1, DoneFollows
<1>5. CASE DoUseHeld
  <2>1. item.do = "useHeld" /\ AddUseOf(held[item.key]) /\ NumOps < MaxOps
    BY <1>5 DEF DoUseHeld, Doing, MayAddOp
  <2>2. UseHeld(held[item.key]) /\ held[item.key] \in DefinedRegs
    BY <2>1, UseOfKept DEF AddUseOf, UseHeld
  <2>3. [Next]_vars /\ UNCHANGED <<blocks, preds, calls, fault, finalised>>
    BY <2>1, <2>2 DEF Next, Client, UseHeld, callVars
  <2>4. ClientOK
    BY <1>0, <2>3, QuietClient
  <2> QED
    BY <1>0, <1>1, <1>2, <2>4, DoneFollows
<1> QED
  BY <1>3, <1>4, <1>5

LEMMA DoKeepKeeps ==
  ASSUME VisitorReady, DoKeep
  PROVE  VisitKeeps
<1>0. item.do = "keep" /\ item \in Item /\ VisitorTypes /\ ~Ends(item)
  BY ReadyFacts, ItemBlocks DEF DoKeep, Doing
<1>1. Done /\ UNCHANGED <<vars, loops, blockCount, labelCount, tempCount>>
  BY DEF DoKeep
<1>2. held' = [k \in DOMAIN held \cup {item.key} |->
                IF k = item.key THEN ret ELSE held[k]]
  BY DEF DoKeep
<1>3. ret \in Reg \cup {NoReg}
  BY ReadyFacts DEF TypeOK
<1>4. HeldNext
  BY <1>0, <1>2, <1>3 DEF HeldNext, VisitorTypes
<1>5. LoopsNext(<<>>)
  BY <1>0, <1>1 DEF LoopsNext
<1>6. ClientOK
  BY <1>0, <1>1, QuietClient DEF vars, cfgVars, callVars
<1> QED
  BY <1>0, <1>1, <1>4, <1>5, <1>6, DoneFollows

LEMMA DoReleaseKeeps ==
  ASSUME VisitorReady, DoRelease
  PROVE  VisitKeeps
<1>0. item.do = "release" /\ item \in Item /\ VisitorTypes /\ ~Ends(item)
  BY ReadyFacts, ItemBlocks DEF DoRelease, Doing
<1>1. Done /\ UNCHANGED <<vars, loops, blockCount, labelCount, tempCount>>
  BY DEF DoRelease
<1>2. held' = [k \in DOMAIN held \ item.keys |-> held[k]]
  BY DEF DoRelease, Restrict
<1>4. HeldNext
  BY <1>0, <1>2 DEF HeldNext, VisitorTypes
<1>5. LoopsNext(<<>>)
  BY <1>0, <1>1 DEF LoopsNext
<1>6. ClientOK
  BY <1>0, <1>1, QuietClient DEF vars, cfgVars, callVars
<1> QED
  BY <1>0, <1>1, <1>4, <1>5, <1>6, DoneFollows

LEMMA DoExitLoopKeeps ==
  ASSUME VisitorReady, DoExitLoop
  PROVE  VisitKeeps
<1>0. item.do = "exit" /\ item \in Item /\ VisitorTypes /\ ~Ends(item)
  BY ReadyFacts, ItemBlocks DEF DoExitLoop, Doing
<1>1. Done /\ UNCHANGED <<vars, held, blockCount, labelCount, tempCount>>
  BY DEF DoExitLoop
<1>4. HeldNext
  BY <1>0, <1>1 DEF HeldNext, VisitorTypes
<1>5. LoopsNext(<<>>)
  BY <1>0 DEF LoopsNext, DoExitLoop
<1>6. ClientOK
  BY <1>0, <1>1, QuietClient DEF vars, cfgVars, callVars
<1> QED
  BY <1>0, <1>1, <1>4, <1>5, <1>6, DoneFollows

LEMMA EndBodyKeeps ==
  ASSUME VisitorReady, EndBody
  PROVE  VisitKeeps
<1>0. /\ item.do = "statements" /\ item \in Item /\ VisitorTypes
      /\ ~Ends(item)
  BY ReadyFacts, ItemBlocks DEF EndBody, Doing
<1>1. /\ Done /\ UNCHANGED <<held, loops, blockCount, labelCount, tempCount>>
      /\ UNCHANGED vars
  BY DEF EndBody, Only
<1>2. HeldNext /\ LoopsNext(<<>>)
  BY <1>0, <1>1, OthersLeave
<1>3. ClientOK
  BY <1>0, <1>1, QuietClient DEF vars, cfgVars, callVars
<1> QED
  BY <1>0, <1>1, <1>2, <1>3, DoneFollows

-----------------------------------------------------------------------------
(* The actions that put other items in the place of one                    *)

LEMMA DoHoldKeeps ==
  ASSUME VisitorReady, DoHold
  PROVE  VisitKeeps
<1> DEFINE s == <<Keep(item.key)>>
<1>0. item.do = "hold" /\ item \in Item /\ VisitorTypes /\ ~Ends(item)
  BY ReadyFacts, ItemBlocks DEF DoHold, Doing
<1>1. /\ Expand(s) /\ ReadVariable(item.var) /\ MayRead
      /\ UNCHANGED <<held, loops, blockCount, labelCount, tempCount>>
  BY DEF DoHold, Only
<1>2. item.var \in Var /\ item.key \in Nat
  BY <1>0, ItemFields
<1>3. HeldNext /\ LoopsNext(s)
  BY <1>0, <1>1, OthersLeave
<1>4. ClientOK
  BY <1>0, <1>1, <1>2, ReadClient
<1>5. s \in Seq(Item)
  BY <1>2 DEF Keep, Item
<1>6. s[1].do = "keep" /\ s[1] \in Item /\ DOMAIN s = {1} /\ Len(s) = 1
  BY <1>2 DEF Keep, Item
<1> HIDE DEF s
<1>7. /\ KeysOf(s[1]) = {} /\ Activates(s[1]) = {} /\ NeedsOpen(s[1]) = {}
      /\ Seals(s[1]) = {} /\ Targets(s[1]) = {} /\ ~NeedsEnd(s[1])
  BY <1>6, ItemBlocks DEF NeedsEnd
<1>8. (\A j \in DOMAIN s : MayFollow(s[j])) /\ UsesScoped(s)
  BY <1>0, <1>6, <1>7 DEF MayFollow, UsesScoped
<1>9. ItemsInOrder(s)
  BY <1>0, <1>6, <1>7 DEF ItemsInOrder, ItemInOrder
<1>10. blockCount' \in blockCount..MaxBlocks
  BY <1>0, <1>1, FlowAssumption DEF VisitorTypes
<1> QED
  BY <1>0, <1>1, <1>3, <1>4, <1>5, <1>8, <1>9, <1>10, ExpandFollows DEF s

LEMMA DoLoopKeeps ==
  ASSUME VisitorReady, DoLoop
  PROVE  VisitKeeps
<1> DEFINE s == <<Body, ExitLoop>>
<1>0. item.do = "loop" /\ item \in Item /\ VisitorTypes /\ ~Ends(item)
  BY ReadyFacts, ItemBlocks DEF DoLoop, Doing
<1>1. /\ Expand(s)
      /\ UNCHANGED <<vars, held, blockCount, labelCount, tempCount>>
  BY DEF DoLoop
<1>3. HeldNext
  BY <1>0, <1>1 DEF HeldNext, VisitorTypes
<1>2. LoopsNext(s)
  BY <1>0 DEF LoopsNext, LoopOf, DoLoop
<1>4. ClientOK
  BY <1>0, <1>1, QuietClient DEF vars, cfgVars, callVars
<1>5. Body \in Item /\ ExitLoop \in Item
  BY DEF Body, ExitLoop, Item
<1>6. /\ s \in Seq(Item) /\ Len(s) = 2 /\ DOMAIN s = {1, 2}
      /\ s[1].do = "statements" /\ s[2].do = "exit"
      /\ s[1] \in Item /\ s[2] \in Item
  BY <1>5 DEF Body, ExitLoop
<1> HIDE DEF s
<1>7. \A j \in DOMAIN s :
        /\ KeysOf(s[j]) = {} /\ Activates(s[j]) = {} /\ NeedsOpen(s[j]) = {}
        /\ Seals(s[j]) = {} /\ Targets(s[j]) = {} /\ ~NeedsEnd(s[j])
        /\ s[j].do \in {"statements", "exit"}
  BY <1>6, ItemBlocks DEF NeedsEnd
<1>8. (\A j \in DOMAIN s : MayFollow(s[j])) /\ UsesScoped(s)
  BY <1>0, <1>7 DEF MayFollow, UsesScoped
<1>9. ItemsInOrder(s)
  <2>1. \A j \in DOMAIN s : ItemInOrder(s, j)
    BY <1>7 DEF ItemInOrder
  <2> QED
    BY <1>0, <1>6, <1>7, <2>1 DEF ItemsInOrder
<1>10. blockCount' \in blockCount..MaxBlocks
  BY <1>0, <1>1, FlowAssumption DEF VisitorTypes
<1>11. UNCHANGED <<labelCount, tempCount>>
  BY <1>1
<1> QED
  BY <1>0, <1>1, <1>2, <1>3, <1>4, <1>6, <1>8, <1>9, <1>10, <1>11,
     ExpandFollows
-----------------------------------------------------------------------------
(* The items of a handler.  A plan says at which of the items each of the  *)
(* blocks the handler creates is sealed, from which item on it may be used *)
(* as the name of a register that is kept, by which item these are dropped,*)
(* which items end the active block, which other blocks the handler jumps  *)
(* to, and which it opens.                                                 *)

Place(p, b) == p[b - blockCount]

Fits(pl, j, x) ==
  /\ x \in Item
  /\ x.do \notin {"keep", "exit", "visit", "finalise"}
  /\ Activates(x) \subseteq Fresh \cup pl.outer
  /\ \A b \in Seals(x) : b \in Fresh /\ Place(pl.seal, b) = j
  /\ \A b \in NeedsOpen(x) :
       b \in pl.outer \/ (b \in Fresh /\ j <= Place(pl.seal, b))
  /\ \A k \in KeysOf(x) :
       /\ k \in Fresh /\ 0 < Place(pl.hold, k)
       /\ Place(pl.hold, k) < j /\ j < pl.last
  /\ x.do = "hold" => x.key \in Fresh
  /\ x.do = "release" => x.keys \subseteq Fresh
  /\ x.do = "close" => x.block \in Fresh
  /\ x.do \in {"release", "close"} => pl.last <= j
  /\ x.do = "open" => /\ x.block \in Fresh \cap pl.open
                      /\ j < Place(pl.seal, x.block)
  /\ x.do = "try" => ThenInOrder(x)
  /\ NeedsEnd(x) => j - 1 \in pl.ends
  /\ j \in pl.ends => Ends(x)

Works(pl, s) ==
  /\ s \in Seq(Item) /\ s # <<>>
  /\ \A b \in Fresh : Place(pl.seal, b) \in Nat /\ Place(pl.hold, b) \in Nat
  /\ pl.last \in Nat
  /\ 0 \notin pl.ends
  /\ \A k \in Fresh : Place(pl.hold, k) > 0 =>
       /\ Place(pl.hold, k) \in DOMAIN s
       /\ KeepsAs(s[Place(pl.hold, k)], k)
  /\ \A b \in pl.open :
       /\ Place(pl.seal, b) \in DOMAIN s
       /\ s[Place(pl.seal, b)].do = "close"
       /\ s[Place(pl.seal, b)].block = b
  /\ \A j \in DOMAIN s : Fits(pl, j, s[j])

(* The items around a loop with an else.                                   *)
Plain(x) ==
  /\ x \in Item /\ x.do \in {"statements", "visit"}
  /\ x.do = "visit" => x.block \in {NoLabel} \cup (Labelled \cap Created')

LEMMA FreshBlocks ==
  ASSUME VisitorTypes, blockCount' \in blockCount..MaxBlocks,
         labelCount' \in labelCount..Cardinality(Labelled)
  PROVE  /\ Created \subseteq Created' /\ Fresh \subseteq Created'
         /\ Fresh \cap Created = {} /\ Fresh \cap Labelled = {}
         /\ Fresh \subseteq Block /\ Fresh \subseteq Nat
         /\ NoLabel \notin Fresh /\ NoLabel \notin Labelled
         /\ Created' \subseteq Block
         /\ blockCount \in Nat /\ blockCount' \in Nat
<1>1. /\ blockCount \in Nat /\ blockCount' \in Nat
      /\ blockCount <= blockCount' /\ blockCount' <= MaxBlocks
      /\ labelCount \in Nat /\ labelCount' \in Nat
      /\ labelCount <= labelCount' /\ MaxBlocks \in Nat
      /\ labelCount' <= Cardinality(Labelled) /\ Cardinality(Labelled) \in Nat
  <2>1. MaxBlocks \in Nat
    BY FlowAssumption
  <2>2. /\ blockCount \in 0..MaxBlocks
        /\ labelCount \in 0..Cardinality(Labelled)
    BY DEF VisitorTypes
  <2>3. Cardinality(Labelled) \in Nat
    BY FS_CardinalityType, FlowAssumption
  <2> QED
    BY <2>1, <2>2, <2>3
<1>2. /\ Labelled = (MaxBlocks + 1)..(MaxBlocks + Cardinality(Labelled))
      /\ Block = (0..MaxBlocks) \cup Labelled
  BY FlowAssumption
<1>3. /\ NewLabels \subseteq NewLabels' /\ NewLabels' \subseteq Labelled
      /\ Fresh \cap NewLabels = {} /\ Fresh \cap Labelled = {}
  <2>1. \A l, n \in Nat : l <= n =>
          (MaxBlocks + 1)..(MaxBlocks + l) \subseteq
            (MaxBlocks + 1)..(MaxBlocks + n)
    BY <1>1
  <2>2. /\ NewLabels \subseteq NewLabels' /\ NewLabels' \subseteq Labelled
    BY <1>1, <1>2, <2>1 DEF NewLabels
  <2>3. \A b \in Labelled : b \notin Fresh
    BY <1>1, <1>2 DEF Fresh
  <2>4. Fresh \cap NewLabels = {}
    BY <1>1 DEF Fresh, NewLabels
  <2> QED
    BY <2>2, <2>3, <2>4
<1>4. /\ 0..blockCount \subseteq 0..blockCount'
      /\ Fresh \subseteq 0..blockCount' /\ Fresh \cap (0..blockCount) = {}
      /\ 0..blockCount' \subseteq 0..MaxBlocks /\ Fresh \subseteq Nat
      /\ NoLabel \notin Fresh /\ NoLabel \notin Labelled
  BY <1>1, <1>2 DEF Fresh, NoLabel
<1> QED
  BY <1>1, <1>2, <1>3, <1>4 DEF Created

LEMMA PlainItems ==
  ASSUME NEW x, Plain(x), VisitorTypes,
         blockCount' \in blockCount..MaxBlocks,
         labelCount' \in labelCount..Cardinality(Labelled)
  PROVE  /\ KeysOf(x) = {} /\ Seals(x) = {} /\ NeedsOpen(x) = {}
         /\ Targets(x) = {} /\ ~NeedsEnd(x)
         /\ Activates(x) \subseteq Created' \ Fresh
<1>1. Fresh \cap Labelled = {}
  BY FreshBlocks
<1>2. x \in Item /\ x.do \in {"statements", "visit"}
  BY DEF Plain
<1>3. /\ KeysOf(x) = {} /\ Seals(x) = {} /\ NeedsOpen(x) = {}
      /\ Targets(x) = {} /\ ~NeedsEnd(x)
  BY <1>2, ItemBlocks DEF Plain, NeedsEnd
<1>4. Activates(x) \subseteq Created' \ Fresh
  BY <1>1, <1>2 DEF Plain, Activates, Enters
<1> QED
  BY <1>3, <1>4

(* A step that puts the items t, with those of a handler that follows its  *)
(* plan among them, in the place of the first item.                        *)
Unfolding(t, s, a, pl) ==
  /\ VisitorReady /\ UNCHANGED <<vars, held, loops>>
  /\ blockCount' \in blockCount..MaxBlocks
  /\ labelCount' \in labelCount..Cardinality(Labelled)
  /\ tempCount' \in 0..Len(Temps)
  /\ item.do \in {"statements", "cond", "visit"}
  /\ t \in Seq(Item) /\ t # <<>> /\ Expand(t)
  /\ Works(pl, s)
  /\ a \in Nat /\ a + Len(s) <= Len(t)
  /\ \A j \in DOMAIN s : t[a + j] = s[j]
  /\ \A j \in DOMAIN t : j \in (a + 1)..(a + Len(s)) \/ Plain(t[j])
  /\ \A x \in Range(s) : x.do = "close" => item.do = "statements"
  /\ pl.outer \subseteq Created' \ Fresh

(* An item of t is an item of the handler or a plain one.                  *)
LEMMA InHandler ==
  ASSUME NEW t, NEW s, NEW a, NEW pl, Unfolding(t, s, a, pl), NEW j \in DOMAIN t
  PROVE  \/ \E i \in DOMAIN s : /\ i \in Nat /\ j = a + i /\ t[j] = s[i]
                                /\ Fits(pl, i, t[j])
         \/ Plain(t[j]) /\ t[j] \in Item
<1>1. CASE Plain(t[j])
  BY <1>1 DEF Plain
<1>2. CASE j \in (a + 1)..(a + Len(s))
  <2>1. /\ a \in Nat /\ Len(s) \in Nat /\ DOMAIN s = 1..Len(s)
        /\ \A i \in DOMAIN s : t[a + i] = s[i]
    BY DEF Unfolding, Works
  <2>2. j - a \in DOMAIN s /\ j = a + (j - a) /\ j - a \in Nat
    BY <1>2, <2>1
  <2>3. t[j] = s[j - a]
    <3>1. t[a + (j - a)] = s[j - a]
      BY <2>1, <2>2
    <3> QED
      BY <2>2, <3>1
  <2> QED
    BY <2>2, <2>3 DEF Unfolding, Works
<1> QED
  BY <1>1, <1>2 DEF Unfolding

LEMMA UnfoldingScoped ==
  ASSUME NEW t, NEW s, NEW a, NEW pl, Unfolding(t, s, a, pl)
  PROVE  (\A j \in DOMAIN t : MayFollow(t[j])) /\ UsesScoped(t)
<1>0. /\ VisitorTypes /\ blockCount' \in blockCount..MaxBlocks
      /\ labelCount' \in labelCount..Cardinality(Labelled)
      /\ a \in Nat /\ t \in Seq(Item) /\ s \in Seq(Item)
      /\ Len(t) \in Nat /\ Len(s) \in Nat
      /\ DOMAIN t = 1..Len(t) /\ DOMAIN s = 1..Len(s)
      /\ a + Len(s) <= Len(t)
      /\ \A j \in DOMAIN s : t[a + j] = s[j]
  BY ReadyFacts DEF Unfolding, Works
<1>1. /\ Fresh \subseteq Created' /\ pl.outer \subseteq Created' \ Fresh
  BY <1>0, FreshBlocks DEF Unfolding
<1>2. ASSUME NEW j \in DOMAIN t
      PROVE  MayFollow(t[j])
  <2>1. CASE Plain(t[j])
    <3>1. t[j] \in Item /\ t[j].do \in {"statements", "visit"}
      BY <2>1 DEF Plain
    <3> QED
      BY <1>0, <2>1, <3>1, PlainItems DEF MayFollow
  <2>2. CASE \E i \in DOMAIN s : t[j] = s[i] /\ Fits(pl, i, t[j])
    <3>1. PICK i \in DOMAIN s : t[j] = s[i] /\ Fits(pl, i, t[j])
      BY <2>2
    <3>2. t[j].do = "close" => item.do = "statements"
      BY <3>1 DEF Unfolding, Range
    <3>3. Activates(t[j]) \cup NeedsOpen(t[j]) \subseteq Created'
      BY <1>1, <3>1 DEF Fits
    <3> QED
      BY <3>1, <3>2, <3>3 DEF MayFollow, Fits
  <2> QED
    BY <2>1, <2>2, InHandler
<1>3. ASSUME NEW j \in DOMAIN t, NEW k \in KeysOf(t[j])
      PROVE  \E h \in 1..(j - 1) : KeepsAs(t[h], k)
  <2>1. ~Plain(t[j])
    BY <1>0, <1>3, PlainItems
  <2>2. PICK i \in DOMAIN s : i \in Nat /\ j = a + i /\ Fits(pl, i, t[j])
    BY <2>1, InHandler
  <2>3. /\ k \in Fresh /\ 0 < Place(pl.hold, k) /\ Place(pl.hold, k) < i
    BY <1>3, <2>2 DEF Fits
  <2>4. PICK h : h = Place(pl.hold, k)
    OBVIOUS
  <2>5. h \in DOMAIN s /\ KeepsAs(s[h], k) /\ h \in Nat
    BY <2>3, <2>4 DEF Unfolding, Works
  <2>6. t[a + h] = s[h] /\ a + h \in 1..(j - 1)
    BY <1>0, <2>2, <2>3, <2>4, <2>5
  <2> QED
    BY <2>5, <2>6
<1>4. ASSUME NEW i \in DOMAIN t, NEW j \in DOMAIN t, i < j,
             t[i].do \in {"release", "close"}, NEW k \in KeysOf(t[j])
      PROVE  FALSE
  <2>1. ~Plain(t[j]) /\ ~Plain(t[i])
    BY <1>0, <1>4, PlainItems DEF Plain
  <2>2. PICK h \in DOMAIN s : h \in Nat /\ j = a + h /\ Fits(pl, h, t[j])
    BY <2>1, InHandler
  <2>3. PICK g \in DOMAIN s : g \in Nat /\ i = a + g /\ Fits(pl, g, t[i])
    BY <2>1, InHandler
  <2>4. h < pl.last /\ pl.last <= g /\ pl.last \in Nat
    BY <1>4, <2>2, <2>3 DEF Fits, Unfolding, Works
  <2> QED
    BY <1>0, <1>4, <2>2, <2>3, <2>4
<1> QED
  BY <1>2, <1>3, <1>4 DEF UsesScoped

LEMMA UnfoldingInOrder ==
  ASSUME NEW t, NEW s, NEW a, NEW pl, Unfolding(t, s, a, pl),
         \A b \in pl.outer :
           /\ MayBeTarget(b)
           /\ b \in Labelled =>
                \/ IsWanted(b)
                \/ \E h \in DOMAIN t : /\ t[h].do \in {"activate", "visit"}
                                       /\ t[h].block = b,
         Ends(item) => Ends(t[Len(t)]),
         item.do = "visit" /\ item.block \in Labelled =>
           \E h \in DOMAIN t : t[h].do = "activate" /\ t[h].block = item.block
  PROVE  ItemsInOrder(t)
<1>0. /\ VisitorTypes /\ blockCount' \in blockCount..MaxBlocks
      /\ labelCount' \in labelCount..Cardinality(Labelled)
      /\ a \in Nat /\ t \in Seq(Item) /\ s \in Seq(Item)
      /\ Len(t) \in Nat /\ Len(s) \in Nat
      /\ DOMAIN t = 1..Len(t) /\ DOMAIN s = 1..Len(s)
      /\ a + Len(s) <= Len(t) /\ t # <<>>
      /\ \A j \in DOMAIN s : t[a + j] = s[j]
  BY ReadyFacts DEF Unfolding, Works
<1>1. /\ Fresh \cap Labelled = {} /\ pl.outer \subseteq Created' \ Fresh
  BY <1>0, FreshBlocks DEF Unfolding
<1>2. \A b : MayBeTarget(b) => MayBeTarget(b)'
  BY DEF MayBeTarget, IsBeingSealed, Frames, Unfolding, vars, ssaVars, callVars
<1>3. ASSUME NEW j \in DOMAIN t, NEW b \in NeedsOpen(t[j])
      PROVE  /\ b \in Fresh \/ MayBeTarget(b)'
             /\ \A i \in 1..(j - 1) : b \notin Seals(t[i])
  <2>1. ~Plain(t[j])
    BY <1>0, <1>3, PlainItems
  <2>2. PICK h \in DOMAIN s : h \in Nat /\ j = a + h /\ Fits(pl, h, t[j])
    BY <2>1, InHandler
  <2>3. b \in pl.outer \/ (b \in Fresh /\ h <= Place(pl.seal, b))
    BY <1>3, <2>2 DEF Fits
  <2>4. ASSUME NEW i \in 1..(j - 1), b \in Seals(t[i])
        PROVE  FALSE
    <3>1. i \in DOMAIN t
      BY <1>0
    <3>2. ~Plain(t[i])
      BY <1>0, <2>4, PlainItems
    <3>3. PICK g \in DOMAIN s : g \in Nat /\ i = a + g /\ Fits(pl, g, t[i])
      BY <3>1, <3>2, InHandler
    <3>4. b \in Fresh /\ Place(pl.seal, b) = g
      BY <2>4, <3>3 DEF Fits
    <3>5. h <= g
      BY <1>1, <2>3, <3>4
    <3> QED
      BY <1>0, <2>2, <3>3, <3>5
  <2> QED
    BY <1>2, <2>3, <2>4
<1>4. ASSUME NEW j \in DOMAIN t
      PROVE  ItemInOrder(t, j)
  <2>1. CASE Plain(t[j])
    <3>1. t[j].do \in {"statements", "visit"}
      BY <2>1 DEF Plain
    <3> QED
      BY <1>0, <2>1, <3>1, PlainItems DEF ItemInOrder
  <2>2. CASE \E h \in DOMAIN s : /\ h \in Nat /\ j = a + h
                                 /\ Fits(pl, h, t[j])
    <3>1. PICK h \in DOMAIN s : h \in Nat /\ j = a + h /\ Fits(pl, h, t[j])
      BY <2>2
    <3>2. t[j].do = "try" => ThenInOrder(t[j])
      BY <3>1 DEF Fits
    <3>3. Seals(t[j]) \subseteq Fresh
      BY <3>1 DEF Fits
    <3>4. ASSUME t[j].do = "open"
          PROVE  /\ t[j].block \notin Labelled
                 /\ \E k \in DOMAIN t : /\ j < k /\ t[k].do = "close"
                                        /\ t[k].block = t[j].block
      <4>1. PICK b : b = t[j].block
        OBVIOUS
      <4>2. b \in Fresh \cap pl.open /\ h < Place(pl.seal, b)
        BY <3>1, <3>4, <4>1 DEF Fits
      <4>3. PICK g : g = Place(pl.seal, b)
        OBVIOUS
      <4>4. /\ g \in DOMAIN s /\ s[g].do = "close" /\ s[g].block = b
        BY <4>2, <4>3 DEF Unfolding, Works
      <4>5. a + g \in DOMAIN t /\ j < a + g /\ t[a + g] = s[g]
        BY <1>0, <3>1, <4>2, <4>3, <4>4
      <4> QED
        BY <1>1, <4>1, <4>2, <4>4, <4>5
    <3>5. ASSUME NEW b \in Targets(t[j]) \cap Labelled
          PROVE  \/ IsWanted(b)
                 \/ \E k \in DOMAIN t : /\ t[k].do \in {"activate", "visit"}
                                        /\ t[k].block = b
      <4>1. b \in NeedsOpen(t[j])
        BY DEF NeedsOpen, Targets, JumpsTo
      <4>2. b \in pl.outer
        BY <1>1, <3>1, <4>1 DEF Fits
      <4> QED
        BY <4>2
    <3> QED
      BY <1>3, <3>2, <3>3, <3>4, <3>5 DEF ItemInOrder
  <2> QED
    BY <2>1, <2>2, InHandler
<1>5. ASSUME NEW j \in DOMAIN t, NeedsEnd(t[j])
      PROVE  j - 1 \in DOMAIN t /\ Ends(t[j - 1])
  <2>1. ~Plain(t[j])
    BY <1>0, <1>5, PlainItems
  <2>2. PICK h \in DOMAIN s : h \in Nat /\ j = a + h /\ Fits(pl, h, t[j])
    BY <2>1, InHandler
  <2>3. h - 1 \in pl.ends
    BY <1>5, <2>2 DEF Fits
  <2>4. h - 1 # 0
    BY <2>3 DEF Unfolding, Works
  <2>5. h - 1 \in DOMAIN s /\ a + (h - 1) = j - 1 /\ j - 1 \in DOMAIN t
    BY <1>0, <2>2, <2>4
  <2>6. t[a + (h - 1)] = s[h - 1] /\ Fits(pl, h - 1, s[h - 1])
    BY <1>0, <2>5 DEF Unfolding, Works
  <2> QED
    BY <2>3, <2>5, <2>6 DEF Fits
<1>6. ~NeedsEnd(t[1])
  <2>1. 1 \in DOMAIN t /\ 1 - 1 \notin DOMAIN t
    <3>1. Len(t) # 0
      BY <1>0
    <3> QED
      BY <1>0, <3>1
  <2> QED
    BY <1>5, <2>1
<1>7. ASSUME NEW i \in 1..(Len(t) - 1), NeedsEnd(t[i + 1])
      PROVE  Ends(t[i])
  <2>1. i + 1 \in DOMAIN t /\ (i + 1) - 1 = i
    BY <1>0
  <2> QED
    BY <1>5, <1>7, <2>1
<1> QED
  BY <1>0, <1>4, <1>6, <1>7 DEF ItemsInOrder
LEMMA UnfoldingKeeps ==
  ASSUME NEW t, NEW s, NEW a, NEW pl, Unfolding(t, s, a, pl),
         BlocksInOrder /\ LabelsWillBeFound => \A b \in pl.outer :
           /\ MayBeTarget(b)
           /\ b \in Labelled =>
                \/ IsWanted(b)
                \/ \E h \in DOMAIN t : /\ t[h].do \in {"activate", "visit"}
                                       /\ t[h].block = b,
         Ends(item) => Ends(t[Len(t)]),
         item.do = "visit" /\ item.block \in Labelled =>
           \E h \in DOMAIN t : t[h].do = "activate" /\ t[h].block = item.block
  PROVE  VisitKeeps
<1>0. VisitorReady /\ VisitorTypes /\ AtItem
  BY ReadyFacts DEF Unfolding, VisitorReady
<1>1. HeldNext /\ LoopsNext(t)
  BY <1>0, OthersLeave DEF Unfolding
<1>2. ClientOK
  BY <1>0, QuietClient DEF vars, cfgVars, callVars, Unfolding
<1>3. /\ \A j \in DOMAIN t : MayFollow(t[j])
      /\ UsesScoped(t)
  BY UnfoldingScoped
<1>4. BlocksInOrder /\ LabelsWillBeFound => ItemsInOrder(t)
  BY UnfoldingInOrder
<1>5. Unfolds(t)
  BY <1>0, <1>1, <1>2, <1>3 DEF Unfolds, ClientOK, Unfolding, Expand
<1>6. Fulfils(t)
  BY <1>2, <1>4, <1>5 DEF Fulfils, ClientOK
<1> QED
  BY <1>6 DEF VisitKeeps

-----------------------------------------------------------------------------
(* The items that handlers are made of                                     *)

(* A block that an item may jump to.                                       *)
OpenAt(pl, j, b) ==
  \/ b \in pl.outer \cap Block
  \/ b \in Fresh /\ j <= Place(pl.seal, b)

(* A register that an item may use.                                        *)
KeptAt(pl, j, k) ==
  /\ k \in Fresh /\ 0 < Place(pl.hold, k)
  /\ Place(pl.hold, k) < j /\ j < pl.last

LEMMA Made ==
  /\ \A b \in Block :
       /\ Goto(b) \in Item /\ Goto(b).do = "goto" /\ Goto(b).block = b
       /\ ActivateBlock(b) \in Item /\ ActivateBlock(b).do = "activate"
       /\ ActivateBlock(b).block = b
       /\ OpenBlock(b) \in Item /\ OpenBlock(b).do = "open"
       /\ OpenBlock(b).block = b
       /\ CloseBlock(b) \in Item /\ CloseBlock(b).do = "close"
       /\ CloseBlock(b).block = b
  /\ \A ts \in SUBSET Block :
       /\ Branch(ts) \in Item /\ Branch(ts).do = "branch"
       /\ Branch(ts).targets = ts
  /\ \A t, f \in Block :
       /\ Cond(t, f) \in Item /\ Cond(t, f).do = "cond"
       /\ Cond(t, f).true = t /\ Cond(t, f).false = f
  /\ \A v \in Var :
       /\ AssignTo(v) \in Item /\ AssignTo(v).do = "assign"
       /\ Use(v) \in Item /\ Use(v).do = "use"
  /\ \A k \in Nat :
       /\ UseKept(k) \in Item /\ UseKept(k).do = "useHeld"
       /\ UseKept(k).key = k
       /\ \A v \in Var : /\ Hold(v, k) \in Item /\ Hold(v, k).do = "hold"
                         /\ Hold(v, k).key = k
  /\ \A ks \in SUBSET Nat :
       /\ Release(ks) \in Item /\ Release(ks).do = "release"
       /\ Release(ks).keys = ks
  /\ \A c, b \in Block, l \in Label :
       /\ Loop(c, b, l) \in Item /\ Loop(c, b, l).do = "loop"
       /\ Loop(c, b, l).cont = c /\ Loop(c, b, l).brk = b
       /\ Loop(c, b, l).label = l
  /\ \A l \in Label :
       /\ Visit(l) \in Item /\ Visit(l).do = "visit" /\ Visit(l).block = l
  /\ Body \in Item /\ Body.do = "statements"
<1>1. \A b \in Block :
       /\ Goto(b) \in Item /\ Goto(b).do = "goto" /\ Goto(b).block = b
       /\ ActivateBlock(b) \in Item /\ ActivateBlock(b).do = "activate"
       /\ ActivateBlock(b).block = b
       /\ OpenBlock(b) \in Item /\ OpenBlock(b).do = "open"
       /\ OpenBlock(b).block = b
       /\ CloseBlock(b) \in Item /\ CloseBlock(b).do = "close"
       /\ CloseBlock(b).block = b
  BY DEF Goto, ActivateBlock, OpenBlock, CloseBlock, Item, SimpleItem
<1>2. /\ \A ts \in SUBSET Block :
           /\ Branch(ts) \in Item /\ Branch(ts).do = "branch"
           /\ Branch(ts).targets = ts
      /\ \A t, f \in Block :
           /\ Cond(t, f) \in Item /\ Cond(t, f).do = "cond"
           /\ Cond(t, f).true = t /\ Cond(t, f).false = f
  BY DEF Branch, Cond, Item, SimpleItem
<1>3. /\ \A v \in Var :
           /\ AssignTo(v) \in Item /\ AssignTo(v).do = "assign"
           /\ Use(v) \in Item /\ Use(v).do = "use"
      /\ \A k \in Nat :
           /\ UseKept(k) \in Item /\ UseKept(k).do = "useHeld"
           /\ UseKept(k).key = k
           /\ \A v \in Var : /\ Hold(v, k) \in Item /\ Hold(v, k).do = "hold"
                             /\ Hold(v, k).key = k
  BY DEF AssignTo, Use, UseKept, Hold, Item, SimpleItem
<1>4. /\ \A ks \in SUBSET Nat :
           /\ Release(ks) \in Item /\ Release(ks).do = "release"
           /\ Release(ks).keys = ks
      /\ \A c, b \in Block, l \in Label :
           /\ Loop(c, b, l) \in Item /\ Loop(c, b, l).do = "loop"
           /\ Loop(c, b, l).cont = c /\ Loop(c, b, l).brk = b
           /\ Loop(c, b, l).label = l
      /\ \A l \in Label :
           /\ Visit(l) \in Item /\ Visit(l).do = "visit" /\ Visit(l).block = l
      /\ Body \in Item /\ Body.do = "statements"
  BY DEF Release, Loop, Visit, Body, Item, SimpleItem
<1> QED
  BY <1>1, <1>2, <1>3, <1>4

LEMMA MadeTry ==
  ASSUME NEW b \in Block, NEW s \in Seq(SimpleItem)
  PROVE  /\ TryActivate(b, s) \in Item /\ TryActivate(b, s).do = "try"
         /\ TryActivate(b, s).block = b /\ TryActivate(b, s).then = s
  BY DEF TryActivate, Item

(* An item of a kind that neither activates nor seals a block, nor uses,   *)
(* keeps or drops a register.                                              *)
LEMMA JumpFits ==
  ASSUME NEW pl, NEW j, NEW x \in Item,
         x.do \in {"goto", "branch", "cond", "loop", "assign", "use",
                   "statements"},
         \A b \in Targets(x) : OpenAt(pl, j, b),
         j \in pl.ends => x.do \in {"goto", "branch", "cond"}
  PROVE  Fits(pl, j, x)
  BY ItemBlocks DEF Fits, OpenAt, NeedsEnd

LEMMA KeyFits ==
  ASSUME NEW pl, NEW j, NEW x \in Item, j \notin pl.ends,
         \/ x.do = "useHeld" /\ KeptAt(pl, j, x.key)
         \/ x.do = "hold" /\ x.key \in Fresh
         \/ x.do = "release" /\ x.keys \subseteq Fresh /\ pl.last <= j
  PROVE  Fits(pl, j, x)
<1>1. /\ Activates(x) = {} /\ Seals(x) = {} /\ NeedsOpen(x) = {}
      /\ ~NeedsEnd(x)
      /\ x.do # "useHeld" => KeysOf(x) = {}
      /\ x.do = "useHeld" => KeysOf(x) = {x.key}
  BY ItemBlocks DEF NeedsEnd
<1> QED
  BY <1>1 DEF Fits, KeptAt

LEMMA BlockFits ==
  ASSUME NEW pl, NEW j, NEW x \in Item, j - 1 \in pl.ends,
         j \in pl.ends => x.do = "close",
         \/ /\ x.do = "activate" /\ x.block \in Fresh
            /\ Place(pl.seal, x.block) = j
         \/ x.do = "activate" /\ x.block \in pl.outer \cap Labelled
         \/ x.do = "open" /\ x.block \in Fresh \cap pl.open
            /\ j < Place(pl.seal, x.block)
         \/ x.do = "close" /\ x.block \in Fresh /\ j \in Nat
            /\ Place(pl.seal, x.block) = j /\ pl.last <= j
  PROVE  Fits(pl, j, x)
<1>1. /\ x.do = "close" => Activates(x) = {} /\ NeedsOpen(x) = {x.block}
      /\ x.do # "close" => Activates(x) = {x.block} /\ NeedsOpen(x) = {}
      /\ Seals(x) \subseteq {x.block} /\ Seals(x) \cap Labelled = {}
      /\ x.do = "open" => Seals(x) = {}
      /\ KeysOf(x) = {}
      /\ x.do = "close" => Ends(x)
  BY ItemBlocks
<1>2. x.do = "close" => j <= Place(pl.seal, x.block)
  OBVIOUS
<1> QED
  BY <1>1, <1>2 DEF Fits

(* The same for the items by the names the handlers are written with.      *)
LEMMA ItemsFit ==
  ASSUME VisitorTypes, blockCount' \in blockCount..MaxBlocks,
         labelCount' \in labelCount..Cardinality(Labelled),
         NEW pl, NEW j \in Nat
  PROVE  /\ \A b : OpenAt(pl, j, b) => Fits(pl, j, Goto(b))
         /\ \A ts : (\A b \in ts : OpenAt(pl, j, b)) => Fits(pl, j, Branch(ts))
         /\ \A t, f : OpenAt(pl, j, t) /\ OpenAt(pl, j, f)
                        => Fits(pl, j, Cond(t, f))
         /\ \A v \in Var : j \notin pl.ends =>
              Fits(pl, j, AssignTo(v)) /\ Fits(pl, j, Use(v))
         /\ j \notin pl.ends => Fits(pl, j, Body)
         /\ \A k : KeptAt(pl, j, k) /\ j \notin pl.ends
                     => Fits(pl, j, UseKept(k))
         /\ \A v \in Var, k \in Fresh : j \notin pl.ends
                                          => Fits(pl, j, Hold(v, k))
         /\ \A ks \in SUBSET Fresh : j \notin pl.ends /\ pl.last <= j
                                       => Fits(pl, j, Release(ks))
         /\ \A c, b : \A l \in {NoLabel} \cup (pl.outer \cap Labelled) :
              OpenAt(pl, j, c) /\ OpenAt(pl, j, b) /\ j \notin pl.ends
                => Fits(pl, j, Loop(c, b, l))
<1>0. /\ Fresh \subseteq Block /\ Fresh \subseteq Nat /\ NoLabel \notin Labelled
      /\ Labelled \subseteq Block
  BY FreshBlocks, ConstantsAssumption
<1>1. \A b : OpenAt(pl, j, b) => b \in Block
  BY <1>0 DEF OpenAt
<1>2. ASSUME NEW b, OpenAt(pl, j, b)
      PROVE  Fits(pl, j, Goto(b))
  <2>1. b \in Block
    BY <1>1, <1>2
  <2>2. PICK x : x = Goto(b)
    OBVIOUS
  <2>3. x \in Item /\ x.do = "goto" /\ Targets(x) = {b}
    BY <2>1, <2>2, Made, ItemBlocks
  <2> QED
    BY <1>2, <2>2, <2>3, JumpFits
<1>3. ASSUME NEW ts, \A b \in ts : OpenAt(pl, j, b)
      PROVE  Fits(pl, j, Branch(ts))
  <2>1. ts \in SUBSET Block
    BY <1>1, <1>3
  <2>2. PICK x : x = Branch(ts)
    OBVIOUS
  <2>3. x \in Item /\ x.do = "branch" /\ Targets(x) = ts
    BY <2>1, <2>2, Made, ItemBlocks
  <2> QED
    BY <1>3, <2>2, <2>3, JumpFits
<1>4. ASSUME NEW t, NEW f, OpenAt(pl, j, t), OpenAt(pl, j, f)
      PROVE  Fits(pl, j, Cond(t, f))
  <2>1. t \in Block /\ f \in Block
    BY <1>1, <1>4
  <2>2. PICK x : x = Cond(t, f)
    OBVIOUS
  <2>3. x \in Item /\ x.do = "cond" /\ Targets(x) = {t, f}
    BY <2>1, <2>2, Made, ItemBlocks
  <2> QED
    BY <1>4, <2>2, <2>3, JumpFits
<1>5. ASSUME NEW v \in Var, j \notin pl.ends
      PROVE  Fits(pl, j, AssignTo(v)) /\ Fits(pl, j, Use(v))
  <2>1. ASSUME NEW x, x = AssignTo(v) \/ x = Use(v)
        PROVE  Fits(pl, j, x)
    <3>1. x \in Item /\ x.do \in {"assign", "use"} /\ Targets(x) = {}
      BY <2>1, Made, ItemBlocks
    <3> QED
      BY <1>5, <3>1, JumpFits
  <2> QED
    BY <2>1
<1>6. ASSUME j \notin pl.ends
      PROVE  Fits(pl, j, Body)
  <2>1. PICK x : x = Body
    OBVIOUS
  <2>2. x \in Item /\ x.do = "statements" /\ Targets(x) = {}
    BY <2>1, Made, ItemBlocks
  <2> QED
    BY <1>6, <2>1, <2>2, JumpFits
<1>7. ASSUME NEW k, KeptAt(pl, j, k), j \notin pl.ends
      PROVE  Fits(pl, j, UseKept(k))
  <2>1. k \in Nat
    BY <1>0, <1>7 DEF KeptAt
  <2> QED
    BY <1>7, <2>1, Made, KeyFits
<1>8. ASSUME NEW v \in Var, NEW k \in Fresh, j \notin pl.ends
      PROVE  Fits(pl, j, Hold(v, k))
  BY <1>0, <1>8, Made, KeyFits
<1>9. ASSUME NEW ks \in SUBSET Fresh, j \notin pl.ends, pl.last <= j
      PROVE  Fits(pl, j, Release(ks))
  <2>1. PICK x : x = Release(ks)
    OBVIOUS
  <2>2. x \in Item /\ x.do = "release" /\ x.keys = ks
    BY <1>0, <1>9, <2>1, Made
  <2> QED
    BY <1>9, <2>1, <2>2, KeyFits
<1>10. ASSUME NEW c, NEW b, NEW l \in {NoLabel} \cup (pl.outer \cap Labelled),
              OpenAt(pl, j, c), OpenAt(pl, j, b), j \notin pl.ends
       PROVE  Fits(pl, j, Loop(c, b, l))
  <2>1. c \in Block /\ b \in Block /\ l \in Label
    BY <1>1, <1>10 DEF Label
  <2>2. PICK x : x = Loop(c, b, l)
    OBVIOUS
  <2>3. /\ x \in Item /\ x.do = "loop"
        /\ Targets(x) = {c, b} \cup ({l} \cap Labelled)
    BY <2>1, <2>2, Made, ItemBlocks
  <2>4. l \in Labelled => OpenAt(pl, j, l)
    BY <1>0, <1>10 DEF OpenAt
  <2> QED
    BY <1>10, <2>2, <2>3, <2>4, JumpFits
<1> QED
  BY <1>2, <1>3, <1>4, <1>5, <1>6, <1>7, <1>8, <1>9, <1>10

LEMMA BlockItemsFit ==
  ASSUME VisitorTypes, blockCount' \in blockCount..MaxBlocks,
         labelCount' \in labelCount..Cardinality(Labelled),
         NEW pl, NEW j \in Nat
  PROVE  /\ \A b \in Fresh :
              Place(pl.seal, b) = j /\ j - 1 \in pl.ends /\ j \notin pl.ends
                => Fits(pl, j, ActivateBlock(b))
         /\ \A b \in pl.outer \cap Labelled :
              j - 1 \in pl.ends /\ j \notin pl.ends
                => Fits(pl, j, ActivateBlock(b))
         /\ \A b \in Fresh \cap pl.open :
              j < Place(pl.seal, b) /\ j - 1 \in pl.ends /\ j \notin pl.ends
                => Fits(pl, j, OpenBlock(b))
         /\ \A b \in Fresh :
              Place(pl.seal, b) = j /\ pl.last <= j /\ j - 1 \in pl.ends
                => Fits(pl, j, CloseBlock(b))
<1>0. Fresh \subseteq Block /\ Labelled \subseteq Block
  BY FreshBlocks, ConstantsAssumption
<1>2. ASSUME NEW b,
              \/ b \in Fresh /\ Place(pl.seal, b) = j
              \/ b \in pl.outer \cap Labelled,
              j - 1 \in pl.ends, j \notin pl.ends
       PROVE  Fits(pl, j, ActivateBlock(b))
  <2>1. PICK x : x = ActivateBlock(b)
    OBVIOUS
  <2>2. b \in Block
    BY <1>0, <1>2
  <2>3. x \in Item /\ x.do = "activate" /\ x.block = b
    BY <2>1, <2>2, Made
  <2> QED
    BY <1>2, <2>1, <2>3, BlockFits
<1>3. ASSUME NEW b \in Fresh \cap pl.open, j < Place(pl.seal, b),
              j - 1 \in pl.ends, j \notin pl.ends
       PROVE  Fits(pl, j, OpenBlock(b))
  <2>1. PICK x : x = OpenBlock(b)
    OBVIOUS
  <2>2. b \in Block
    BY <1>0, <1>3
  <2>3. x \in Item /\ x.do = "open" /\ x.block = b
    BY <2>1, <2>2, Made
  <2> QED
    BY <1>3, <2>1, <2>3, BlockFits
<1>4. ASSUME NEW b \in Fresh, Place(pl.seal, b) = j, pl.last <= j,
              j - 1 \in pl.ends
       PROVE  Fits(pl, j, CloseBlock(b))
  <2>1. PICK x : x = CloseBlock(b)
    OBVIOUS
  <2>2. b \in Block
    BY <1>0, <1>4
  <2>3. x \in Item /\ x.do = "close" /\ x.block = b
    BY <2>1, <2>2, Made
  <2> QED
    BY <1>4, <2>1, <2>3, BlockFits
<1> QED
  BY <1>2, <1>3, <1>4
(* try_activate_block: its body follows the plan at the same place.        *)
LEMMA TryFits ==
  ASSUME VisitorTypes, blockCount' \in blockCount..MaxBlocks,
         labelCount' \in labelCount..Cardinality(Labelled),
         NEW pl, NEW j \in Nat, NEW b \in Fresh, NEW s \in Seq(SimpleItem),
         Place(pl.seal, b) = j, j - 1 \in pl.ends,
         j \in pl.ends => s # <<>> /\ Jumps(s[Len(s)]),
         s # <<>> => ~NeedsEnd(s[1]),
         \A i \in 1..(Len(s) - 1) : NeedsEnd(s[i + 1]) => Jumps(s[i]),
         \A i \in DOMAIN s :
           /\ \A d \in Enters(s[i]) : d \in Fresh /\ Place(pl.seal, d) = j
           /\ \A d \in JumpsTo(s[i]) :
                /\ d \in Fresh \ {b} /\ j <= Place(pl.seal, d)
                /\ \A g \in 1..(i - 1) : d \notin Enters(s[g])
           /\ \A k \in Uses(s[i]) : KeptAt(pl, j, k)
  PROVE  Fits(pl, j, TryActivate(b, s))
<1>0. b \in Block
  BY FreshBlocks
<1>1. PICK x : x = TryActivate(b, s)
  OBVIOUS
<1>2. /\ x \in Item /\ x.do = "try" /\ x.block = b /\ x.then = s
  BY <1>0, <1>1, MadeTry
<1>3. /\ Activates(x) = {b} \cup UNION {Enters(y) : y \in Range(s)}
      /\ Seals(x) = ({b} \cup UNION {Enters(y) : y \in Range(s)}) \ Labelled
      /\ NeedsOpen(x) = UNION {JumpsTo(y) : y \in Range(s)}
      /\ KeysOf(x) = UNION {Uses(y) : y \in Range(s)}
      /\ Ends(x) <=> s # <<>> /\ Jumps(s[Len(s)])
  BY <1>2 DEF Activates, Seals, NeedsOpen, Targets, KeysOf, Ends, Jumps
<1>4. ThenInOrder(x)
  <2>1. ASSUME NEW i \in DOMAIN s
        PROVE  JumpsTo(s[i]) \cap ({b} \ Labelled) = {}
    OBVIOUS
  <2>2. ASSUME NEW g \in DOMAIN s, NEW i \in DOMAIN s, g < i
        PROVE  JumpsTo(s[i]) \cap Seals(s[g]) = {}
    <3>1. g \in 1..(i - 1)
      BY <2>2
    <3>2. s[g] \in Item /\ s[g] \in SimpleItem
      BY SimpleItems
    <3>3. Seals(s[g]) \subseteq Enters(s[g])
      BY <3>2 DEF Seals, Activates, Enters, SimpleItem
    <3> QED
      BY <3>1, <3>3
  <2> QED
    BY <1>2, <2>1, <2>2 DEF ThenInOrder
<1>5. \A d \in Activates(x) : d \in Fresh /\ Place(pl.seal, d) = j
  BY <1>3 DEF Range
<1>6. \A d \in NeedsOpen(x) : d \in Fresh /\ j <= Place(pl.seal, d)
  BY <1>3 DEF Range
<1>7. \A k \in KeysOf(x) : KeptAt(pl, j, k)
  BY <1>3 DEF Range
<1>8. Seals(x) \subseteq Activates(x)
  BY <1>3
<1> HIDE DEF KeptAt
<1> QED
  BY <1>1, <1>2, <1>3, <1>4, <1>5, <1>6, <1>7, <1>8 DEF Fits, KeptAt

LEMMA SimpleMade ==
  /\ \A b \in Block :
       /\ Goto(b) \in SimpleItem /\ Enters(Goto(b)) = {}
       /\ JumpsTo(Goto(b)) = {b} /\ Uses(Goto(b)) = {}
       /\ Jumps(Goto(b)) /\ ~NeedsEnd(Goto(b))
       /\ ActivateBlock(b) \in SimpleItem /\ Enters(ActivateBlock(b)) = {b}
       /\ JumpsTo(ActivateBlock(b)) = {} /\ Uses(ActivateBlock(b)) = {}
  /\ \A ts \in SUBSET Block :
       /\ Branch(ts) \in SimpleItem /\ Enters(Branch(ts)) = {}
       /\ JumpsTo(Branch(ts)) = ts /\ Uses(Branch(ts)) = {}
       /\ Jumps(Branch(ts)) /\ ~NeedsEnd(Branch(ts))
  /\ \A v \in Var :
       /\ AssignTo(v) \in SimpleItem /\ Enters(AssignTo(v)) = {}
       /\ JumpsTo(AssignTo(v)) = {} /\ Uses(AssignTo(v)) = {}
       /\ ~NeedsEnd(AssignTo(v))
  /\ \A k \in Nat :
       /\ UseKept(k) \in SimpleItem /\ Enters(UseKept(k)) = {}
       /\ JumpsTo(UseKept(k)) = {} /\ Uses(UseKept(k)) = {k}
       /\ ~NeedsEnd(UseKept(k))
  BY DEF Goto, ActivateBlock, Branch, AssignTo, UseKept, SimpleItem, Enters,
         JumpsTo, Uses, Jumps, NeedsEnd

LEMMA ThenNothing ==
  ASSUME VisitorTypes, blockCount' \in blockCount..MaxBlocks,
         labelCount' \in labelCount..Cardinality(Labelled),
         NEW pl, NEW j \in Nat, NEW b \in Fresh,
         Place(pl.seal, b) = j, j - 1 \in pl.ends, j \notin pl.ends
  PROVE  Fits(pl, j, TryActivate(b, <<>>))
<1> DEFINE s == <<>>
<1>1. s \in Seq(SimpleItem) /\ DOMAIN s = {} /\ Len(s) = 0
  OBVIOUS
<1>2. 1..(Len(s) - 1) = {}
  BY <1>1
<1> QED
  BY <1>1, <1>2, TryFits

(* The footer of a loop: a jump back.                                      *)
LEMMA ThenGoto ==
  ASSUME VisitorTypes, blockCount' \in blockCount..MaxBlocks,
         labelCount' \in labelCount..Cardinality(Labelled),
         NEW pl, NEW j \in Nat, NEW b \in Fresh, NEW back \in Fresh \ {b},
         Place(pl.seal, b) = j, j - 1 \in pl.ends, j <= Place(pl.seal, back)
  PROVE  Fits(pl, j, TryActivate(b, <<Goto(back)>>))
<1>0. Fresh \subseteq Block
  BY FreshBlocks
<1> DEFINE s == <<Goto(back)>>
<1>1. /\ s \in Seq(SimpleItem) /\ DOMAIN s = {1} /\ Len(s) = 1
      /\ s[1] = Goto(back) /\ s # <<>>
  BY <1>0, SimpleMade
<1> HIDE DEF s
<1>2. /\ Enters(s[1]) = {} /\ JumpsTo(s[1]) = {back} /\ Uses(s[1]) = {}
      /\ Jumps(s[1]) /\ ~NeedsEnd(s[1])
  BY <1>0, <1>1, SimpleMade
<1>3. Fits(pl, j, TryActivate(b, s))
  BY <1>1, <1>2, TryFits
<1> QED
  BY <1>3 DEF s

LEMMA HoldKeeps ==
  \A v \in Var, k \in Nat : KeepsAs(Hold(v, k), k)
  BY Made DEF KeepsAs

LEMMA CloseMade ==
  \A b \in Block : CloseBlock(b).do = "close" /\ CloseBlock(b).block = b
  BY Made

(* Items that do not end a block and start none: a use of a register that  *)
(* the plan keeps there, or an assignment.                                 *)
Straight(pl, j, x) ==
  \/ \E k \in Nat : KeptAt(pl, j, k) /\ x = UseKept(k)
  \/ \E v \in Var : x = AssignTo(v)

LEMMA StraightMade ==
  ASSUME NEW pl, NEW j, NEW x, Straight(pl, j, x)
  PROVE  /\ Enters(x) = {} /\ JumpsTo(x) = {} /\ ~NeedsEnd(x)
         /\ \A k \in Uses(x) : KeptAt(pl, j, k)
<1>1. ASSUME NEW k \in Nat, KeptAt(pl, j, k), x = UseKept(k)
      PROVE  /\ Enters(x) = {} /\ JumpsTo(x) = {} /\ ~NeedsEnd(x)
             /\ \A l \in Uses(x) : KeptAt(pl, j, l)
  <2>1. /\ Enters(x) = {} /\ JumpsTo(x) = {} /\ ~NeedsEnd(x)
        /\ Uses(x) = {k}
    BY <1>1, SimpleMade
  <2> QED
    BY <1>1, <2>1
<1>2. ASSUME NEW v \in Var, x = AssignTo(v)
      PROVE  /\ Enters(x) = {} /\ JumpsTo(x) = {} /\ ~NeedsEnd(x)
             /\ \A l \in Uses(x) : KeptAt(pl, j, l)
  BY <1>2, SimpleMade
<1> QED
  BY <1>1, <1>2 DEF Straight

LEMMA StraightItems ==
  ASSUME NEW pl, NEW j \in Nat
  PROVE  /\ \A k \in Nat : KeptAt(pl, j, k) => Straight(pl, j, UseKept(k))
         /\ \A v \in Var : Straight(pl, j, AssignTo(v))
<1>1. ASSUME NEW k \in Nat, KeptAt(pl, j, k)
      PROVE  Straight(pl, j, UseKept(k))
  <2>1. \E l \in Nat : KeptAt(pl, j, l) /\ UseKept(k) = UseKept(l)
    BY <1>1
  <2> QED
    BY <2>1 DEF Straight
<1>2. ASSUME NEW v \in Var
      PROVE  Straight(pl, j, AssignTo(v))
  <2>1. \E w \in Var : AssignTo(v) = AssignTo(w)
    OBVIOUS
  <2> QED
    BY <2>1 DEF Straight
<1> QED
  BY <1>1, <1>2

(* The next values of a loop, and a jump back.                             *)
LEMMA ThenAdvance ==
  ASSUME VisitorTypes, blockCount' \in blockCount..MaxBlocks,
         labelCount' \in labelCount..Cardinality(Labelled),
         NEW pl, NEW j \in Nat, NEW b \in Fresh, NEW back \in Fresh \ {b},
         Place(pl.seal, b) = j, j - 1 \in pl.ends, j <= Place(pl.seal, back),
         NEW s \in Seq(SimpleItem), s # <<>>, s[Len(s)] = Goto(back),
         \A i \in 1..(Len(s) - 1) : Straight(pl, j, s[i])
  PROVE  Fits(pl, j, TryActivate(b, s))
<1>1. Len(s) \in Nat \ {0} /\ DOMAIN s = 1..Len(s) /\ back \in Block
  BY FreshBlocks
<1>2. \A i \in DOMAIN s : i = Len(s) \/ i \in 1..(Len(s) - 1)
  BY <1>1
<1>3. /\ Enters(s[Len(s)]) = {} /\ JumpsTo(s[Len(s)]) = {back}
      /\ Uses(s[Len(s)]) = {} /\ Jumps(s[Len(s)]) /\ ~NeedsEnd(s[Len(s)])
  BY <1>1, SimpleMade
<1>4. \A i \in 1..(Len(s) - 1) :
        /\ Enters(s[i]) = {} /\ JumpsTo(s[i]) = {} /\ ~NeedsEnd(s[i])
        /\ \A k \in Uses(s[i]) : KeptAt(pl, j, k)
  BY StraightMade
<1>5. \A i \in DOMAIN s :
        /\ Enters(s[i]) = {} /\ JumpsTo(s[i]) \subseteq {back}
        /\ ~NeedsEnd(s[i]) /\ \A k \in Uses(s[i]) : KeptAt(pl, j, k)
  BY <1>2, <1>3, <1>4
<1>6. /\ \A i \in 1..(Len(s) - 1) : i + 1 \in DOMAIN s
      /\ \A i \in DOMAIN s : \A g \in 1..(i - 1) : g \in DOMAIN s
      /\ 1 \in DOMAIN s
  BY <1>1
<1>7. /\ \A i \in 1..(Len(s) - 1) : NeedsEnd(s[i + 1]) => Jumps(s[i])
      /\ \A i \in DOMAIN s : \A g \in 1..(i - 1) : Enters(s[g]) = {}
      /\ ~NeedsEnd(s[1])
  BY <1>5, <1>6
<1> QED
  BY <1>3, <1>5, <1>7, TryFits

(* The check for the last iteration at place p, the next values in a block *)
(* of their own, and a jump back.                                          *)
LEMMA ThenCheck ==
  ASSUME VisitorTypes, blockCount' \in blockCount..MaxBlocks,
         labelCount' \in labelCount..Cardinality(Labelled),
         NEW pl, NEW j \in Nat, NEW b \in Fresh,
         NEW step \in Fresh \ {b}, NEW next \in Fresh \ {b},
         NEW back \in Fresh \ {b, step},
         Place(pl.seal, b) = j, j - 1 \in pl.ends,
         Place(pl.seal, step) = j, j <= Place(pl.seal, next),
         j <= Place(pl.seal, back),
         NEW s \in Seq(SimpleItem), NEW p \in 2..(Len(s) - 2),
         s[p] = Branch({step, next}), s[p + 1] = ActivateBlock(step),
         s[Len(s)] = Goto(back),
         \A i \in (1..(Len(s) - 1)) \ {p, p + 1} : Straight(pl, j, s[i])
  PROVE  Fits(pl, j, TryActivate(b, s))
<1>1. /\ Len(s) \in Nat \ {0} /\ DOMAIN s = 1..Len(s) /\ p \in Nat
      /\ {step, next, back} \subseteq Block /\ {step, next} \in SUBSET Block
      /\ s # <<>> /\ 2 <= p /\ p + 2 <= Len(s)
  <2>1. Len(s) \in Nat /\ DOMAIN s = 1..Len(s)
    OBVIOUS
  <2>2. p \in Nat /\ 2 <= p /\ p + 2 <= Len(s)
    BY <2>1
  <2>3. Len(s) # 0 /\ s # <<>>
    BY <2>1, <2>2
  <2>4. {step, next, back} \subseteq Block
    BY FreshBlocks
  <2> QED
    BY <2>1, <2>2, <2>3, <2>4
<1>2. \A i \in DOMAIN s : \/ i = Len(s) \/ i = p \/ i = p + 1
                          \/ i \in (1..(Len(s) - 1)) \ {p, p + 1}
  BY <1>1
<1>3. p # p + 1 /\ p # Len(s) /\ p + 1 # Len(s) /\ 1 # p + 1
  <2>1. ASSUME NEW n \in Nat, p + 2 <= n
        PROVE  p # p + 1 /\ p # n /\ p + 1 # n /\ 1 # p + 1
    BY <1>1, <2>1
  <2> QED
    BY <1>1, <2>1
<1>4. /\ Enters(s[Len(s)]) = {} /\ JumpsTo(s[Len(s)]) = {back}
      /\ Uses(s[Len(s)]) = {} /\ Jumps(s[Len(s)]) /\ ~NeedsEnd(s[Len(s)])
  BY <1>1, SimpleMade
<1>5. /\ Enters(s[p]) = {} /\ JumpsTo(s[p]) = {step, next}
      /\ Uses(s[p]) = {} /\ Jumps(s[p]) /\ ~NeedsEnd(s[p])
      /\ Enters(s[p + 1]) = {step} /\ JumpsTo(s[p + 1]) = {}
      /\ Uses(s[p + 1]) = {}
  BY <1>1, SimpleMade
<1>6. \A i \in (1..(Len(s) - 1)) \ {p, p + 1} :
        /\ Enters(s[i]) = {} /\ JumpsTo(s[i]) = {} /\ ~NeedsEnd(s[i])
        /\ \A k \in Uses(s[i]) : KeptAt(pl, j, k)
  BY StraightMade
<1>7. \A i \in DOMAIN s :
        /\ i # p + 1 => Enters(s[i]) = {} /\ ~NeedsEnd(s[i])
        /\ \A d \in Enters(s[i]) : d \in Fresh /\ Place(pl.seal, d) = j
        /\ \A k \in Uses(s[i]) : KeptAt(pl, j, k)
  <2>1. ASSUME NEW i \in DOMAIN s, i = p + 1
        PROVE  /\ \A d \in Enters(s[i]) : d \in Fresh /\ Place(pl.seal, d) = j
               /\ \A k \in Uses(s[i]) : KeptAt(pl, j, k)
    BY <1>5, <2>1
  <2>2. ASSUME NEW i \in DOMAIN s, i # p + 1
        PROVE  /\ Enters(s[i]) = {} /\ ~NeedsEnd(s[i])
               /\ \A k \in Uses(s[i]) : KeptAt(pl, j, k)
    BY <1>2, <1>4, <1>5, <1>6, <2>2
  <2> QED
    BY <2>1, <2>2
<1>8. \A i \in 1..(Len(s) - 1) : NeedsEnd(s[i + 1]) => Jumps(s[i])
  <2>1. ASSUME NEW i \in 1..(Len(s) - 1), i = p
        PROVE  NeedsEnd(s[i + 1]) => Jumps(s[i])
    BY <1>5, <2>1
  <2>2. ASSUME NEW i \in 1..(Len(s) - 1), i # p
        PROVE  NeedsEnd(s[i + 1]) => Jumps(s[i])
    <3>1. i + 1 \in DOMAIN s /\ i + 1 # p + 1
      BY <1>1, <2>2
    <3> QED
      BY <1>7, <3>1
  <2> QED
    BY <2>1, <2>2
<1>9. \A i \in DOMAIN s : \A d \in JumpsTo(s[i]) :
        /\ d \in Fresh \ {b} /\ j <= Place(pl.seal, d)
        /\ \A g \in 1..(i - 1) : d \notin Enters(s[g])
  <2>1. ASSUME NEW d \in {step, next}, NEW g \in 1..(p - 1)
        PROVE  d \notin Enters(s[g])
    <3>1. g \in DOMAIN s /\ g # p + 1
      BY <1>1
    <3> QED
      BY <1>7, <3>1
  <2>2. ASSUME NEW g \in 1..(Len(s) - 1)
        PROVE  back \notin Enters(s[g])
    <3>1. g \in DOMAIN s
      BY <1>1
    <3> QED
      BY <1>5, <1>7, <3>1
  <2>3. \A i \in DOMAIN s : JumpsTo(s[i]) # {} => i = p \/ i = Len(s)
    BY <1>2, <1>5, <1>6
  <2>4. /\ \A d \in JumpsTo(s[p]) : \A g \in 1..(p - 1) : d \notin Enters(s[g])
        /\ \A d \in JumpsTo(s[Len(s)]) :
             \A g \in 1..(Len(s) - 1) : d \notin Enters(s[g])
    BY <1>4, <1>5, <2>1, <2>2
  <2>5. \A i \in DOMAIN s : \A d \in JumpsTo(s[i]) :
          d \in Fresh \ {b} /\ j <= Place(pl.seal, d)
    <3>1. \A d \in {step, next, back} :
            d \in Fresh \ {b} /\ j <= Place(pl.seal, d)
      OBVIOUS
    <3>2. /\ \A d \in JumpsTo(s[p]) : d \in {step, next, back}
          /\ \A d \in JumpsTo(s[Len(s)]) : d \in {step, next, back}
      BY <1>4, <1>5
    <3> QED
      BY <2>3, <3>1, <3>2
  <2>6. \A i \in DOMAIN s : \A d \in JumpsTo(s[i]) :
          \A g \in 1..(i - 1) : d \notin Enters(s[g])
    BY <2>3, <2>4
  <2> QED
    BY <2>5, <2>6
<1>10. /\ ~NeedsEnd(s[1]) /\ Jumps(s[Len(s)])
  <2>1. 1 \in DOMAIN s
    BY <1>1
  <2> QED
    BY <1>3, <1>4, <1>7, <2>1
<1> QED
  BY <1>1, <1>7, <1>8, <1>9, <1>10, TryFits
-----------------------------------------------------------------------------
(* The plans of the handlers                                               *)

(* A step that creates n blocks.                                           *)
Creates(n) ==
  /\ VisitorTypes
  /\ blockCount' = blockCount + n /\ blockCount' <= MaxBlocks
  /\ labelCount' \in labelCount..Cardinality(Labelled)

LEMMA NewBlocks ==
  ASSUME NEW n \in Nat, Creates(n)
  PROVE  /\ blockCount' \in blockCount..MaxBlocks
         /\ \A d \in 1..n : New(d) \in Fresh /\ New(d) \in Block
                            /\ New(d) \in Nat
         /\ \A b \in Fresh : \E d \in 1..n : b = New(d)
         /\ \A d, e \in Nat : New(d) = New(e) => d = e
         /\ \A p : \A d \in 1..n : Place(p, New(d)) = p[d]
<1>1. blockCount \in Nat /\ MaxBlocks \in Nat
  BY FlowAssumption DEF Creates, VisitorTypes
<1>2. blockCount' \in blockCount..MaxBlocks
  BY <1>1 DEF Creates
<1>3. \A d \in 1..n : New(d) \in Fresh
  BY <1>1 DEF New, Fresh, Creates
<1>4. Fresh \subseteq Block /\ Fresh \subseteq Nat
  BY <1>2, FreshBlocks DEF Creates
<1>5. ASSUME NEW b \in Fresh
      PROVE  \E d \in 1..n : b = New(d)
  <2>1. b - blockCount \in 1..n /\ b = New(b - blockCount)
    BY <1>1 DEF Fresh, Creates, New
  <2> QED
    BY <2>1
<1>6. \A d, e \in Nat : New(d) = New(e) => d = e
  BY <1>1 DEF New
<1>7. ASSUME NEW p, NEW d \in 1..n
      PROVE  Place(p, New(d)) = p[d]
  <2>1. New(d) - blockCount = d
    BY <1>1 DEF New
  <2> QED
    BY <2>1 DEF Place
<1> QED
  BY <1>2, <1>3, <1>4, <1>5, <1>6, <1>7

Plan(seal, hold, last, ends, open, outer) ==
  [seal |-> seal, hold |-> hold, last |-> last, ends |-> ends, open |-> open,
   outer |-> outer]

LEMMA IfWorks ==
  ASSUME Creates(2)
  PROVE  \E pl : Works(pl, IfItems) /\ pl.outer = {}
<1>1. PICK pl : pl = Plan(<<2, 5>>, <<0, 0>>, 6, {1, 4}, {}, {})
  OBVIOUS
<1>2. PICK body, next :
       body = New(1) /\ next = New(2)
  OBVIOUS
<1>3. /\ pl.seal = <<2, 5>> /\ pl.hold = <<0, 0>> /\ pl.last = 6
      /\ pl.ends = {1, 4} /\ pl.open = {} /\ pl.outer = {}
  BY <1>1, <1>2 DEF Plan
<1>4. /\ body \in Fresh /\ next \in Fresh /\ body \in Block /\ next \in Block
      /\ body \in Nat /\ next \in Nat
      /\ body # next
      /\ \A b \in Fresh : b \in {body, next}
      /\ Place(pl.seal, body) = 2 /\ Place(pl.seal, next) = 5
      /\ Place(pl.hold, body) = 0 /\ Place(pl.hold, next) = 0
  <2>1. /\ {1, 2} \subseteq 1..2 /\ {1, 2} \subseteq Nat
        /\ \A d \in 1..2 : d \in {1, 2}
    OBVIOUS
  <2>2. /\ New(1) \in Fresh /\ New(2) \in Fresh /\ New(1) \in Block
        /\ New(2) \in Block /\ New(1) \in Nat /\ New(2) \in Nat
        /\ Place(pl.seal, New(1)) = pl.seal[1]
        /\ Place(pl.seal, New(2)) = pl.seal[2]
        /\ Place(pl.hold, New(1)) = pl.hold[1]
        /\ Place(pl.hold, New(2)) = pl.hold[2]
    BY <2>1, NewBlocks
  <2>3. New(1) # New(2)
    BY <2>1, NewBlocks
  <2>4. \A b \in Fresh : b \in {New(1), New(2)}
    BY <2>1, NewBlocks
  <2> QED
    BY <1>2, <1>3, <2>2, <2>3, <2>4
<1>5. PICK s : s = IfItems
  OBVIOUS
<1>6. /\ s \in Seq(Item) /\ Len(s) = 5 /\ DOMAIN s = 1..5 /\ s # <<>>
      /\ s[1] = Cond(body, next) /\ s[2] = ActivateBlock(body) /\ s[3] = Body
      /\ s[4] = Goto(next) /\ s[5] = TryActivate(next, <<>>)
  <2>1. TryActivate(next, <<>>) \in Item
    <3>1. <<>> \in Seq(SimpleItem)
      OBVIOUS
    <3> QED
      BY <1>4, <3>1, MadeTry
  <2>2. /\ Cond(body, next) \in Item /\ ActivateBlock(body) \in Item
        /\ Body \in Item /\ Goto(next) \in Item
    BY <1>4, Made
  <2> QED
    BY <1>2, <1>5, <2>1, <2>2 DEF IfItems
<1>7. /\ OpenAt(pl, 1, body) /\ OpenAt(pl, 1, next) /\ 2 - 1 \in pl.ends
      /\ 2 \notin pl.ends /\ 3 \notin pl.ends /\ OpenAt(pl, 4, next)
      /\ 5 - 1 \in pl.ends /\ 5 \notin pl.ends
  BY <1>3, <1>4 DEF OpenAt, KeptAt
<1>8. /\ VisitorTypes /\ blockCount' \in blockCount..MaxBlocks
      /\ labelCount' \in labelCount..Cardinality(Labelled)
  BY NewBlocks DEF Creates
<1>9. Fits(pl, 1, Cond(body, next)) /\ Fits(pl, 4, Goto(next))
  BY <1>7, <1>8, ItemsFit
<1>10. Fits(pl, 3, Body)
  BY <1>7, <1>8, ItemsFit
<1>11. Fits(pl, 2, ActivateBlock(body))
  BY <1>4, <1>7, <1>8, BlockItemsFit
<1>12. Fits(pl, 5, TryActivate(next, <<>>))
  BY <1>4, <1>7, <1>8, ThenNothing
<1>13. \A j \in DOMAIN s : Fits(pl, j, s[j])
  BY <1>6, <1>9, <1>10, <1>11, <1>12
<1>14. Works(pl, s)
  <2>1. \A b \in Fresh : Place(pl.seal, b) \in Nat /\ Place(pl.hold, b) \in Nat
    <3>1. ASSUME NEW b \in Fresh,
                 NEW d \in {body, next}, b = d
          PROVE  Place(pl.seal, b) \in Nat /\ Place(pl.hold, b) \in Nat
      BY <1>4, <3>1
    <3> QED
      BY <1>4, <3>1
  <2>2. \A k \in Fresh : Place(pl.hold, k) > 0 =>
          /\ Place(pl.hold, k) \in DOMAIN s
          /\ KeepsAs(s[Place(pl.hold, k)], k)
    <3>1. ASSUME NEW k \in Fresh,
                 NEW d \in {body, next}, k = d,
                 Place(pl.hold, k) > 0
          PROVE  /\ Place(pl.hold, k) \in DOMAIN s
                 /\ KeepsAs(s[Place(pl.hold, k)], k)
      BY <1>4, <3>1
    <3> QED
      BY <1>4, <3>1
  <2>3. \A b \in pl.open :
          /\ Place(pl.seal, b) \in DOMAIN s
          /\ s[Place(pl.seal, b)].do = "close"
          /\ s[Place(pl.seal, b)].block = b
    BY <1>3, <1>4, <1>6
  <2>4. pl.last \in Nat /\ 0 \notin pl.ends /\ s \in Seq(Item) /\ s # <<>>
    BY <1>3, <1>6
  <2> QED
    BY <1>13, <2>1, <2>2, <2>3, <2>4 DEF Works
<1> QED
  BY <1>3, <1>5, <1>14

LEMMA IfElseWorks ==
  ASSUME Creates(3)
  PROVE  \E pl : Works(pl, IfElseItems) /\ pl.outer = {}
<1>1. PICK pl : pl = Plan(<<2, 5, 8>>, <<0, 0, 0>>, 9, {1, 4, 7}, {}, {})
  OBVIOUS
<1>2. PICK body, orelse, next :
       body = New(1) /\ orelse = New(2) /\ next = New(3)
  OBVIOUS
<1>3. /\ pl.seal = <<2, 5, 8>> /\ pl.hold = <<0, 0, 0>> /\ pl.last = 9
      /\ pl.ends = {1, 4, 7} /\ pl.open = {} /\ pl.outer = {}
  BY <1>1, <1>2 DEF Plan
<1>4. /\ body \in Fresh /\ orelse \in Fresh /\ next \in Fresh
      /\ body \in Block /\ orelse \in Block /\ next \in Block /\ body \in Nat
      /\ orelse \in Nat /\ next \in Nat
      /\ body # orelse /\ body # next /\ orelse # next
      /\ \A b \in Fresh : b \in {body, orelse, next}
      /\ Place(pl.seal, body) = 2 /\ Place(pl.seal, orelse) = 5
      /\ Place(pl.seal, next) = 8 /\ Place(pl.hold, body) = 0
      /\ Place(pl.hold, orelse) = 0 /\ Place(pl.hold, next) = 0
  <2>1. /\ {1, 2, 3} \subseteq 1..3 /\ {1, 2, 3} \subseteq Nat
        /\ \A d \in 1..3 : d \in {1, 2, 3}
    OBVIOUS
  <2>2. /\ New(1) \in Fresh /\ New(2) \in Fresh /\ New(3) \in Fresh
        /\ New(1) \in Block /\ New(2) \in Block /\ New(3) \in Block
        /\ New(1) \in Nat /\ New(2) \in Nat /\ New(3) \in Nat
        /\ Place(pl.seal, New(1)) = pl.seal[1]
        /\ Place(pl.seal, New(2)) = pl.seal[2]
        /\ Place(pl.seal, New(3)) = pl.seal[3]
        /\ Place(pl.hold, New(1)) = pl.hold[1]
        /\ Place(pl.hold, New(2)) = pl.hold[2]
        /\ Place(pl.hold, New(3)) = pl.hold[3]
    BY <2>1, NewBlocks
  <2>3. New(1) # New(2) /\ New(1) # New(3) /\ New(2) # New(3)
    BY <2>1, NewBlocks
  <2>4. \A b \in Fresh : b \in {New(1), New(2), New(3)}
    BY <2>1, NewBlocks
  <2> QED
    BY <1>2, <1>3, <2>2, <2>3, <2>4
<1>5. PICK s : s = IfElseItems
  OBVIOUS
<1>6. /\ s \in Seq(Item) /\ Len(s) = 8 /\ DOMAIN s = 1..8 /\ s # <<>>
      /\ s[1] = Cond(body, orelse) /\ s[2] = ActivateBlock(body)
      /\ s[3] = Body /\ s[4] = Goto(next) /\ s[5] = ActivateBlock(orelse)
      /\ s[6] = Body /\ s[7] = Goto(next) /\ s[8] = TryActivate(next, <<>>)
  <2>1. TryActivate(next, <<>>) \in Item
    <3>1. <<>> \in Seq(SimpleItem)
      OBVIOUS
    <3> QED
      BY <1>4, <3>1, MadeTry
  <2>2. /\ Cond(body, orelse) \in Item /\ ActivateBlock(body) \in Item
        /\ Body \in Item /\ Goto(next) \in Item
        /\ ActivateBlock(orelse) \in Item
    BY <1>4, Made
  <2> QED
    BY <1>2, <1>5, <2>1, <2>2 DEF IfElseItems
<1>7. /\ OpenAt(pl, 1, body) /\ OpenAt(pl, 1, orelse) /\ 2 - 1 \in pl.ends
      /\ 2 \notin pl.ends /\ 3 \notin pl.ends /\ OpenAt(pl, 4, next)
      /\ 5 - 1 \in pl.ends /\ 5 \notin pl.ends /\ 6 \notin pl.ends
      /\ OpenAt(pl, 7, next) /\ 8 - 1 \in pl.ends /\ 8 \notin pl.ends
  BY <1>3, <1>4 DEF OpenAt, KeptAt
<1>8. /\ VisitorTypes /\ blockCount' \in blockCount..MaxBlocks
      /\ labelCount' \in labelCount..Cardinality(Labelled)
  BY NewBlocks DEF Creates
<1>9. /\ Fits(pl, 1, Cond(body, orelse)) /\ Fits(pl, 4, Goto(next))
      /\ Fits(pl, 7, Goto(next))
  BY <1>7, <1>8, ItemsFit
<1>10. Fits(pl, 3, Body) /\ Fits(pl, 6, Body)
  BY <1>7, <1>8, ItemsFit
<1>11. /\ Fits(pl, 2, ActivateBlock(body))
       /\ Fits(pl, 5, ActivateBlock(orelse))
  BY <1>4, <1>7, <1>8, BlockItemsFit
<1>12. Fits(pl, 8, TryActivate(next, <<>>))
  BY <1>4, <1>7, <1>8, ThenNothing
<1>13. \A j \in DOMAIN s : Fits(pl, j, s[j])
  BY <1>6, <1>9, <1>10, <1>11, <1>12
<1>14. Works(pl, s)
  <2>1. \A b \in Fresh : Place(pl.seal, b) \in Nat /\ Place(pl.hold, b) \in Nat
    <3>1. ASSUME NEW b \in Fresh,
                 NEW d \in {body, orelse, next}, b = d
          PROVE  Place(pl.seal, b) \in Nat /\ Place(pl.hold, b) \in Nat
      BY <1>4, <3>1
    <3> QED
      BY <1>4, <3>1
  <2>2. \A k \in Fresh : Place(pl.hold, k) > 0 =>
          /\ Place(pl.hold, k) \in DOMAIN s
          /\ KeepsAs(s[Place(pl.hold, k)], k)
    <3>1. ASSUME NEW k \in Fresh,
                 NEW d \in {body, orelse, next}, k = d,
                 Place(pl.hold, k) > 0
          PROVE  /\ Place(pl.hold, k) \in DOMAIN s
                 /\ KeepsAs(s[Place(pl.hold, k)], k)
      BY <1>4, <3>1
    <3> QED
      BY <1>4, <3>1
  <2>3. \A b \in pl.open :
          /\ Place(pl.seal, b) \in DOMAIN s
          /\ s[Place(pl.seal, b)].do = "close"
          /\ s[Place(pl.seal, b)].block = b
    BY <1>3, <1>4, <1>6
  <2>4. pl.last \in Nat /\ 0 \notin pl.ends /\ s \in Seq(Item) /\ s # <<>>
    BY <1>3, <1>6
  <2> QED
    BY <1>13, <2>1, <2>2, <2>3, <2>4 DEF Works
<1> QED
  BY <1>3, <1>5, <1>14

LEMMA TernaryWorks ==
  ASSUME Creates(3), NEW v \in Var, NEW tmp \in Var
  PROVE  \E pl : Works(pl, TernaryItems(v, tmp)) /\ pl.outer = {}
<1>1. PICK pl : pl = Plan(<<3, 6, 9>>, <<1, 0, 0>>, 12, {2, 5, 8}, {}, {})
  OBVIOUS
<1>2. PICK true, false, merge :
       true = New(1) /\ false = New(2) /\ merge = New(3)
  OBVIOUS
<1>3. /\ pl.seal = <<3, 6, 9>> /\ pl.hold = <<1, 0, 0>> /\ pl.last = 12
      /\ pl.ends = {2, 5, 8} /\ pl.open = {} /\ pl.outer = {}
  BY <1>1, <1>2 DEF Plan
<1>4. /\ true \in Fresh /\ false \in Fresh /\ merge \in Fresh
      /\ true \in Block /\ false \in Block /\ merge \in Block /\ true \in Nat
      /\ false \in Nat /\ merge \in Nat
      /\ true # false /\ true # merge /\ false # merge
      /\ \A b \in Fresh : b \in {true, false, merge}
      /\ Place(pl.seal, true) = 3 /\ Place(pl.seal, false) = 6
      /\ Place(pl.seal, merge) = 9 /\ Place(pl.hold, true) = 1
      /\ Place(pl.hold, false) = 0 /\ Place(pl.hold, merge) = 0
  <2>1. /\ {1, 2, 3} \subseteq 1..3 /\ {1, 2, 3} \subseteq Nat
        /\ \A d \in 1..3 : d \in {1, 2, 3}
    OBVIOUS
  <2>2. /\ New(1) \in Fresh /\ New(2) \in Fresh /\ New(3) \in Fresh
        /\ New(1) \in Block /\ New(2) \in Block /\ New(3) \in Block
        /\ New(1) \in Nat /\ New(2) \in Nat /\ New(3) \in Nat
        /\ Place(pl.seal, New(1)) = pl.seal[1]
        /\ Place(pl.seal, New(2)) = pl.seal[2]
        /\ Place(pl.seal, New(3)) = pl.seal[3]
        /\ Place(pl.hold, New(1)) = pl.hold[1]
        /\ Place(pl.hold, New(2)) = pl.hold[2]
        /\ Place(pl.hold, New(3)) = pl.hold[3]
    BY <2>1, NewBlocks
  <2>3. New(1) # New(2) /\ New(1) # New(3) /\ New(2) # New(3)
    BY <2>1, NewBlocks
  <2>4. \A b \in Fresh : b \in {New(1), New(2), New(3)}
    BY <2>1, NewBlocks
  <2> QED
    BY <1>2, <1>3, <2>2, <2>3, <2>4
<1>5. PICK s : s = TernaryItems(v, tmp)
  OBVIOUS
<1>6. /\ s \in Seq(Item) /\ Len(s) = 12 /\ DOMAIN s = 1..12 /\ s # <<>>
      /\ s[1] = Hold(v, true) /\ s[2] = Cond(true, false)
      /\ s[3] = ActivateBlock(true) /\ s[4] = AssignTo(tmp)
      /\ s[5] = Goto(merge) /\ s[6] = ActivateBlock(false)
      /\ s[7] = AssignTo(tmp) /\ s[8] = Goto(merge)
      /\ s[9] = ActivateBlock(merge) /\ s[10] = Use(tmp)
      /\ s[11] = UseKept(true) /\ s[12] = Release({true})
  <2>2. /\ Hold(v, true) \in Item /\ Cond(true, false) \in Item
        /\ ActivateBlock(true) \in Item /\ AssignTo(tmp) \in Item
        /\ Goto(merge) \in Item /\ ActivateBlock(false) \in Item
        /\ ActivateBlock(merge) \in Item /\ Use(tmp) \in Item
        /\ UseKept(true) \in Item
    BY <1>4, Made
  <2>3. Release({true}) \in Item
    <3>1. {true} \in SUBSET Nat
      BY <1>4
    <3> QED
      BY <1>4, <3>1, Made
  <2> QED
    BY <1>2, <1>5, <2>2, <2>3 DEF TernaryItems, TrueValue
<1>7. /\ 1 \notin pl.ends /\ OpenAt(pl, 2, true) /\ OpenAt(pl, 2, false)
      /\ 3 - 1 \in pl.ends /\ 3 \notin pl.ends /\ 4 \notin pl.ends
      /\ OpenAt(pl, 5, merge) /\ 6 - 1 \in pl.ends /\ 6 \notin pl.ends
      /\ 7 \notin pl.ends /\ OpenAt(pl, 8, merge) /\ 9 - 1 \in pl.ends
      /\ 9 \notin pl.ends /\ 10 \notin pl.ends /\ KeptAt(pl, 11, true)
      /\ 11 \notin pl.ends /\ 12 \notin pl.ends /\ pl.last <= 12
      /\ {true} \in SUBSET Fresh
  BY <1>3, <1>4 DEF OpenAt, KeptAt
<1>8. /\ VisitorTypes /\ blockCount' \in blockCount..MaxBlocks
      /\ labelCount' \in labelCount..Cardinality(Labelled)
  BY NewBlocks DEF Creates
<1>9. /\ Fits(pl, 2, Cond(true, false)) /\ Fits(pl, 5, Goto(merge))
      /\ Fits(pl, 8, Goto(merge))
  BY <1>7, <1>8, ItemsFit
<1>10. /\ Fits(pl, 4, AssignTo(tmp)) /\ Fits(pl, 7, AssignTo(tmp))
       /\ Fits(pl, 10, Use(tmp))
  BY <1>7, <1>8, ItemsFit
<1>11. /\ Fits(pl, 1, Hold(v, true)) /\ Fits(pl, 11, UseKept(true))
       /\ Fits(pl, 12, Release({true}))
  BY <1>4, <1>7, <1>8, ItemsFit
<1>12. /\ Fits(pl, 3, ActivateBlock(true))
       /\ Fits(pl, 6, ActivateBlock(false))
       /\ Fits(pl, 9, ActivateBlock(merge))
  BY <1>4, <1>7, <1>8, BlockItemsFit
<1>13. \A j \in DOMAIN s : Fits(pl, j, s[j])
  BY <1>6, <1>9, <1>10, <1>11, <1>12
<1>14. KeepsAs(s[1], true)
  BY <1>4, <1>6, Made DEF KeepsAs
<1>15. Works(pl, s)
  <2>1. \A b \in Fresh : Place(pl.seal, b) \in Nat /\ Place(pl.hold, b) \in Nat
    <3>1. ASSUME NEW b \in Fresh,
                 NEW d \in {true, false, merge}, b = d
          PROVE  Place(pl.seal, b) \in Nat /\ Place(pl.hold, b) \in Nat
      BY <1>4, <3>1
    <3> QED
      BY <1>4, <3>1
  <2>2. \A k \in Fresh : Place(pl.hold, k) > 0 =>
          /\ Place(pl.hold, k) \in DOMAIN s
          /\ KeepsAs(s[Place(pl.hold, k)], k)
    <3>1. ASSUME NEW k \in Fresh,
                 NEW d \in {true, false, merge}, k = d,
                 Place(pl.hold, k) > 0
          PROVE  /\ Place(pl.hold, k) \in DOMAIN s
                 /\ KeepsAs(s[Place(pl.hold, k)], k)
      BY <1>4, <1>6, <3>1, <1>14
    <3> QED
      BY <1>4, <3>1
  <2>3. \A b \in pl.open :
          /\ Place(pl.seal, b) \in DOMAIN s
          /\ s[Place(pl.seal, b)].do = "close"
          /\ s[Place(pl.seal, b)].block = b
    BY <1>3, <1>4, <1>6, <1>14
  <2>4. pl.last \in Nat /\ 0 \notin pl.ends /\ s \in Seq(Item) /\ s # <<>>
    BY <1>3, <1>6
  <2> QED
    BY <1>13, <2>1, <2>2, <2>3, <2>4 DEF Works
<1> QED
  BY <1>3, <1>5, <1>15

LEMMA SwitchWorks ==
  ASSUME Creates(2), NEW v \in Var,
         NEW label \in Labelled
  PROVE  \E pl : Works(pl, SwitchItems(v, label)) /\ pl.outer = {label}
<1>1. PICK pl : pl = Plan(<<3, 9>>, <<0, 0>>, 10, {2, 5, 8}, {}, {label})
  OBVIOUS
<1>2. PICK other, next :
       other = New(1) /\ next = New(2)
  OBVIOUS
<1>3. /\ pl.seal = <<3, 9>> /\ pl.hold = <<0, 0>> /\ pl.last = 10
      /\ pl.ends = {2, 5, 8} /\ pl.open = {} /\ pl.outer = {label}
  BY <1>1, <1>2 DEF Plan
<1>4. /\ other \in Fresh /\ next \in Fresh /\ other \in Block
      /\ next \in Block /\ other \in Nat /\ next \in Nat
      /\ other # next
      /\ \A b \in Fresh : b \in {other, next}
      /\ Place(pl.seal, other) = 3 /\ Place(pl.seal, next) = 9
      /\ Place(pl.hold, other) = 0 /\ Place(pl.hold, next) = 0
  <2>1. /\ {1, 2} \subseteq 1..2 /\ {1, 2} \subseteq Nat
        /\ \A d \in 1..2 : d \in {1, 2}
    OBVIOUS
  <2>2. /\ New(1) \in Fresh /\ New(2) \in Fresh /\ New(1) \in Block
        /\ New(2) \in Block /\ New(1) \in Nat /\ New(2) \in Nat
        /\ Place(pl.seal, New(1)) = pl.seal[1]
        /\ Place(pl.seal, New(2)) = pl.seal[2]
        /\ Place(pl.hold, New(1)) = pl.hold[1]
        /\ Place(pl.hold, New(2)) = pl.hold[2]
    BY <2>1, NewBlocks
  <2>3. New(1) # New(2)
    BY <2>1, NewBlocks
  <2>4. \A b \in Fresh : b \in {New(1), New(2)}
    BY <2>1, NewBlocks
  <2> QED
    BY <1>2, <1>3, <2>2, <2>3, <2>4
<1>5. PICK s : s = SwitchItems(v, label)
  OBVIOUS
<1>6. /\ s \in Seq(Item) /\ Len(s) = 9 /\ DOMAIN s = 1..9 /\ s # <<>>
      /\ s[1] = Use(v) /\ s[2] = Branch({other, label, next})
      /\ s[3] = ActivateBlock(other) /\ s[4] = Goto(label)
      /\ s[5] = Goto(next) /\ s[6] = ActivateBlock(label) /\ s[7] = Body
      /\ s[8] = Goto(next) /\ s[9] = TryActivate(next, <<>>)
  <2>1. TryActivate(next, <<>>) \in Item
    <3>1. <<>> \in Seq(SimpleItem)
      OBVIOUS
    <3> QED
      BY <1>4, <3>1, MadeTry
  <2>2. /\ Use(v) \in Item /\ ActivateBlock(other) \in Item
        /\ Goto(next) \in Item /\ Body \in Item
    BY <1>4, Made
  <2>3. /\ Branch({other, label, next}) \in Item /\ Goto(label) \in Item
        /\ ActivateBlock(label) \in Item
    <3>1. label \in Label /\ label \in Block
      BY ConstantsAssumption DEF Label
    <3>2. {other, label, next} \in SUBSET Block
      BY <1>4, <3>1
    <3> QED
      BY <1>4, <3>1, <3>2, Made
  <2> QED
    BY <1>2, <1>5, <2>1, <2>2, <2>3 DEF SwitchItems
<1>7. /\ 1 \notin pl.ends /\ OpenAt(pl, 2, other) /\ OpenAt(pl, 2, label)
      /\ OpenAt(pl, 2, next) /\ 3 - 1 \in pl.ends /\ 3 \notin pl.ends
      /\ OpenAt(pl, 4, label) /\ OpenAt(pl, 5, next) /\ 6 - 1 \in pl.ends
      /\ 6 \notin pl.ends /\ label \in pl.outer \cap Labelled
      /\ 7 \notin pl.ends /\ OpenAt(pl, 8, next) /\ 9 - 1 \in pl.ends
      /\ 9 \notin pl.ends
  BY <1>3, <1>4, FreshBlocks, ConstantsAssumption DEF OpenAt, KeptAt
<1>8. /\ VisitorTypes /\ blockCount' \in blockCount..MaxBlocks
      /\ labelCount' \in labelCount..Cardinality(Labelled)
  BY NewBlocks DEF Creates
<1>9. /\ Fits(pl, 2, Branch({other, label, next}))
      /\ Fits(pl, 4, Goto(label)) /\ Fits(pl, 5, Goto(next))
      /\ Fits(pl, 8, Goto(next))
  BY <1>7, <1>8, ItemsFit
<1>10. Fits(pl, 1, Use(v)) /\ Fits(pl, 7, Body)
  BY <1>7, <1>8, ItemsFit
<1>11. /\ Fits(pl, 3, ActivateBlock(other))
       /\ Fits(pl, 6, ActivateBlock(label))
  BY <1>4, <1>7, <1>8, BlockItemsFit
<1>12. Fits(pl, 9, TryActivate(next, <<>>))
  BY <1>4, <1>7, <1>8, ThenNothing
<1>13. \A j \in DOMAIN s : Fits(pl, j, s[j])
  BY <1>6, <1>9, <1>10, <1>11, <1>12
<1>14. Works(pl, s)
  <2>1. \A b \in Fresh : Place(pl.seal, b) \in Nat /\ Place(pl.hold, b) \in Nat
    <3>1. ASSUME NEW b \in Fresh,
                 NEW d \in {other, next}, b = d
          PROVE  Place(pl.seal, b) \in Nat /\ Place(pl.hold, b) \in Nat
      BY <1>4, <3>1
    <3> QED
      BY <1>4, <3>1
  <2>2. \A k \in Fresh : Place(pl.hold, k) > 0 =>
          /\ Place(pl.hold, k) \in DOMAIN s
          /\ KeepsAs(s[Place(pl.hold, k)], k)
    <3>1. ASSUME NEW k \in Fresh,
                 NEW d \in {other, next}, k = d,
                 Place(pl.hold, k) > 0
          PROVE  /\ Place(pl.hold, k) \in DOMAIN s
                 /\ KeepsAs(s[Place(pl.hold, k)], k)
      BY <1>4, <3>1
    <3> QED
      BY <1>4, <3>1
  <2>3. \A b \in pl.open :
          /\ Place(pl.seal, b) \in DOMAIN s
          /\ s[Place(pl.seal, b)].do = "close"
          /\ s[Place(pl.seal, b)].block = b
    BY <1>3, <1>4, <1>6
  <2>4. pl.last \in Nat /\ 0 \notin pl.ends /\ s \in Seq(Item) /\ s # <<>>
    BY <1>3, <1>6
  <2> QED
    BY <1>13, <2>1, <2>2, <2>3, <2>4 DEF Works
<1> QED
  BY <1>3, <1>5, <1>14

LEMMA SwitchDefaultWorks ==
  ASSUME Creates(3), NEW v \in Var,
         NEW label \in Labelled
  PROVE  \E pl : Works(pl, SwitchDefaultItems(v, label)) /\ pl.outer = {label}
<1>1. PICK pl : pl = Plan(<<3, 12, 9>>, <<0, 0, 0>>, 13,
                         {2, 5, 8, 11}, {}, {label})
  OBVIOUS
<1>2. PICK other, next, default :
        other = New(1) /\ next = New(2) /\ default = New(3)
  OBVIOUS
<1>3. /\ pl.seal = <<3, 12, 9>> /\ pl.hold = <<0, 0, 0>> /\ pl.last = 13
      /\ pl.ends = {2, 5, 8, 11} /\ pl.open = {} /\ pl.outer = {label}
  BY <1>1, <1>2 DEF Plan
<1>4. /\ other \in Fresh /\ next \in Fresh /\ default \in Fresh
      /\ other \in Block /\ next \in Block /\ default \in Block
      /\ other \in Nat /\ next \in Nat /\ default \in Nat
      /\ other # next /\ other # default /\ next # default
      /\ \A b \in Fresh : b \in {other, next, default}
      /\ Place(pl.seal, other) = 3 /\ Place(pl.seal, next) = 12
      /\ Place(pl.seal, default) = 9 /\ Place(pl.hold, other) = 0
      /\ Place(pl.hold, next) = 0 /\ Place(pl.hold, default) = 0
  <2>1. /\ {1, 2, 3} \subseteq 1..3 /\ {1, 2, 3} \subseteq Nat
        /\ \A d \in 1..3 : d \in {1, 2, 3}
    OBVIOUS
  <2>2. /\ New(1) \in Fresh /\ New(2) \in Fresh /\ New(3) \in Fresh
        /\ New(1) \in Block /\ New(2) \in Block /\ New(3) \in Block
        /\ New(1) \in Nat /\ New(2) \in Nat /\ New(3) \in Nat
        /\ Place(pl.seal, New(1)) = pl.seal[1]
        /\ Place(pl.seal, New(2)) = pl.seal[2]
        /\ Place(pl.seal, New(3)) = pl.seal[3]
        /\ Place(pl.hold, New(1)) = pl.hold[1]
        /\ Place(pl.hold, New(2)) = pl.hold[2]
        /\ Place(pl.hold, New(3)) = pl.hold[3]
    BY <2>1, NewBlocks
  <2>3. New(1) # New(2) /\ New(1) # New(3) /\ New(2) # New(3)
    BY <2>1, NewBlocks
  <2>4. \A b \in Fresh : b \in {New(1), New(2), New(3)}
    BY <2>1, NewBlocks
  <2> QED
    BY <1>2, <1>3, <2>2, <2>3, <2>4
<1>5. PICK s : s = SwitchDefaultItems(v, label)
  OBVIOUS
<1>6. /\ s \in Seq(Item) /\ Len(s) = 12 /\ DOMAIN s = 1..12 /\ s # <<>>
      /\ s[1] = Use(v) /\ s[2] = Branch({other, label, default})
      /\ s[3] = ActivateBlock(other) /\ s[4] = Goto(label)
      /\ s[5] = Goto(next) /\ s[6] = ActivateBlock(label) /\ s[7] = Body
      /\ s[8] = Goto(next) /\ s[9] = ActivateBlock(default) /\ s[10] = Body
      /\ s[11] = Goto(next) /\ s[12] = TryActivate(next, <<>>)
  <2>1. TryActivate(next, <<>>) \in Item
    <3>1. <<>> \in Seq(SimpleItem)
      OBVIOUS
    <3> QED
      BY <1>4, <3>1, MadeTry
  <2>2. /\ Use(v) \in Item /\ ActivateBlock(other) \in Item
        /\ Goto(next) \in Item /\ Body \in Item
        /\ ActivateBlock(default) \in Item
    BY <1>4, Made
  <2>3. /\ Branch({other, label, default}) \in Item /\ Goto(label) \in Item
        /\ ActivateBlock(label) \in Item
    <3>1. label \in Label /\ label \in Block
      BY ConstantsAssumption DEF Label
    <3>2. {other, label, default} \in SUBSET Block
      BY <1>4, <3>1
    <3> QED
      BY <1>4, <3>1, <3>2, Made
  <2> QED
    BY <1>2, <1>5, <2>1, <2>2, <2>3 DEF SwitchDefaultItems
<1>7. /\ 1 \notin pl.ends /\ OpenAt(pl, 2, other) /\ OpenAt(pl, 2, label)
      /\ OpenAt(pl, 2, default) /\ 3 - 1 \in pl.ends /\ 3 \notin pl.ends
      /\ OpenAt(pl, 4, label) /\ OpenAt(pl, 5, next) /\ 6 - 1 \in pl.ends
      /\ 6 \notin pl.ends /\ label \in pl.outer \cap Labelled
      /\ 7 \notin pl.ends /\ OpenAt(pl, 8, next) /\ 9 - 1 \in pl.ends
      /\ 9 \notin pl.ends /\ 10 \notin pl.ends /\ OpenAt(pl, 11, next)
      /\ 12 - 1 \in pl.ends /\ 12 \notin pl.ends
  BY <1>3, <1>4, FreshBlocks, ConstantsAssumption DEF OpenAt, KeptAt
<1>8. /\ VisitorTypes /\ blockCount' \in blockCount..MaxBlocks
      /\ labelCount' \in labelCount..Cardinality(Labelled)
  BY NewBlocks DEF Creates
<1>9. /\ Fits(pl, 2, Branch({other, label, default}))
      /\ Fits(pl, 4, Goto(label)) /\ Fits(pl, 5, Goto(next))
      /\ Fits(pl, 8, Goto(next)) /\ Fits(pl, 11, Goto(next))
  BY <1>7, <1>8, ItemsFit
<1>10. Fits(pl, 1, Use(v)) /\ Fits(pl, 7, Body) /\ Fits(pl, 10, Body)
  BY <1>7, <1>8, ItemsFit
<1>11. /\ Fits(pl, 3, ActivateBlock(other))
       /\ Fits(pl, 6, ActivateBlock(label))
       /\ Fits(pl, 9, ActivateBlock(default))
  BY <1>4, <1>7, <1>8, BlockItemsFit
<1>12. Fits(pl, 12, TryActivate(next, <<>>))
  BY <1>4, <1>7, <1>8, ThenNothing
<1>13. \A j \in DOMAIN s : Fits(pl, j, s[j])
  BY <1>6, <1>9, <1>10, <1>11, <1>12
<1>14. Works(pl, s)
  <2>1. \A b \in Fresh : Place(pl.seal, b) \in Nat /\ Place(pl.hold, b) \in Nat
    <3>1. ASSUME NEW b \in Fresh,
                 NEW d \in {other, next, default}, b = d
          PROVE  Place(pl.seal, b) \in Nat /\ Place(pl.hold, b) \in Nat
      BY <1>4, <3>1
    <3> QED
      BY <1>4, <3>1
  <2>2. \A k \in Fresh : Place(pl.hold, k) > 0 =>
          /\ Place(pl.hold, k) \in DOMAIN s
          /\ KeepsAs(s[Place(pl.hold, k)], k)
    <3>1. ASSUME NEW k \in Fresh,
                 NEW d \in {other, next, default}, k = d,
                 Place(pl.hold, k) > 0
          PROVE  /\ Place(pl.hold, k) \in DOMAIN s
                 /\ KeepsAs(s[Place(pl.hold, k)], k)
      BY <1>4, <3>1
    <3> QED
      BY <1>4, <3>1
  <2>3. \A b \in pl.open :
          /\ Place(pl.seal, b) \in DOMAIN s
          /\ s[Place(pl.seal, b)].do = "close"
          /\ s[Place(pl.seal, b)].block = b
    BY <1>3, <1>4, <1>6
  <2>4. pl.last \in Nat /\ 0 \notin pl.ends /\ s \in Seq(Item) /\ s # <<>>
    BY <1>3, <1>6
  <2> QED
    BY <1>13, <2>1, <2>2, <2>3, <2>4 DEF Works
<1> QED
  BY <1>3, <1>5, <1>14

(* Some plan exists for what a loop consists of.                           *)
IsPlanned(loop, label) ==
  \E pl : Works(pl, loop) /\ pl.outer = {label} \cap Labelled

LEMMA WhileWorks ==
  ASSUME Creates(3),
         NEW label \in {NoLabel} \cup Labelled
  PROVE  IsPlanned(WhileItems(label), label)
<1>1. PICK pl : pl = Plan(<<7, 8, 4>>, <<0, 0, 0>>, 7,
                         {1, 3, 6, 7}, {New(1)}, {label} \cap Labelled)
  OBVIOUS
<1>2. PICK header, next, body :
       header = New(1) /\ next = New(2) /\ body = New(3)
  OBVIOUS
<1>3. /\ pl.seal = <<7, 8, 4>> /\ pl.hold = <<0, 0, 0>> /\ pl.last = 7
      /\ pl.ends = {1, 3, 6, 7} /\ pl.open = {header}
      /\ pl.outer = {label} \cap Labelled
  BY <1>1, <1>2 DEF Plan
<1>4. /\ header \in Fresh /\ next \in Fresh /\ body \in Fresh
      /\ header \in Block /\ next \in Block /\ body \in Block
      /\ header \in Nat /\ next \in Nat /\ body \in Nat
      /\ header # next /\ header # body /\ next # body
      /\ \A b \in Fresh : b \in {header, next, body}
      /\ Place(pl.seal, header) = 7 /\ Place(pl.seal, next) = 8
      /\ Place(pl.seal, body) = 4 /\ Place(pl.hold, header) = 0
      /\ Place(pl.hold, next) = 0 /\ Place(pl.hold, body) = 0
  <2>1. /\ {1, 2, 3} \subseteq 1..3 /\ {1, 2, 3} \subseteq Nat
        /\ \A d \in 1..3 : d \in {1, 2, 3}
    OBVIOUS
  <2>2. /\ New(1) \in Fresh /\ New(2) \in Fresh /\ New(3) \in Fresh
        /\ New(1) \in Block /\ New(2) \in Block /\ New(3) \in Block
        /\ New(1) \in Nat /\ New(2) \in Nat /\ New(3) \in Nat
        /\ Place(pl.seal, New(1)) = pl.seal[1]
        /\ Place(pl.seal, New(2)) = pl.seal[2]
        /\ Place(pl.seal, New(3)) = pl.seal[3]
        /\ Place(pl.hold, New(1)) = pl.hold[1]
        /\ Place(pl.hold, New(2)) = pl.hold[2]
        /\ Place(pl.hold, New(3)) = pl.hold[3]
    BY <2>1, NewBlocks
  <2>3. New(1) # New(2) /\ New(1) # New(3) /\ New(2) # New(3)
    BY <2>1, NewBlocks
  <2>4. \A b \in Fresh : b \in {New(1), New(2), New(3)}
    BY <2>1, NewBlocks
  <2> QED
    BY <1>2, <1>3, <2>2, <2>3, <2>4
<1>5. PICK s : s = WhileItems(label)
  OBVIOUS
<1>6. /\ s \in Seq(Item) /\ Len(s) = 8 /\ DOMAIN s = 1..8 /\ s # <<>>
      /\ s[1] = Goto(header) /\ s[2] = OpenBlock(header)
      /\ s[3] = Cond(body, next) /\ s[4] = ActivateBlock(body)
      /\ s[5] = Loop(header, next, label) /\ s[6] = Goto(header)
      /\ s[7] = CloseBlock(header) /\ s[8] = ActivateBlock(next)
  <2>2. /\ Goto(header) \in Item /\ OpenBlock(header) \in Item
        /\ Cond(body, next) \in Item /\ ActivateBlock(body) \in Item
        /\ CloseBlock(header) \in Item /\ ActivateBlock(next) \in Item
    BY <1>4, Made
  <2>3. Loop(header, next, label) \in Item
    <3>1. label \in Label
      BY ConstantsAssumption DEF Label
    <3> QED
      BY <1>4, <3>1, Made
  <2> QED
    BY <1>2, <1>5, <2>2, <2>3 DEF WhileItems
<1>7. /\ OpenAt(pl, 1, header) /\ 2 - 1 \in pl.ends /\ 2 \notin pl.ends
      /\ header \in pl.open /\ 2 < Place(pl.seal, header)
      /\ OpenAt(pl, 3, body) /\ OpenAt(pl, 3, next) /\ 4 - 1 \in pl.ends
      /\ 4 \notin pl.ends /\ OpenAt(pl, 5, header) /\ OpenAt(pl, 5, next)
      /\ 5 \notin pl.ends
      /\ label \in {NoLabel} \cup (pl.outer \cap Labelled)
      /\ OpenAt(pl, 6, header) /\ 7 - 1 \in pl.ends /\ pl.last <= 7
      /\ 8 - 1 \in pl.ends /\ 8 \notin pl.ends
  BY <1>3, <1>4, FreshBlocks, ConstantsAssumption DEF OpenAt, KeptAt
<1>8. /\ VisitorTypes /\ blockCount' \in blockCount..MaxBlocks
      /\ labelCount' \in labelCount..Cardinality(Labelled)
  BY NewBlocks DEF Creates
<1>9. /\ Fits(pl, 1, Goto(header)) /\ Fits(pl, 3, Cond(body, next))
      /\ Fits(pl, 5, Loop(header, next, label)) /\ Fits(pl, 6, Goto(header))
  BY <1>7, <1>8, ItemsFit
<1>10. /\ Fits(pl, 2, OpenBlock(header)) /\ Fits(pl, 4, ActivateBlock(body))
       /\ Fits(pl, 7, CloseBlock(header)) /\ Fits(pl, 8, ActivateBlock(next))
  BY <1>4, <1>7, <1>8, BlockItemsFit
<1>11. \A j \in DOMAIN s : Fits(pl, j, s[j])
  BY <1>6, <1>9, <1>10
<1>12. s[7].do = "close" /\ s[7].block = header
  BY <1>4, <1>6, Made DEF KeepsAs
<1>13. Works(pl, s)
  <2>1. \A b \in Fresh : Place(pl.seal, b) \in Nat /\ Place(pl.hold, b) \in Nat
    <3>1. ASSUME NEW b \in Fresh,
                 NEW d \in {header, next, body}, b = d
          PROVE  Place(pl.seal, b) \in Nat /\ Place(pl.hold, b) \in Nat
      BY <1>4, <3>1
    <3> QED
      BY <1>4, <3>1
  <2>2. \A k \in Fresh : Place(pl.hold, k) > 0 =>
          /\ Place(pl.hold, k) \in DOMAIN s
          /\ KeepsAs(s[Place(pl.hold, k)], k)
    <3>1. ASSUME NEW k \in Fresh,
                 NEW d \in {header, next, body}, k = d,
                 Place(pl.hold, k) > 0
          PROVE  /\ Place(pl.hold, k) \in DOMAIN s
                 /\ KeepsAs(s[Place(pl.hold, k)], k)
      BY <1>4, <1>6, <3>1, <1>12
    <3> QED
      BY <1>4, <3>1
  <2>3. \A b \in pl.open :
          /\ Place(pl.seal, b) \in DOMAIN s
          /\ s[Place(pl.seal, b)].do = "close"
          /\ s[Place(pl.seal, b)].block = b
    BY <1>3, <1>4, <1>6, <1>12
  <2>4. pl.last \in Nat /\ 0 \notin pl.ends /\ s \in Seq(Item) /\ s # <<>>
    BY <1>3, <1>6
  <2> QED
    BY <1>11, <2>1, <2>2, <2>3, <2>4 DEF Works
<1> QED
  BY <1>3, <1>5, <1>13 DEF IsPlanned

LEMMA RangeWorks ==
  ASSUME Creates(4), NEW i \in Var, NEW step \in Var, NEW stop \in Var,
         NEW start \in Var, NEW counter \in Var,
         NEW label \in {NoLabel} \cup Labelled
  PROVE  IsPlanned(RangeItems(i, step, stop, start, counter, label), label)
<1>1. PICK pl : pl = Plan(<<13, 19, 18, 20>>, <<2, 9, 1, 3>>, 19,
                         {7, 12, 17, 18, 19}, {New(2)}, {label} \cap Labelled)
  OBVIOUS
<1>2. PICK body, header, footer, next :
        /\ body = New(1) /\ header = New(2) /\ footer = New(3)
        /\ next = New(4)
  OBVIOUS
<1>3. /\ pl.seal = <<13, 19, 18, 20>> /\ pl.hold = <<2, 9, 1, 3>>
      /\ pl.last = 19 /\ pl.ends = {7, 12, 17, 18, 19} /\ pl.open = {header}
      /\ pl.outer = {label} \cap Labelled
  BY <1>1, <1>2 DEF Plan
<1>4. /\ body \in Fresh /\ header \in Fresh /\ footer \in Fresh
      /\ next \in Fresh /\ body \in Block /\ header \in Block
      /\ footer \in Block /\ next \in Block /\ body \in Nat /\ header \in Nat
      /\ footer \in Nat /\ next \in Nat
      /\ body # header /\ body # footer /\ body # next /\ header # footer
      /\ header # next /\ footer # next
      /\ \A b \in Fresh : b \in {body, header, footer, next}
      /\ Place(pl.seal, body) = 13 /\ Place(pl.seal, header) = 19
      /\ Place(pl.seal, footer) = 18 /\ Place(pl.seal, next) = 20
      /\ Place(pl.hold, body) = 2 /\ Place(pl.hold, header) = 9
      /\ Place(pl.hold, footer) = 1 /\ Place(pl.hold, next) = 3
  <2>1. /\ {1, 2, 3, 4} \subseteq 1..4 /\ {1, 2, 3, 4} \subseteq Nat
        /\ \A d \in 1..4 : d \in {1, 2, 3, 4}
    OBVIOUS
  <2>2. /\ New(1) \in Fresh /\ New(2) \in Fresh /\ New(3) \in Fresh
        /\ New(4) \in Fresh /\ New(1) \in Block /\ New(2) \in Block
        /\ New(3) \in Block /\ New(4) \in Block /\ New(1) \in Nat
        /\ New(2) \in Nat /\ New(3) \in Nat /\ New(4) \in Nat
        /\ Place(pl.seal, New(1)) = pl.seal[1]
        /\ Place(pl.seal, New(2)) = pl.seal[2]
        /\ Place(pl.seal, New(3)) = pl.seal[3]
        /\ Place(pl.seal, New(4)) = pl.seal[4]
        /\ Place(pl.hold, New(1)) = pl.hold[1]
        /\ Place(pl.hold, New(2)) = pl.hold[2]
        /\ Place(pl.hold, New(3)) = pl.hold[3]
        /\ Place(pl.hold, New(4)) = pl.hold[4]
    BY <2>1, NewBlocks
  <2>3. /\ New(1) # New(2) /\ New(1) # New(3) /\ New(1) # New(4)
        /\ New(2) # New(3) /\ New(2) # New(4) /\ New(3) # New(4)
    BY <2>1, NewBlocks
  <2>4. \A b \in Fresh : b \in {New(1), New(2), New(3), New(4)}
    BY <2>1, NewBlocks
  <2> QED
    BY <1>2, <1>3, <2>2, <2>3, <2>4
<1>5. PICK s : s = RangeItems(i, step, stop, start, counter, label)
  OBVIOUS
<1>6. PICK then :
        then = <<UseKept(header), UseKept(footer), AssignTo(counter),
                   Goto(header)>>
  OBVIOUS
<1>7. /\ s \in Seq(Item) /\ Len(s) = 21 /\ DOMAIN s = 1..21 /\ s # <<>>
      /\ s[1] = Hold(step, footer) /\ s[2] = Hold(stop, body)
      /\ s[3] = Hold(start, next) /\ s[4] = UseKept(footer)
      /\ s[5] = UseKept(next) /\ s[6] = AssignTo(counter)
      /\ s[7] = Goto(header) /\ s[8] = OpenBlock(header)
      /\ s[9] = Hold(counter, header) /\ s[10] = UseKept(header)
      /\ s[11] = UseKept(body) /\ s[12] = Branch({body, next})
      /\ s[13] = ActivateBlock(body) /\ s[14] = UseKept(header)
      /\ s[15] = AssignTo(i) /\ s[16] = Loop(footer, next, label)
      /\ s[17] = Goto(footer) /\ s[18] = TryActivate(footer, then)
      /\ s[19] = CloseBlock(header) /\ s[20] = ActivateBlock(next)
      /\ s[21] = Release({body, header, footer, next})
  <2>1. TryActivate(footer, then) \in Item
    <3>1. /\ UseKept(header) \in SimpleItem /\ UseKept(footer) \in SimpleItem
          /\ AssignTo(counter) \in SimpleItem /\ Goto(header) \in SimpleItem
      BY <1>4, SimpleMade
    <3>2. then \in Seq(SimpleItem)
      BY <3>1, <1>6
    <3> QED
      BY <1>4, <3>2, MadeTry
  <2>2. /\ Hold(step, footer) \in Item /\ Hold(stop, body) \in Item
        /\ Hold(start, next) \in Item /\ UseKept(footer) \in Item
        /\ UseKept(next) \in Item /\ AssignTo(counter) \in Item
        /\ Goto(header) \in Item /\ OpenBlock(header) \in Item
        /\ Hold(counter, header) \in Item /\ UseKept(header) \in Item
        /\ UseKept(body) \in Item /\ Branch({body, next}) \in Item
        /\ ActivateBlock(body) \in Item /\ AssignTo(i) \in Item
        /\ Goto(footer) \in Item /\ CloseBlock(header) \in Item
        /\ ActivateBlock(next) \in Item
    BY <1>4, Made
  <2>3. /\ Loop(footer, next, label) \in Item
        /\ Release({body, header, footer, next}) \in Item
    <3>1. {body, header, footer, next} \in SUBSET Nat
      BY <1>4
    <3>2. label \in Label
      BY ConstantsAssumption DEF Label
    <3> QED
      BY <1>4, <3>1, <3>2, Made
  <2>4. s =
        <<Hold(step, footer), Hold(stop, body), Hold(start, next),
          UseKept(footer), UseKept(next), AssignTo(counter)>> \o
        <<Goto(header), OpenBlock(header), Hold(counter, header)>> \o
        <<UseKept(header), UseKept(body), Branch({body, next}),
          ActivateBlock(body), UseKept(header), AssignTo(i),
          Loop(footer, next, label), Goto(footer),
          TryActivate(footer, then)>> \o
        <<CloseBlock(header), ActivateBlock(next),
          Release({body, header, footer, next})>>
    BY <1>2, <1>6, <1>5 DEF RangeItems, EnterCounted, LeaveCounted
  <2>5. s \in Seq(Item) /\ Len(s) = 21 /\ DOMAIN s = 1..21 /\ s # <<>>
    BY <2>1, <2>2, <2>3, <2>4
  <2>6. /\ s[1] = Hold(step, footer) /\ s[2] = Hold(stop, body)
        /\ s[3] = Hold(start, next) /\ s[4] = UseKept(footer)
        /\ s[5] = UseKept(next) /\ s[6] = AssignTo(counter)
    BY <2>1, <2>2, <2>3, <2>4
  <2>7. /\ s[7] = Goto(header) /\ s[8] = OpenBlock(header)
        /\ s[9] = Hold(counter, header) /\ s[10] = UseKept(header)
        /\ s[11] = UseKept(body) /\ s[12] = Branch({body, next})
    BY <2>1, <2>2, <2>3, <2>4
  <2>8. /\ s[13] = ActivateBlock(body) /\ s[14] = UseKept(header)
        /\ s[15] = AssignTo(i) /\ s[16] = Loop(footer, next, label)
        /\ s[17] = Goto(footer) /\ s[18] = TryActivate(footer, then)
    BY <2>1, <2>2, <2>3, <2>4
  <2>9. /\ s[19] = CloseBlock(header) /\ s[20] = ActivateBlock(next)
        /\ s[21] = Release({body, header, footer, next})
    BY <2>1, <2>2, <2>3, <2>4
  <2> QED
    BY <2>5, <2>6, <2>7, <2>8, <2>9
<1>8. /\ 1 \notin pl.ends /\ 2 \notin pl.ends /\ 3 \notin pl.ends
      /\ KeptAt(pl, 4, footer) /\ 4 \notin pl.ends /\ KeptAt(pl, 5, next)
      /\ 5 \notin pl.ends /\ 6 \notin pl.ends /\ OpenAt(pl, 7, header)
      /\ 8 - 1 \in pl.ends /\ 8 \notin pl.ends /\ header \in pl.open
      /\ 8 < Place(pl.seal, header) /\ 9 \notin pl.ends
      /\ KeptAt(pl, 10, header) /\ 10 \notin pl.ends /\ KeptAt(pl, 11, body)
      /\ 11 \notin pl.ends /\ OpenAt(pl, 12, body) /\ OpenAt(pl, 12, next)
      /\ 13 - 1 \in pl.ends /\ 13 \notin pl.ends /\ KeptAt(pl, 14, header)
      /\ 14 \notin pl.ends /\ 15 \notin pl.ends /\ OpenAt(pl, 16, footer)
      /\ OpenAt(pl, 16, next) /\ 16 \notin pl.ends
      /\ label \in {NoLabel} \cup (pl.outer \cap Labelled)
      /\ OpenAt(pl, 17, footer) /\ 18 - 1 \in pl.ends
      /\ KeptAt(pl, 18, header) /\ KeptAt(pl, 18, footer)
      /\ 19 - 1 \in pl.ends /\ pl.last <= 19 /\ 20 - 1 \in pl.ends
      /\ 20 \notin pl.ends /\ 21 \notin pl.ends /\ pl.last <= 21
      /\ {body, header, footer, next} \in SUBSET Fresh
  BY <1>3, <1>4, FreshBlocks, ConstantsAssumption DEF OpenAt, KeptAt
<1>9. /\ VisitorTypes /\ blockCount' \in blockCount..MaxBlocks
      /\ labelCount' \in labelCount..Cardinality(Labelled)
  BY NewBlocks DEF Creates
<1>10. /\ Fits(pl, 7, Goto(header)) /\ Fits(pl, 12, Branch({body, next}))
      /\ Fits(pl, 16, Loop(footer, next, label))
      /\ Fits(pl, 17, Goto(footer))
  BY <1>8, <1>9, ItemsFit
<1>11. Fits(pl, 6, AssignTo(counter)) /\ Fits(pl, 15, AssignTo(i))
  BY <1>8, <1>9, ItemsFit
<1>12. /\ Fits(pl, 1, Hold(step, footer)) /\ Fits(pl, 2, Hold(stop, body))
       /\ Fits(pl, 3, Hold(start, next)) /\ Fits(pl, 4, UseKept(footer))
       /\ Fits(pl, 5, UseKept(next)) /\ Fits(pl, 9, Hold(counter, header))
       /\ Fits(pl, 10, UseKept(header)) /\ Fits(pl, 11, UseKept(body))
       /\ Fits(pl, 14, UseKept(header))
       /\ Fits(pl, 21, Release({body, header, footer, next}))
  BY <1>4, <1>8, <1>9, ItemsFit
<1>13. /\ Fits(pl, 8, OpenBlock(header)) /\ Fits(pl, 13, ActivateBlock(body))
       /\ Fits(pl, 19, CloseBlock(header))
       /\ Fits(pl, 20, ActivateBlock(next))
  BY <1>4, <1>8, <1>9, BlockItemsFit
<1>14. Fits(pl, 18, TryActivate(footer, then))
  <2>1. /\ UseKept(header) \in SimpleItem /\ UseKept(footer) \in SimpleItem
        /\ AssignTo(counter) \in SimpleItem /\ Goto(header) \in SimpleItem
    BY <1>4, SimpleMade
  <2>2. /\ then \in Seq(SimpleItem) /\ then # <<>> /\ Len(then) = 4
        /\ then[1] = UseKept(header) /\ then[2] = UseKept(footer)
        /\ then[3] = AssignTo(counter) /\ then[4] = Goto(header)
    BY <1>6, <2>1
  <2>3. /\ Straight(pl, 18, then[1]) /\ Straight(pl, 18, then[2])
        /\ Straight(pl, 18, then[3])
    <3>1. /\ Straight(pl, 18, UseKept(header))
          /\ Straight(pl, 18, UseKept(footer))
          /\ Straight(pl, 18, AssignTo(counter))
      BY <1>4, <1>8, StraightItems
    <3> QED
      BY <2>2, <3>1
  <2>4. 1..(Len(then) - 1) = {1, 2, 3}
    BY <2>2
  <2>5. \A g \in 1..(Len(then) - 1) : Straight(pl, 18, then[g])
    BY <2>3, <2>4
  <2>6. 18 \in Nat /\ footer \in Fresh /\ header \in Fresh \ {footer}
        /\ Place(pl.seal, footer) = 18 /\ 18 <= Place(pl.seal, header)
    BY <1>4
  <2> QED
    BY <1>8, <1>9, <2>2, <2>5, <2>6, ThenAdvance
<1>15. \A j \in DOMAIN s : Fits(pl, j, s[j])
  BY <1>7, <1>10, <1>11, <1>12, <1>13, <1>14
<1>16. /\ KeepsAs(s[2], body) /\ KeepsAs(s[9], header)
       /\ KeepsAs(s[1], footer) /\ KeepsAs(s[3], next) /\ s[19].do = "close"
       /\ s[19].block = header
  <2>1. /\ KeepsAs(s[2], body) /\ KeepsAs(s[9], header)
        /\ KeepsAs(s[1], footer) /\ KeepsAs(s[3], next)
    BY <1>4, <1>7, HoldKeeps
  <2>2. s[19].do = "close" /\ s[19].block = header
    BY <1>4, <1>7, CloseMade
  <2> QED
    BY <2>1, <2>2
<1>17. Works(pl, s)
  <2>1. \A b \in Fresh : Place(pl.seal, b) \in Nat /\ Place(pl.hold, b) \in Nat
    <3>1. ASSUME NEW b \in Fresh,
                 NEW d \in {body, header, footer, next}, b = d
          PROVE  Place(pl.seal, b) \in Nat /\ Place(pl.hold, b) \in Nat
      BY <1>4, <3>1
    <3> QED
      BY <1>4, <3>1
  <2>2. \A k \in Fresh : Place(pl.hold, k) > 0 =>
          /\ Place(pl.hold, k) \in DOMAIN s
          /\ KeepsAs(s[Place(pl.hold, k)], k)
    <3>1. ASSUME NEW k \in Fresh,
                 NEW d \in {body, header, footer, next}, k = d,
                 Place(pl.hold, k) > 0
          PROVE  /\ Place(pl.hold, k) \in DOMAIN s
                 /\ KeepsAs(s[Place(pl.hold, k)], k)
      <4>1. \A j \in 1..21 : j \in DOMAIN s
        BY <1>7
      <4>2. /\ KeepsAs(s[Place(pl.hold, body)], body)
            /\ KeepsAs(s[Place(pl.hold, header)], header)
            /\ KeepsAs(s[Place(pl.hold, footer)], footer)
            /\ KeepsAs(s[Place(pl.hold, next)], next)
        BY <1>4, <1>16
      <4>3. /\ Place(pl.hold, body) \in 1..21
            /\ Place(pl.hold, header) \in 1..21
            /\ Place(pl.hold, footer) \in 1..21
            /\ Place(pl.hold, next) \in 1..21
        BY <1>4
      <4> QED
        BY <3>1, <4>1, <4>2, <4>3
    <3> QED
      BY <1>4, <3>1
  <2>3. \A b \in pl.open :
          /\ Place(pl.seal, b) \in DOMAIN s
          /\ s[Place(pl.seal, b)].do = "close"
          /\ s[Place(pl.seal, b)].block = b
    <3>1. 19 \in DOMAIN s /\ Place(pl.seal, header) = 19
      BY <1>4, <1>7
    <3> QED
      BY <1>3, <3>1, <1>16
  <2>4. pl.last \in Nat /\ 0 \notin pl.ends /\ s \in Seq(Item) /\ s # <<>>
    BY <1>3, <1>7
  <2> QED
    BY <1>15, <2>1, <2>2, <2>3, <2>4 DEF Works
<1> QED
  BY <1>3, <1>5, <1>17 DEF IsPlanned

LEMMA ReversedWorks ==
  ASSUME Creates(5), NEW i \in Var, NEW step \in Var, NEW stop \in Var,
         NEW start \in Var, NEW greatest \in Var, NEW down \in BOOLEAN,
         NEW label \in {NoLabel} \cup Labelled
  PROVE  IsPlanned(
           ReversedItems(i, step, stop, start, greatest, down, label), label)
<1>1. PICK pl : pl = Plan(<<22, 8, 21, 21, 23>>, <<18, 2, 3, 1, 13>>, 22,
                         {7, 16, 20, 21, 22}, {New(1)}, {label} \cap Labelled)
  OBVIOUS
<1>2. PICK body, header, footer, increment, next, first, last :
        /\ body = New(1) /\ header = New(2) /\ footer = New(3)
        /\ increment = New(4) /\ next = New(5)
        /\ first = IF down THEN next ELSE footer
        /\ last = IF down THEN footer ELSE next
  OBVIOUS
<1>3. /\ pl.seal = <<22, 8, 21, 21, 23>> /\ pl.hold = <<18, 2, 3, 1, 13>>
      /\ pl.last = 22 /\ pl.ends = {7, 16, 20, 21, 22} /\ pl.open = {body}
      /\ pl.outer = {label} \cap Labelled
  BY <1>1, <1>2 DEF Plan
<1>4. /\ body \in Fresh /\ header \in Fresh /\ footer \in Fresh
      /\ increment \in Fresh /\ next \in Fresh /\ body \in Block
      /\ header \in Block /\ footer \in Block /\ increment \in Block
      /\ next \in Block /\ body \in Nat /\ header \in Nat /\ footer \in Nat
      /\ increment \in Nat /\ next \in Nat /\ first \in {footer, next}
      /\ last \in {footer, next}
      /\ body # header /\ body # footer /\ body # increment /\ body # next
      /\ header # footer /\ header # increment /\ header # next
      /\ footer # increment /\ footer # next /\ increment # next
      /\ \A b \in Fresh : b \in {body, header, footer, increment, next}
      /\ Place(pl.seal, body) = 22 /\ Place(pl.seal, header) = 8
      /\ Place(pl.seal, footer) = 21 /\ Place(pl.seal, increment) = 21
      /\ Place(pl.seal, next) = 23 /\ Place(pl.hold, body) = 18
      /\ Place(pl.hold, header) = 2 /\ Place(pl.hold, footer) = 3
      /\ Place(pl.hold, increment) = 1 /\ Place(pl.hold, next) = 13
  <2>1. /\ {1, 2, 3, 4, 5} \subseteq 1..5 /\ {1, 2, 3, 4, 5} \subseteq Nat
        /\ \A d \in 1..5 : d \in {1, 2, 3, 4, 5}
    OBVIOUS
  <2>2. /\ New(1) \in Fresh /\ New(2) \in Fresh /\ New(3) \in Fresh
        /\ New(4) \in Fresh /\ New(5) \in Fresh /\ New(1) \in Block
        /\ New(2) \in Block /\ New(3) \in Block /\ New(4) \in Block
        /\ New(5) \in Block /\ New(1) \in Nat /\ New(2) \in Nat
        /\ New(3) \in Nat /\ New(4) \in Nat /\ New(5) \in Nat
        /\ Place(pl.seal, New(1)) = pl.seal[1]
        /\ Place(pl.seal, New(2)) = pl.seal[2]
        /\ Place(pl.seal, New(3)) = pl.seal[3]
        /\ Place(pl.seal, New(4)) = pl.seal[4]
        /\ Place(pl.seal, New(5)) = pl.seal[5]
        /\ Place(pl.hold, New(1)) = pl.hold[1]
        /\ Place(pl.hold, New(2)) = pl.hold[2]
        /\ Place(pl.hold, New(3)) = pl.hold[3]
        /\ Place(pl.hold, New(4)) = pl.hold[4]
        /\ Place(pl.hold, New(5)) = pl.hold[5]
    BY <2>1, NewBlocks
  <2>3. /\ New(1) # New(2) /\ New(1) # New(3) /\ New(1) # New(4)
        /\ New(1) # New(5) /\ New(2) # New(3) /\ New(2) # New(4)
        /\ New(2) # New(5) /\ New(3) # New(4) /\ New(3) # New(5)
        /\ New(4) # New(5)
    BY <2>1, NewBlocks
  <2>4. \A b \in Fresh : b \in {New(1), New(2), New(3), New(4), New(5)}
    BY <2>1, NewBlocks
  <2> QED
    BY <1>2, <1>3, <2>2, <2>3, <2>4
<1>5. PICK s : s = ReversedItems(i, step, stop, start, greatest, down, label)
  OBVIOUS
<1>6. PICK then :
        then = <<UseKept(last), UseKept(body), Branch({increment, next}),
                   ActivateBlock(increment), UseKept(body),
                   UseKept(increment), AssignTo(i), Goto(body)>>
  OBVIOUS
<1>7. /\ s \in Seq(Item) /\ Len(s) = 24 /\ DOMAIN s = 1..24 /\ s # <<>>
      /\ s[1] = Hold(step, increment) /\ s[2] = Hold(stop, header)
      /\ s[3] = Hold(start, footer) /\ s[4] = UseKept(increment)
      /\ s[5] = UseKept(footer) /\ s[6] = UseKept(header)
      /\ s[7] = Branch({header, next}) /\ s[8] = ActivateBlock(header)
      /\ s[9] = UseKept(header) /\ s[10] = UseKept(footer)
      /\ s[11] = UseKept(increment) /\ s[12] = AssignTo(greatest)
      /\ s[13] = Hold(greatest, next) /\ s[14] = UseKept(first)
      /\ s[15] = AssignTo(i) /\ s[16] = Goto(body) /\ s[17] = OpenBlock(body)
      /\ s[18] = Hold(i, body) /\ s[19] = Loop(footer, next, label)
      /\ s[20] = Goto(footer) /\ s[21] = TryActivate(footer, then)
      /\ s[22] = CloseBlock(body) /\ s[23] = ActivateBlock(next)
      /\ s[24] = Release({body, header, footer, increment, next})
  <2>1. TryActivate(footer, then) \in Item
    <3>1. /\ UseKept(last) \in SimpleItem /\ UseKept(body) \in SimpleItem
          /\ Branch({increment, next}) \in SimpleItem
          /\ ActivateBlock(increment) \in SimpleItem
          /\ UseKept(increment) \in SimpleItem /\ AssignTo(i) \in SimpleItem
          /\ Goto(body) \in SimpleItem
      BY <1>4, SimpleMade
    <3>2. then \in Seq(SimpleItem)
      BY <3>1, <1>6
    <3> QED
      BY <1>4, <3>2, MadeTry
  <2>2. /\ Hold(step, increment) \in Item /\ Hold(stop, header) \in Item
        /\ Hold(start, footer) \in Item /\ UseKept(increment) \in Item
        /\ UseKept(footer) \in Item /\ UseKept(header) \in Item
        /\ Branch({header, next}) \in Item /\ ActivateBlock(header) \in Item
        /\ AssignTo(greatest) \in Item /\ Hold(greatest, next) \in Item
        /\ UseKept(first) \in Item /\ AssignTo(i) \in Item
        /\ Goto(body) \in Item /\ OpenBlock(body) \in Item
        /\ Hold(i, body) \in Item /\ Goto(footer) \in Item
        /\ CloseBlock(body) \in Item /\ ActivateBlock(next) \in Item
    BY <1>4, Made
  <2>3. /\ Loop(footer, next, label) \in Item
        /\ Release({body, header, footer, increment, next}) \in Item
    <3>1. {body, header, footer, increment, next} \in SUBSET Nat
      BY <1>4
    <3>2. label \in Label
      BY ConstantsAssumption DEF Label
    <3> QED
      BY <1>4, <3>1, <3>2, Made
  <2>4. s =
        <<Hold(step, increment), Hold(stop, header), Hold(start, footer),
          UseKept(increment),
          UseKept(footer), UseKept(header), Branch({header, next}),
          ActivateBlock(header),
          UseKept(header), UseKept(footer), UseKept(increment),
          AssignTo(greatest), Hold(greatest, next),
          UseKept(first), AssignTo(i)>> \o
        <<Goto(body), OpenBlock(body), Hold(i, body)>> \o
        <<Loop(footer, next, label), Goto(footer),
          TryActivate(footer, then)>> \o
        <<CloseBlock(body), ActivateBlock(next),
          Release({body, header, footer, increment, next})>>
    BY <1>2, <1>6, <1>5 DEF ReversedItems, EnterCounted, LeaveCounted
  <2>5. s \in Seq(Item) /\ Len(s) = 24 /\ DOMAIN s = 1..24 /\ s # <<>>
    BY <2>1, <2>2, <2>3, <2>4
  <2>6. /\ s[1] = Hold(step, increment) /\ s[2] = Hold(stop, header)
        /\ s[3] = Hold(start, footer) /\ s[4] = UseKept(increment)
        /\ s[5] = UseKept(footer) /\ s[6] = UseKept(header)
    BY <2>1, <2>2, <2>3, <2>4
  <2>7. /\ s[7] = Branch({header, next}) /\ s[8] = ActivateBlock(header)
        /\ s[9] = UseKept(header) /\ s[10] = UseKept(footer)
        /\ s[11] = UseKept(increment) /\ s[12] = AssignTo(greatest)
    BY <2>1, <2>2, <2>3, <2>4
  <2>8. /\ s[13] = Hold(greatest, next) /\ s[14] = UseKept(first)
        /\ s[15] = AssignTo(i) /\ s[16] = Goto(body) /\ s[17] = OpenBlock(body)
        /\ s[18] = Hold(i, body)
    BY <2>1, <2>2, <2>3, <2>4
  <2>9. /\ s[19] = Loop(footer, next, label) /\ s[20] = Goto(footer)
        /\ s[21] = TryActivate(footer, then) /\ s[22] = CloseBlock(body)
        /\ s[23] = ActivateBlock(next)
        /\ s[24] = Release({body, header, footer, increment, next})
    BY <2>1, <2>2, <2>3, <2>4
  <2> QED
    BY <2>5, <2>6, <2>7, <2>8, <2>9
<1>8. /\ 1 \notin pl.ends /\ 2 \notin pl.ends /\ 3 \notin pl.ends
      /\ KeptAt(pl, 4, increment) /\ 4 \notin pl.ends
      /\ KeptAt(pl, 5, footer) /\ 5 \notin pl.ends /\ KeptAt(pl, 6, header)
      /\ 6 \notin pl.ends /\ OpenAt(pl, 7, header) /\ OpenAt(pl, 7, next)
      /\ 8 - 1 \in pl.ends /\ 8 \notin pl.ends /\ KeptAt(pl, 9, header)
      /\ 9 \notin pl.ends /\ KeptAt(pl, 10, footer) /\ 10 \notin pl.ends
      /\ KeptAt(pl, 11, increment) /\ 11 \notin pl.ends /\ 12 \notin pl.ends
      /\ 13 \notin pl.ends /\ KeptAt(pl, 14, first) /\ 14 \notin pl.ends
      /\ 15 \notin pl.ends /\ OpenAt(pl, 16, body) /\ 17 - 1 \in pl.ends
      /\ 17 \notin pl.ends /\ body \in pl.open /\ 17 < Place(pl.seal, body)
      /\ 18 \notin pl.ends /\ OpenAt(pl, 19, footer) /\ OpenAt(pl, 19, next)
      /\ 19 \notin pl.ends
      /\ label \in {NoLabel} \cup (pl.outer \cap Labelled)
      /\ OpenAt(pl, 20, footer) /\ 21 - 1 \in pl.ends /\ KeptAt(pl, 21, last)
      /\ KeptAt(pl, 21, body) /\ KeptAt(pl, 21, increment)
      /\ 22 - 1 \in pl.ends /\ pl.last <= 22 /\ 23 - 1 \in pl.ends
      /\ 23 \notin pl.ends /\ 24 \notin pl.ends /\ pl.last <= 24
      /\ {body, header, footer, increment, next} \in SUBSET Fresh
  BY <1>3, <1>4, FreshBlocks, ConstantsAssumption DEF OpenAt, KeptAt
<1>9. /\ VisitorTypes /\ blockCount' \in blockCount..MaxBlocks
      /\ labelCount' \in labelCount..Cardinality(Labelled)
  BY NewBlocks DEF Creates
<1>10. /\ Fits(pl, 7, Branch({header, next})) /\ Fits(pl, 16, Goto(body))
      /\ Fits(pl, 19, Loop(footer, next, label))
      /\ Fits(pl, 20, Goto(footer))
  BY <1>8, <1>9, ItemsFit
<1>11. Fits(pl, 12, AssignTo(greatest)) /\ Fits(pl, 15, AssignTo(i))
  BY <1>8, <1>9, ItemsFit
<1>12. /\ Fits(pl, 1, Hold(step, increment))
       /\ Fits(pl, 2, Hold(stop, header)) /\ Fits(pl, 3, Hold(start, footer))
       /\ Fits(pl, 4, UseKept(increment)) /\ Fits(pl, 5, UseKept(footer))
       /\ Fits(pl, 6, UseKept(header)) /\ Fits(pl, 9, UseKept(header))
       /\ Fits(pl, 10, UseKept(footer)) /\ Fits(pl, 11, UseKept(increment))
       /\ Fits(pl, 13, Hold(greatest, next)) /\ Fits(pl, 14, UseKept(first))
       /\ Fits(pl, 18, Hold(i, body))
       /\ Fits(pl, 24, Release({body, header, footer, increment, next}))
  BY <1>4, <1>8, <1>9, ItemsFit
<1>13. /\ Fits(pl, 8, ActivateBlock(header)) /\ Fits(pl, 17, OpenBlock(body))
       /\ Fits(pl, 22, CloseBlock(body)) /\ Fits(pl, 23, ActivateBlock(next))
  BY <1>4, <1>8, <1>9, BlockItemsFit
<1>14. Fits(pl, 21, TryActivate(footer, then))
  <2>1. /\ UseKept(last) \in SimpleItem /\ UseKept(body) \in SimpleItem
        /\ Branch({increment, next}) \in SimpleItem
        /\ ActivateBlock(increment) \in SimpleItem
        /\ UseKept(increment) \in SimpleItem /\ AssignTo(i) \in SimpleItem
        /\ Goto(body) \in SimpleItem
    BY <1>4, SimpleMade
  <2>2. /\ then \in Seq(SimpleItem) /\ then # <<>> /\ Len(then) = 8
        /\ then[1] = UseKept(last) /\ then[2] = UseKept(body)
        /\ then[3] = Branch({increment, next})
        /\ then[4] = ActivateBlock(increment) /\ then[5] = UseKept(body)
        /\ then[6] = UseKept(increment) /\ then[7] = AssignTo(i)
        /\ then[8] = Goto(body)
    BY <1>6, <2>1
  <2>3. /\ Straight(pl, 21, then[1]) /\ Straight(pl, 21, then[2])
        /\ Straight(pl, 21, then[5]) /\ Straight(pl, 21, then[6])
        /\ Straight(pl, 21, then[7])
    <3>1. /\ Straight(pl, 21, UseKept(last)) /\ Straight(pl, 21, UseKept(body))
          /\ Straight(pl, 21, UseKept(increment))
          /\ Straight(pl, 21, AssignTo(i))
      BY <1>4, <1>8, StraightItems
    <3> QED
      BY <2>2, <3>1
  <2>4. (1..(Len(then) - 1)) \ {3, 3 + 1} = {1, 2, 5, 6, 7}
    BY <2>2
  <2>5. \A g \in (1..(Len(then) - 1)) \ {3, 3 + 1} :
          Straight(pl, 21, then[g])
    BY <2>3, <2>4
  <2>6. 3 \in 2..(Len(then) - 2) /\ then[3 + 1] = ActivateBlock(increment)
    BY <2>2
  <2>7. /\ increment \in Fresh \ {footer} /\ next \in Fresh \ {footer}
        /\ body \in Fresh \ {footer, increment} /\ Place(pl.seal, footer) = 21
        /\ Place(pl.seal, increment) = 21 /\ 21 <= Place(pl.seal, next)
        /\ 21 <= Place(pl.seal, body) /\ 21 \in Nat /\ footer \in Fresh
    BY <1>4
  <2> QED
    BY <1>8, <1>9, <2>2, <2>5, <2>6, <2>7, ThenCheck
<1>15. \A j \in DOMAIN s : Fits(pl, j, s[j])
  BY <1>7, <1>10, <1>11, <1>12, <1>13, <1>14
<1>16. /\ KeepsAs(s[18], body) /\ KeepsAs(s[2], header)
       /\ KeepsAs(s[3], footer) /\ KeepsAs(s[1], increment)
       /\ KeepsAs(s[13], next) /\ s[22].do = "close" /\ s[22].block = body
  <2>1. /\ KeepsAs(s[18], body) /\ KeepsAs(s[2], header)
        /\ KeepsAs(s[3], footer) /\ KeepsAs(s[1], increment)
        /\ KeepsAs(s[13], next)
    BY <1>4, <1>7, HoldKeeps
  <2>2. s[22].do = "close" /\ s[22].block = body
    BY <1>4, <1>7, CloseMade
  <2> QED
    BY <2>1, <2>2
<1>17. Works(pl, s)
  <2>1. \A b \in Fresh : Place(pl.seal, b) \in Nat /\ Place(pl.hold, b) \in Nat
    <3>1. ASSUME NEW b \in Fresh,
                 NEW d \in {body, header, footer, increment, next}, b = d
          PROVE  Place(pl.seal, b) \in Nat /\ Place(pl.hold, b) \in Nat
      BY <1>4, <3>1
    <3> QED
      BY <1>4, <3>1
  <2>2. \A k \in Fresh : Place(pl.hold, k) > 0 =>
          /\ Place(pl.hold, k) \in DOMAIN s
          /\ KeepsAs(s[Place(pl.hold, k)], k)
    <3>1. ASSUME NEW k \in Fresh,
                 NEW d \in {body, header, footer, increment, next}, k = d,
                 Place(pl.hold, k) > 0
          PROVE  /\ Place(pl.hold, k) \in DOMAIN s
                 /\ KeepsAs(s[Place(pl.hold, k)], k)
      <4>1. \A j \in 1..24 : j \in DOMAIN s
        BY <1>7
      <4>2. /\ KeepsAs(s[Place(pl.hold, body)], body)
            /\ KeepsAs(s[Place(pl.hold, header)], header)
            /\ KeepsAs(s[Place(pl.hold, footer)], footer)
            /\ KeepsAs(s[Place(pl.hold, increment)], increment)
            /\ KeepsAs(s[Place(pl.hold, next)], next)
        BY <1>4, <1>16
      <4>3. /\ Place(pl.hold, body) \in 1..24
            /\ Place(pl.hold, header) \in 1..24
            /\ Place(pl.hold, footer) \in 1..24
            /\ Place(pl.hold, increment) \in 1..24
            /\ Place(pl.hold, next) \in 1..24
        BY <1>4
      <4> QED
        BY <3>1, <4>1, <4>2, <4>3
    <3> QED
      BY <1>4, <3>1
  <2>3. \A b \in pl.open :
          /\ Place(pl.seal, b) \in DOMAIN s
          /\ s[Place(pl.seal, b)].do = "close"
          /\ s[Place(pl.seal, b)].block = b
    <3>1. 22 \in DOMAIN s /\ Place(pl.seal, body) = 22
      BY <1>4, <1>7
    <3> QED
      BY <1>3, <3>1, <1>16
  <2>4. pl.last \in Nat /\ 0 \notin pl.ends /\ s \in Seq(Item) /\ s # <<>>
    BY <1>3, <1>7
  <2> QED
    BY <1>15, <2>1, <2>2, <2>3, <2>4 DEF Works
<1> QED
  BY <1>3, <1>5, <1>17 DEF IsPlanned

LEMMA IndexedWorks ==
  ASSUME Creates(4), NEW i \in Var, NEW array \in Var, NEW index \in Var,
         NEW down \in Var,
         NEW label \in {NoLabel} \cup Labelled
  PROVE  IsPlanned(IndexedItems(i, array, index, down, label), label)
<1>1. PICK pl : pl = Plan(<<9, 15, 14, 16>>, <<1, 6, 0, 0>>, 15,
                         {4, 8, 13, 14, 15}, {New(2)}, {label} \cap Labelled)
  OBVIOUS
<1>2. PICK body, header, footer, next :
        /\ body = New(1) /\ header = New(2) /\ footer = New(3)
        /\ next = New(4)
  OBVIOUS
<1>3. /\ pl.seal = <<9, 15, 14, 16>> /\ pl.hold = <<1, 6, 0, 0>>
      /\ pl.last = 15 /\ pl.ends = {4, 8, 13, 14, 15} /\ pl.open = {header}
      /\ pl.outer = {label} \cap Labelled
  BY <1>1, <1>2 DEF Plan
<1>4. /\ body \in Fresh /\ header \in Fresh /\ footer \in Fresh
      /\ next \in Fresh /\ body \in Block /\ header \in Block
      /\ footer \in Block /\ next \in Block /\ body \in Nat /\ header \in Nat
      /\ footer \in Nat /\ next \in Nat
      /\ body # header /\ body # footer /\ body # next /\ header # footer
      /\ header # next /\ footer # next
      /\ \A b \in Fresh : b \in {body, header, footer, next}
      /\ Place(pl.seal, body) = 9 /\ Place(pl.seal, header) = 15
      /\ Place(pl.seal, footer) = 14 /\ Place(pl.seal, next) = 16
      /\ Place(pl.hold, body) = 1 /\ Place(pl.hold, header) = 6
      /\ Place(pl.hold, footer) = 0 /\ Place(pl.hold, next) = 0
  <2>1. /\ {1, 2, 3, 4} \subseteq 1..4 /\ {1, 2, 3, 4} \subseteq Nat
        /\ \A d \in 1..4 : d \in {1, 2, 3, 4}
    OBVIOUS
  <2>2. /\ New(1) \in Fresh /\ New(2) \in Fresh /\ New(3) \in Fresh
        /\ New(4) \in Fresh /\ New(1) \in Block /\ New(2) \in Block
        /\ New(3) \in Block /\ New(4) \in Block /\ New(1) \in Nat
        /\ New(2) \in Nat /\ New(3) \in Nat /\ New(4) \in Nat
        /\ Place(pl.seal, New(1)) = pl.seal[1]
        /\ Place(pl.seal, New(2)) = pl.seal[2]
        /\ Place(pl.seal, New(3)) = pl.seal[3]
        /\ Place(pl.seal, New(4)) = pl.seal[4]
        /\ Place(pl.hold, New(1)) = pl.hold[1]
        /\ Place(pl.hold, New(2)) = pl.hold[2]
        /\ Place(pl.hold, New(3)) = pl.hold[3]
        /\ Place(pl.hold, New(4)) = pl.hold[4]
    BY <2>1, NewBlocks
  <2>3. /\ New(1) # New(2) /\ New(1) # New(3) /\ New(1) # New(4)
        /\ New(2) # New(3) /\ New(2) # New(4) /\ New(3) # New(4)
    BY <2>1, NewBlocks
  <2>4. \A b \in Fresh : b \in {New(1), New(2), New(3), New(4)}
    BY <2>1, NewBlocks
  <2> QED
    BY <1>2, <1>3, <2>2, <2>3, <2>4
<1>5. PICK s : s = IndexedItems(i, array, index, down, label)
  OBVIOUS
<1>6. PICK then : then = <<UseKept(header), AssignTo(index), Goto(header)>>
  OBVIOUS
<1>7. /\ s \in Seq(Item) /\ Len(s) = 17 /\ DOMAIN s = 1..17 /\ s # <<>>
      /\ s[1] = Hold(array, body) /\ s[2] = AssignTo(index)
      /\ s[3] = AssignTo(down) /\ s[4] = Goto(header)
      /\ s[5] = OpenBlock(header) /\ s[6] = Hold(index, header)
      /\ s[7] = UseKept(header) /\ s[8] = Branch({body, next})
      /\ s[9] = ActivateBlock(body) /\ s[10] = UseKept(body)
      /\ s[11] = AssignTo(i) /\ s[12] = Loop(footer, next, label)
      /\ s[13] = Goto(footer) /\ s[14] = TryActivate(footer, then)
      /\ s[15] = CloseBlock(header) /\ s[16] = ActivateBlock(next)
      /\ s[17] = Release({body, header})
  <2>1. TryActivate(footer, then) \in Item
    <3>1. /\ UseKept(header) \in SimpleItem /\ AssignTo(index) \in SimpleItem
          /\ Goto(header) \in SimpleItem
      BY <1>4, SimpleMade
    <3>2. then \in Seq(SimpleItem)
      BY <3>1, <1>6
    <3> QED
      BY <1>4, <3>2, MadeTry
  <2>2. /\ Hold(array, body) \in Item /\ AssignTo(index) \in Item
        /\ AssignTo(down) \in Item /\ Goto(header) \in Item
        /\ OpenBlock(header) \in Item /\ Hold(index, header) \in Item
        /\ UseKept(header) \in Item /\ Branch({body, next}) \in Item
        /\ ActivateBlock(body) \in Item /\ UseKept(body) \in Item
        /\ AssignTo(i) \in Item /\ Goto(footer) \in Item
        /\ CloseBlock(header) \in Item /\ ActivateBlock(next) \in Item
    BY <1>4, Made
  <2>3. /\ Loop(footer, next, label) \in Item
        /\ Release({body, header}) \in Item
    <3>1. {body, header} \in SUBSET Nat
      BY <1>4
    <3>2. label \in Label
      BY ConstantsAssumption DEF Label
    <3> QED
      BY <1>4, <3>1, <3>2, Made
  <2>4. s =
        <<Hold(array, body), AssignTo(index), AssignTo(down)>> \o
        <<Goto(header), OpenBlock(header), Hold(index, header)>> \o
        <<UseKept(header), Branch({body, next}),
          ActivateBlock(body), UseKept(body), AssignTo(i),
          Loop(footer, next, label), Goto(footer),
          TryActivate(footer, then)>> \o
        <<CloseBlock(header), ActivateBlock(next), Release({body, header})>>
    BY <1>2, <1>6, <1>5 DEF IndexedItems, EnterCounted, LeaveCounted
  <2>5. s \in Seq(Item) /\ Len(s) = 17 /\ DOMAIN s = 1..17 /\ s # <<>>
    BY <2>1, <2>2, <2>3, <2>4
  <2>6. /\ s[1] = Hold(array, body) /\ s[2] = AssignTo(index)
        /\ s[3] = AssignTo(down) /\ s[4] = Goto(header)
        /\ s[5] = OpenBlock(header) /\ s[6] = Hold(index, header)
    BY <2>1, <2>2, <2>3, <2>4
  <2>7. /\ s[7] = UseKept(header) /\ s[8] = Branch({body, next})
        /\ s[9] = ActivateBlock(body) /\ s[10] = UseKept(body)
        /\ s[11] = AssignTo(i) /\ s[12] = Loop(footer, next, label)
    BY <2>1, <2>2, <2>3, <2>4
  <2>8. /\ s[13] = Goto(footer) /\ s[14] = TryActivate(footer, then)
        /\ s[15] = CloseBlock(header) /\ s[16] = ActivateBlock(next)
        /\ s[17] = Release({body, header})
    BY <2>1, <2>2, <2>3, <2>4
  <2> QED
    BY <2>5, <2>6, <2>7, <2>8
<1>8. /\ 1 \notin pl.ends /\ 2 \notin pl.ends /\ 3 \notin pl.ends
      /\ OpenAt(pl, 4, header) /\ 5 - 1 \in pl.ends /\ 5 \notin pl.ends
      /\ header \in pl.open /\ 5 < Place(pl.seal, header) /\ 6 \notin pl.ends
      /\ KeptAt(pl, 7, header) /\ 7 \notin pl.ends /\ OpenAt(pl, 8, body)
      /\ OpenAt(pl, 8, next) /\ 9 - 1 \in pl.ends /\ 9 \notin pl.ends
      /\ KeptAt(pl, 10, body) /\ 10 \notin pl.ends /\ 11 \notin pl.ends
      /\ OpenAt(pl, 12, footer) /\ OpenAt(pl, 12, next) /\ 12 \notin pl.ends
      /\ label \in {NoLabel} \cup (pl.outer \cap Labelled)
      /\ OpenAt(pl, 13, footer) /\ 14 - 1 \in pl.ends
      /\ KeptAt(pl, 14, header) /\ 15 - 1 \in pl.ends /\ pl.last <= 15
      /\ 16 - 1 \in pl.ends /\ 16 \notin pl.ends /\ 17 \notin pl.ends
      /\ pl.last <= 17 /\ {body, header} \in SUBSET Fresh
  BY <1>3, <1>4, FreshBlocks, ConstantsAssumption DEF OpenAt, KeptAt
<1>9. /\ VisitorTypes /\ blockCount' \in blockCount..MaxBlocks
      /\ labelCount' \in labelCount..Cardinality(Labelled)
  BY NewBlocks DEF Creates
<1>10. /\ Fits(pl, 4, Goto(header)) /\ Fits(pl, 8, Branch({body, next}))
      /\ Fits(pl, 12, Loop(footer, next, label))
      /\ Fits(pl, 13, Goto(footer))
  BY <1>8, <1>9, ItemsFit
<1>11. /\ Fits(pl, 2, AssignTo(index)) /\ Fits(pl, 3, AssignTo(down))
       /\ Fits(pl, 11, AssignTo(i))
  BY <1>8, <1>9, ItemsFit
<1>12. /\ Fits(pl, 1, Hold(array, body)) /\ Fits(pl, 6, Hold(index, header))
       /\ Fits(pl, 7, UseKept(header)) /\ Fits(pl, 10, UseKept(body))
       /\ Fits(pl, 17, Release({body, header}))
  BY <1>4, <1>8, <1>9, ItemsFit
<1>13. /\ Fits(pl, 5, OpenBlock(header)) /\ Fits(pl, 9, ActivateBlock(body))
       /\ Fits(pl, 15, CloseBlock(header))
       /\ Fits(pl, 16, ActivateBlock(next))
  BY <1>4, <1>8, <1>9, BlockItemsFit
<1>14. Fits(pl, 14, TryActivate(footer, then))
  <2>1. /\ UseKept(header) \in SimpleItem /\ AssignTo(index) \in SimpleItem
        /\ Goto(header) \in SimpleItem
    BY <1>4, SimpleMade
  <2>2. /\ then \in Seq(SimpleItem) /\ then # <<>> /\ Len(then) = 3
        /\ then[1] = UseKept(header) /\ then[2] = AssignTo(index)
        /\ then[3] = Goto(header)
    BY <1>6, <2>1
  <2>3. Straight(pl, 14, then[1]) /\ Straight(pl, 14, then[2])
    <3>1. /\ Straight(pl, 14, UseKept(header))
          /\ Straight(pl, 14, AssignTo(index))
      BY <1>4, <1>8, StraightItems
    <3> QED
      BY <2>2, <3>1
  <2>4. 1..(Len(then) - 1) = {1, 2}
    BY <2>2
  <2>5. \A g \in 1..(Len(then) - 1) : Straight(pl, 14, then[g])
    BY <2>3, <2>4
  <2>6. 14 \in Nat /\ footer \in Fresh /\ header \in Fresh \ {footer}
        /\ Place(pl.seal, footer) = 14 /\ 14 <= Place(pl.seal, header)
    BY <1>4
  <2> QED
    BY <1>8, <1>9, <2>2, <2>5, <2>6, ThenAdvance
<1>15. \A j \in DOMAIN s : Fits(pl, j, s[j])
  BY <1>7, <1>10, <1>11, <1>12, <1>13, <1>14
<1>16. /\ KeepsAs(s[1], body) /\ KeepsAs(s[6], header) /\ s[15].do = "close"
       /\ s[15].block = header
  <2>1. KeepsAs(s[1], body) /\ KeepsAs(s[6], header)
    BY <1>4, <1>7, HoldKeeps
  <2>2. s[15].do = "close" /\ s[15].block = header
    BY <1>4, <1>7, CloseMade
  <2> QED
    BY <2>1, <2>2
<1>17. Works(pl, s)
  <2>0. 1 \in DOMAIN s /\ 6 \in DOMAIN s /\ 15 \in DOMAIN s
    BY <1>7
  <2>1. \A b \in Fresh : Place(pl.seal, b) \in Nat /\ Place(pl.hold, b) \in Nat
    <3>1. ASSUME NEW b \in Fresh,
                 NEW d \in {body, header, footer, next}, b = d
          PROVE  Place(pl.seal, b) \in Nat /\ Place(pl.hold, b) \in Nat
      BY <1>4, <3>1
    <3> QED
      BY <1>4, <3>1
  <2>2. \A k \in Fresh : Place(pl.hold, k) > 0 =>
          /\ Place(pl.hold, k) \in DOMAIN s
          /\ KeepsAs(s[Place(pl.hold, k)], k)
    <3>1. ASSUME NEW k \in Fresh,
                 NEW d \in {body, header, footer, next}, k = d,
                 Place(pl.hold, k) > 0
          PROVE  /\ Place(pl.hold, k) \in DOMAIN s
                 /\ KeepsAs(s[Place(pl.hold, k)], k)
      BY <1>4, <2>0, <3>1, <1>16
    <3> QED
      BY <1>4, <3>1
  <2>3. \A b \in pl.open :
          /\ Place(pl.seal, b) \in DOMAIN s
          /\ s[Place(pl.seal, b)].do = "close"
          /\ s[Place(pl.seal, b)].block = b
    <3>1. pl.open = {header} /\ Place(pl.seal, header) = 15
      BY <1>3, <1>4
    <3> QED
      BY <2>0, <3>1, <1>16
  <2>4. pl.last \in Nat /\ 0 \notin pl.ends /\ s \in Seq(Item) /\ s # <<>>
    BY <1>3, <1>7
  <2> QED
    BY <1>15, <2>1, <2>2, <2>3, <2>4 DEF Works
<1> QED
  BY <1>3, <1>5, <1>17 DEF IsPlanned

LEMMA IndexedDownWorks ==
  ASSUME Creates(4), NEW i \in Var, NEW array \in Var, NEW index \in Var,
         NEW down \in Var,
         NEW label \in {NoLabel} \cup Labelled
  PROVE  IsPlanned(IndexedDownItems(i, array, index, down, label), label)
<1>1. PICK pl : pl = Plan(<<9, 17, 16, 18>>, <<1, 6, 0, 0>>, 17,
                         {4, 8, 15, 16, 17}, {New(2)}, {label} \cap Labelled)
  OBVIOUS
<1>2. PICK body, header, footer, next :
       /\ body = New(1) /\ header = New(2) /\ footer = New(3)
        /\ next = New(4)
  OBVIOUS
<1>3. /\ pl.seal = <<9, 17, 16, 18>> /\ pl.hold = <<1, 6, 0, 0>>
      /\ pl.last = 17 /\ pl.ends = {4, 8, 15, 16, 17} /\ pl.open = {header}
      /\ pl.outer = {label} \cap Labelled
  BY <1>1, <1>2 DEF Plan
<1>4. /\ body \in Fresh /\ header \in Fresh /\ footer \in Fresh
      /\ next \in Fresh /\ body \in Block /\ header \in Block
      /\ footer \in Block /\ next \in Block /\ body \in Nat /\ header \in Nat
      /\ footer \in Nat /\ next \in Nat
      /\ body # header /\ body # footer /\ body # next /\ header # footer
      /\ header # next /\ footer # next
      /\ \A b \in Fresh : b \in {body, header, footer, next}
      /\ Place(pl.seal, body) = 9 /\ Place(pl.seal, header) = 17
      /\ Place(pl.seal, footer) = 16 /\ Place(pl.seal, next) = 18
      /\ Place(pl.hold, body) = 1 /\ Place(pl.hold, header) = 6
      /\ Place(pl.hold, footer) = 0 /\ Place(pl.hold, next) = 0
  <2>1. /\ {1, 2, 3, 4} \subseteq 1..4 /\ {1, 2, 3, 4} \subseteq Nat
        /\ \A d \in 1..4 : d \in {1, 2, 3, 4}
    OBVIOUS
  <2>2. /\ New(1) \in Fresh /\ New(2) \in Fresh /\ New(3) \in Fresh
        /\ New(4) \in Fresh /\ New(1) \in Block /\ New(2) \in Block
        /\ New(3) \in Block /\ New(4) \in Block /\ New(1) \in Nat
        /\ New(2) \in Nat /\ New(3) \in Nat /\ New(4) \in Nat
        /\ Place(pl.seal, New(1)) = pl.seal[1]
        /\ Place(pl.seal, New(2)) = pl.seal[2]
        /\ Place(pl.seal, New(3)) = pl.seal[3]
        /\ Place(pl.seal, New(4)) = pl.seal[4]
        /\ Place(pl.hold, New(1)) = pl.hold[1]
        /\ Place(pl.hold, New(2)) = pl.hold[2]
        /\ Place(pl.hold, New(3)) = pl.hold[3]
        /\ Place(pl.hold, New(4)) = pl.hold[4]
    BY <2>1, NewBlocks
  <2>3. /\ New(1) # New(2) /\ New(1) # New(3) /\ New(1) # New(4)
        /\ New(2) # New(3) /\ New(2) # New(4) /\ New(3) # New(4)
    BY <2>1, NewBlocks
  <2>4. \A b \in Fresh : b \in {New(1), New(2), New(3), New(4)}
    BY <2>1, NewBlocks
  <2> QED
    BY <1>2, <1>3, <2>2, <2>3, <2>4
<1>5. PICK s : s = IndexedDownItems(i, array, index, down, label)
  OBVIOUS
<1>6. /\ s \in Seq(Item) /\ Len(s) = 19 /\ DOMAIN s = 1..19 /\ s # <<>>
      /\ s[1] = Hold(array, body) /\ s[2] = AssignTo(index)
      /\ s[3] = AssignTo(down) /\ s[4] = Goto(header)
      /\ s[5] = OpenBlock(header) /\ s[6] = Hold(index, header)
      /\ s[7] = Use(down) /\ s[8] = Branch({body, next})
      /\ s[9] = ActivateBlock(body) /\ s[10] = Use(down)
      /\ s[11] = AssignTo(down) /\ s[12] = UseKept(body)
      /\ s[13] = AssignTo(i) /\ s[14] = Loop(footer, next, label)
      /\ s[15] = Goto(footer)
      /\ s[16] = TryActivate(footer, <<Goto(header)>>)
      /\ s[17] = CloseBlock(header) /\ s[18] = ActivateBlock(next)
      /\ s[19] = Release({body, header})
  <2>1. TryActivate(footer, <<Goto(header)>>) \in Item
    <3>1. Goto(header) \in SimpleItem
      BY <1>4, SimpleMade
    <3>2. <<Goto(header)>> \in Seq(SimpleItem)
      BY <3>1
    <3> QED
      BY <1>4, <3>2, MadeTry
  <2>2. /\ Hold(array, body) \in Item /\ AssignTo(index) \in Item
        /\ AssignTo(down) \in Item /\ Goto(header) \in Item
        /\ OpenBlock(header) \in Item /\ Hold(index, header) \in Item
        /\ Use(down) \in Item /\ Branch({body, next}) \in Item
        /\ ActivateBlock(body) \in Item /\ UseKept(body) \in Item
        /\ AssignTo(i) \in Item /\ Goto(footer) \in Item
        /\ CloseBlock(header) \in Item /\ ActivateBlock(next) \in Item
    BY <1>4, Made
  <2>3. /\ Loop(footer, next, label) \in Item
        /\ Release({body, header}) \in Item
    <3>1. {body, header} \in SUBSET Nat
      BY <1>4
    <3>2. label \in Label
      BY ConstantsAssumption DEF Label
    <3> QED
      BY <1>4, <3>1, <3>2, Made
  <2> QED
    BY <1>2, <1>5, <2>1, <2>2, <2>3 DEF IndexedDownItems, EnterCounted,
      LeaveCounted
<1>7. /\ 1 \notin pl.ends /\ 2 \notin pl.ends /\ 3 \notin pl.ends
      /\ OpenAt(pl, 4, header) /\ 5 - 1 \in pl.ends /\ 5 \notin pl.ends
      /\ header \in pl.open /\ 5 < Place(pl.seal, header) /\ 6 \notin pl.ends
      /\ 7 \notin pl.ends /\ OpenAt(pl, 8, body) /\ OpenAt(pl, 8, next)
      /\ 9 - 1 \in pl.ends /\ 9 \notin pl.ends /\ 10 \notin pl.ends
      /\ 11 \notin pl.ends /\ KeptAt(pl, 12, body) /\ 12 \notin pl.ends
      /\ 13 \notin pl.ends /\ OpenAt(pl, 14, footer) /\ OpenAt(pl, 14, next)
      /\ 14 \notin pl.ends
      /\ label \in {NoLabel} \cup (pl.outer \cap Labelled)
      /\ OpenAt(pl, 15, footer) /\ 16 - 1 \in pl.ends /\ 17 - 1 \in pl.ends
      /\ pl.last <= 17 /\ 18 - 1 \in pl.ends /\ 18 \notin pl.ends
      /\ 19 \notin pl.ends /\ pl.last <= 19
      /\ {body, header} \in SUBSET Fresh
  BY <1>3, <1>4, FreshBlocks, ConstantsAssumption DEF OpenAt, KeptAt
<1>8. /\ VisitorTypes /\ blockCount' \in blockCount..MaxBlocks
      /\ labelCount' \in labelCount..Cardinality(Labelled)
  BY NewBlocks DEF Creates
<1>9. /\ Fits(pl, 4, Goto(header)) /\ Fits(pl, 8, Branch({body, next}))
      /\ Fits(pl, 14, Loop(footer, next, label))
      /\ Fits(pl, 15, Goto(footer))
  BY <1>7, <1>8, ItemsFit
<1>10. /\ Fits(pl, 2, AssignTo(index)) /\ Fits(pl, 3, AssignTo(down))
       /\ Fits(pl, 7, Use(down)) /\ Fits(pl, 10, Use(down))
       /\ Fits(pl, 11, AssignTo(down)) /\ Fits(pl, 13, AssignTo(i))
  BY <1>7, <1>8, ItemsFit
<1>11. /\ Fits(pl, 1, Hold(array, body)) /\ Fits(pl, 6, Hold(index, header))
       /\ Fits(pl, 12, UseKept(body))
       /\ Fits(pl, 19, Release({body, header}))
  BY <1>4, <1>7, <1>8, ItemsFit
<1>12. /\ Fits(pl, 5, OpenBlock(header)) /\ Fits(pl, 9, ActivateBlock(body))
       /\ Fits(pl, 17, CloseBlock(header))
       /\ Fits(pl, 18, ActivateBlock(next))
  BY <1>4, <1>7, <1>8, BlockItemsFit
<1>13. Fits(pl, 16, TryActivate(footer, <<Goto(header)>>))
  BY <1>4, <1>7, <1>8, ThenGoto
<1>14. \A j \in DOMAIN s : Fits(pl, j, s[j])
  BY <1>6, <1>9, <1>10, <1>11, <1>12, <1>13
<1>15. /\ KeepsAs(s[1], body) /\ KeepsAs(s[6], header) /\ s[17].do = "close"
       /\ s[17].block = header
  <2>1. KeepsAs(s[1], body) /\ KeepsAs(s[6], header)
    BY <1>4, <1>6, HoldKeeps
  <2>2. s[17].do = "close" /\ s[17].block = header
    BY <1>4, <1>6, CloseMade
  <2> QED
    BY <2>1, <2>2
<1>16. Works(pl, s)
  <2>0. 1 \in DOMAIN s /\ 6 \in DOMAIN s /\ 17 \in DOMAIN s
    BY <1>6
  <2>1. \A b \in Fresh : Place(pl.seal, b) \in Nat /\ Place(pl.hold, b) \in Nat
    <3>1. ASSUME NEW b \in Fresh,
                 NEW d \in {body, header, footer, next}, b = d
          PROVE  Place(pl.seal, b) \in Nat /\ Place(pl.hold, b) \in Nat
      BY <1>4, <3>1
    <3> QED
      BY <1>4, <3>1
  <2>2. \A k \in Fresh : Place(pl.hold, k) > 0 =>
          /\ Place(pl.hold, k) \in DOMAIN s
          /\ KeepsAs(s[Place(pl.hold, k)], k)
    <3>1. ASSUME NEW k \in Fresh,
                 NEW d \in {body, header, footer, next}, k = d,
                 Place(pl.hold, k) > 0
          PROVE  /\ Place(pl.hold, k) \in DOMAIN s
                 /\ KeepsAs(s[Place(pl.hold, k)], k)
      BY <1>4, <2>0, <3>1, <1>15
    <3> QED
      BY <1>4, <3>1
  <2>3. \A b \in pl.open :
          /\ Place(pl.seal, b) \in DOMAIN s
          /\ s[Place(pl.seal, b)].do = "close"
          /\ s[Place(pl.seal, b)].block = b
    <3>1. pl.open = {header} /\ Place(pl.seal, header) = 17
      BY <1>3, <1>4
    <3> QED
      BY <2>0, <3>1, <1>15
  <2>4. pl.last \in Nat /\ 0 \notin pl.ends /\ s \in Seq(Item) /\ s # <<>>
    BY <1>3, <1>6
  <2> QED
    BY <1>14, <2>1, <2>2, <2>3, <2>4 DEF Works
<1> QED
  BY <1>3, <1>5, <1>16 DEF IsPlanned

LEMMA TupleWorks ==
  ASSUME Creates(4), NEW i \in Var, NEW first \in Var, NEW second \in Var,
         NEW counter \in Var,
         NEW label \in {NoLabel} \cup Labelled
  PROVE  IsPlanned(TupleItems(i, first, second, counter, label), label)
<1>1. PICK pl : pl = Plan(<<12, 11, 13, 11>>, <<8, 1, 0, 2>>, 12,
                         {6, 10, 11, 12}, {New(1)}, {label} \cap Labelled)
  OBVIOUS
<1>2. PICK body, footer, next, header :
        /\ body = New(1) /\ footer = New(2) /\ next = New(3)
        /\ header = New(4)
  OBVIOUS
<1>3. /\ pl.seal = <<12, 11, 13, 11>> /\ pl.hold = <<8, 1, 0, 2>>
      /\ pl.last = 12 /\ pl.ends = {6, 10, 11, 12} /\ pl.open = {body}
      /\ pl.outer = {label} \cap Labelled
  BY <1>1, <1>2 DEF Plan
<1>4. /\ body \in Fresh /\ footer \in Fresh /\ next \in Fresh
      /\ header \in Fresh /\ body \in Block /\ footer \in Block
      /\ next \in Block /\ header \in Block /\ body \in Nat /\ footer \in Nat
      /\ next \in Nat /\ header \in Nat
      /\ body # footer /\ body # next /\ body # header /\ footer # next
      /\ footer # header /\ next # header
      /\ \A b \in Fresh : b \in {body, footer, next, header}
      /\ Place(pl.seal, body) = 12 /\ Place(pl.seal, footer) = 11
      /\ Place(pl.seal, next) = 13 /\ Place(pl.seal, header) = 11
      /\ Place(pl.hold, body) = 8 /\ Place(pl.hold, footer) = 1
      /\ Place(pl.hold, next) = 0 /\ Place(pl.hold, header) = 2
  <2>1. /\ {1, 2, 3, 4} \subseteq 1..4 /\ {1, 2, 3, 4} \subseteq Nat
        /\ \A d \in 1..4 : d \in {1, 2, 3, 4}
    OBVIOUS
  <2>2. /\ New(1) \in Fresh /\ New(2) \in Fresh /\ New(3) \in Fresh
        /\ New(4) \in Fresh /\ New(1) \in Block /\ New(2) \in Block
        /\ New(3) \in Block /\ New(4) \in Block /\ New(1) \in Nat
        /\ New(2) \in Nat /\ New(3) \in Nat /\ New(4) \in Nat
        /\ Place(pl.seal, New(1)) = pl.seal[1]
        /\ Place(pl.seal, New(2)) = pl.seal[2]
        /\ Place(pl.seal, New(3)) = pl.seal[3]
        /\ Place(pl.seal, New(4)) = pl.seal[4]
        /\ Place(pl.hold, New(1)) = pl.hold[1]
        /\ Place(pl.hold, New(2)) = pl.hold[2]
        /\ Place(pl.hold, New(3)) = pl.hold[3]
        /\ Place(pl.hold, New(4)) = pl.hold[4]
    BY <2>1, NewBlocks
  <2>3. /\ New(1) # New(2) /\ New(1) # New(3) /\ New(1) # New(4)
        /\ New(2) # New(3) /\ New(2) # New(4) /\ New(3) # New(4)
    BY <2>1, NewBlocks
  <2>4. \A b \in Fresh : b \in {New(1), New(2), New(3), New(4)}
    BY <2>1, NewBlocks
  <2> QED
    BY <1>2, <1>3, <2>2, <2>3, <2>4
<1>5. PICK s : s = TupleItems(i, first, second, counter, label)
  OBVIOUS
<1>6. PICK then :
        then = <<UseKept(body), Branch({header, next}),
                   ActivateBlock(header), AssignTo(counter), UseKept(header),
                   AssignTo(i), Goto(body)>>
  OBVIOUS
<1>7. /\ s \in Seq(Item) /\ Len(s) = 14 /\ DOMAIN s = 1..14 /\ s # <<>>
      /\ s[1] = Hold(first, footer) /\ s[2] = Hold(second, header)
      /\ s[3] = AssignTo(counter) /\ s[4] = UseKept(footer)
      /\ s[5] = AssignTo(i) /\ s[6] = Goto(body) /\ s[7] = OpenBlock(body)
      /\ s[8] = Hold(counter, body) /\ s[9] = Loop(footer, next, label)
      /\ s[10] = Goto(footer) /\ s[11] = TryActivate(footer, then)
      /\ s[12] = CloseBlock(body) /\ s[13] = ActivateBlock(next)
      /\ s[14] = Release({body, footer, header})
  <2>1. TryActivate(footer, then) \in Item
    <3>1. /\ UseKept(body) \in SimpleItem
          /\ Branch({header, next}) \in SimpleItem
          /\ ActivateBlock(header) \in SimpleItem
          /\ AssignTo(counter) \in SimpleItem /\ UseKept(header) \in SimpleItem
          /\ AssignTo(i) \in SimpleItem /\ Goto(body) \in SimpleItem
      BY <1>4, SimpleMade
    <3>2. then \in Seq(SimpleItem)
      BY <3>1, <1>6
    <3> QED
      BY <1>4, <3>2, MadeTry
  <2>2. /\ Hold(first, footer) \in Item /\ Hold(second, header) \in Item
        /\ AssignTo(counter) \in Item /\ UseKept(footer) \in Item
        /\ AssignTo(i) \in Item /\ Goto(body) \in Item
        /\ OpenBlock(body) \in Item /\ Hold(counter, body) \in Item
        /\ Goto(footer) \in Item /\ CloseBlock(body) \in Item
        /\ ActivateBlock(next) \in Item
    BY <1>4, Made
  <2>3. /\ Loop(footer, next, label) \in Item
        /\ Release({body, footer, header}) \in Item
    <3>1. {body, footer, header} \in SUBSET Nat
      BY <1>4
    <3>2. label \in Label
      BY ConstantsAssumption DEF Label
    <3> QED
      BY <1>4, <3>1, <3>2, Made
  <2>4. s =
        <<Hold(first, footer), Hold(second, header),
          AssignTo(counter), UseKept(footer), AssignTo(i)>> \o
        <<Goto(body), OpenBlock(body), Hold(counter, body)>> \o
        <<Loop(footer, next, label), Goto(footer),
          TryActivate(footer, then)>> \o
        <<CloseBlock(body), ActivateBlock(next),
          Release({body, footer, header})>>
    BY <1>2, <1>6, <1>5 DEF TupleItems, EnterCounted, LeaveCounted
  <2>5. s \in Seq(Item) /\ Len(s) = 14 /\ DOMAIN s = 1..14 /\ s # <<>>
    BY <2>1, <2>2, <2>3, <2>4
  <2>6. /\ s[1] = Hold(first, footer) /\ s[2] = Hold(second, header)
        /\ s[3] = AssignTo(counter) /\ s[4] = UseKept(footer)
        /\ s[5] = AssignTo(i) /\ s[6] = Goto(body)
    BY <2>1, <2>2, <2>3, <2>4
  <2>7. /\ s[7] = OpenBlock(body) /\ s[8] = Hold(counter, body)
        /\ s[9] = Loop(footer, next, label) /\ s[10] = Goto(footer)
        /\ s[11] = TryActivate(footer, then) /\ s[12] = CloseBlock(body)
    BY <2>1, <2>2, <2>3, <2>4
  <2>8. /\ s[13] = ActivateBlock(next)
        /\ s[14] = Release({body, footer, header})
    BY <2>1, <2>2, <2>3, <2>4
  <2> QED
    BY <2>5, <2>6, <2>7, <2>8
<1>8. /\ 1 \notin pl.ends /\ 2 \notin pl.ends /\ 3 \notin pl.ends
      /\ KeptAt(pl, 4, footer) /\ 4 \notin pl.ends /\ 5 \notin pl.ends
      /\ OpenAt(pl, 6, body) /\ 7 - 1 \in pl.ends /\ 7 \notin pl.ends
      /\ body \in pl.open /\ 7 < Place(pl.seal, body) /\ 8 \notin pl.ends
      /\ OpenAt(pl, 9, footer) /\ OpenAt(pl, 9, next) /\ 9 \notin pl.ends
      /\ label \in {NoLabel} \cup (pl.outer \cap Labelled)
      /\ OpenAt(pl, 10, footer) /\ 11 - 1 \in pl.ends /\ KeptAt(pl, 11, body)
      /\ KeptAt(pl, 11, header) /\ 12 - 1 \in pl.ends /\ pl.last <= 12
      /\ 13 - 1 \in pl.ends /\ 13 \notin pl.ends /\ 14 \notin pl.ends
      /\ pl.last <= 14 /\ {body, footer, header} \in SUBSET Fresh
  BY <1>3, <1>4, FreshBlocks, ConstantsAssumption DEF OpenAt, KeptAt
<1>9. /\ VisitorTypes /\ blockCount' \in blockCount..MaxBlocks
      /\ labelCount' \in labelCount..Cardinality(Labelled)
  BY NewBlocks DEF Creates
<1>10. /\ Fits(pl, 6, Goto(body)) /\ Fits(pl, 9, Loop(footer, next, label))
      /\ Fits(pl, 10, Goto(footer))
  BY <1>8, <1>9, ItemsFit
<1>11. Fits(pl, 3, AssignTo(counter)) /\ Fits(pl, 5, AssignTo(i))
  BY <1>8, <1>9, ItemsFit
<1>12. /\ Fits(pl, 1, Hold(first, footer))
       /\ Fits(pl, 2, Hold(second, header)) /\ Fits(pl, 4, UseKept(footer))
       /\ Fits(pl, 8, Hold(counter, body))
       /\ Fits(pl, 14, Release({body, footer, header}))
  BY <1>4, <1>8, <1>9, ItemsFit
<1>13. /\ Fits(pl, 7, OpenBlock(body)) /\ Fits(pl, 12, CloseBlock(body))
       /\ Fits(pl, 13, ActivateBlock(next))
  BY <1>4, <1>8, <1>9, BlockItemsFit
<1>14. Fits(pl, 11, TryActivate(footer, then))
  <2>1. /\ UseKept(body) \in SimpleItem
        /\ Branch({header, next}) \in SimpleItem
        /\ ActivateBlock(header) \in SimpleItem
        /\ AssignTo(counter) \in SimpleItem /\ UseKept(header) \in SimpleItem
        /\ AssignTo(i) \in SimpleItem /\ Goto(body) \in SimpleItem
    BY <1>4, SimpleMade
  <2>2. /\ then \in Seq(SimpleItem) /\ then # <<>> /\ Len(then) = 7
        /\ then[1] = UseKept(body) /\ then[2] = Branch({header, next})
        /\ then[3] = ActivateBlock(header) /\ then[4] = AssignTo(counter)
        /\ then[5] = UseKept(header) /\ then[6] = AssignTo(i)
        /\ then[7] = Goto(body)
    BY <1>6, <2>1
  <2>3. /\ Straight(pl, 11, then[1]) /\ Straight(pl, 11, then[4])
        /\ Straight(pl, 11, then[5]) /\ Straight(pl, 11, then[6])
    <3>1. /\ Straight(pl, 11, UseKept(body))
          /\ Straight(pl, 11, AssignTo(counter))
          /\ Straight(pl, 11, UseKept(header)) /\ Straight(pl, 11, AssignTo(i))
      BY <1>4, <1>8, StraightItems
    <3> QED
      BY <2>2, <3>1
  <2>4. (1..(Len(then) - 1)) \ {2, 2 + 1} = {1, 4, 5, 6}
    BY <2>2
  <2>5. \A g \in (1..(Len(then) - 1)) \ {2, 2 + 1} :
          Straight(pl, 11, then[g])
    BY <2>3, <2>4
  <2>6. 2 \in 2..(Len(then) - 2) /\ then[2 + 1] = ActivateBlock(header)
    BY <2>2
  <2>7. /\ header \in Fresh \ {footer} /\ next \in Fresh \ {footer}
        /\ body \in Fresh \ {footer, header} /\ Place(pl.seal, footer) = 11
        /\ Place(pl.seal, header) = 11 /\ 11 <= Place(pl.seal, next)
        /\ 11 <= Place(pl.seal, body) /\ 11 \in Nat /\ footer \in Fresh
    BY <1>4
  <2> QED
    BY <1>8, <1>9, <2>2, <2>5, <2>6, <2>7, ThenCheck
<1>15. \A j \in DOMAIN s : Fits(pl, j, s[j])
  BY <1>7, <1>10, <1>11, <1>12, <1>13, <1>14
<1>16. /\ KeepsAs(s[8], body) /\ KeepsAs(s[1], footer)
       /\ KeepsAs(s[2], header) /\ s[12].do = "close" /\ s[12].block = body
  <2>1. /\ KeepsAs(s[8], body) /\ KeepsAs(s[1], footer)
        /\ KeepsAs(s[2], header)
    BY <1>4, <1>7, HoldKeeps
  <2>2. s[12].do = "close" /\ s[12].block = body
    BY <1>4, <1>7, CloseMade
  <2> QED
    BY <2>1, <2>2
<1>17. Works(pl, s)
  <2>0. {1, 2, 8, 12} \subseteq DOMAIN s
    BY <1>7
  <2>1. \A b \in Fresh : Place(pl.seal, b) \in Nat /\ Place(pl.hold, b) \in Nat
    <3>1. ASSUME NEW b \in Fresh,
                 NEW d \in {body, footer, next, header}, b = d
          PROVE  Place(pl.seal, b) \in Nat /\ Place(pl.hold, b) \in Nat
      BY <1>4, <3>1
    <3> QED
      BY <1>4, <3>1
  <2>2. \A k \in Fresh : Place(pl.hold, k) > 0 =>
          /\ Place(pl.hold, k) \in DOMAIN s
          /\ KeepsAs(s[Place(pl.hold, k)], k)
    <3>1. ASSUME NEW k \in Fresh,
                 NEW d \in {body, footer, next, header}, k = d,
                 Place(pl.hold, k) > 0
          PROVE  /\ Place(pl.hold, k) \in DOMAIN s
                 /\ KeepsAs(s[Place(pl.hold, k)], k)
      BY <1>4, <2>0, <3>1, <1>16
    <3> QED
      BY <1>4, <3>1
  <2>3. \A b \in pl.open :
          /\ Place(pl.seal, b) \in DOMAIN s
          /\ s[Place(pl.seal, b)].do = "close"
          /\ s[Place(pl.seal, b)].block = b
    <3>1. pl.open = {body} /\ Place(pl.seal, body) = 12
      BY <1>3, <1>4
    <3> QED
      BY <2>0, <3>1, <1>16
  <2>4. pl.last \in Nat /\ 0 \notin pl.ends /\ s \in Seq(Item) /\ s # <<>>
    BY <1>3, <1>7
  <2> QED
    BY <1>15, <2>1, <2>2, <2>3, <2>4 DEF Works
<1> QED
  BY <1>3, <1>5, <1>17 DEF IsPlanned

-----------------------------------------------------------------------------
(* The other actions that put items in the place of one                    *)

LEMMA SimpleBlocks ==
  ASSUME NEW x \in SimpleItem
  PROVE  /\ x \in Item
         /\ x.do \in {"goto", "activate", "branch", "assign", "use", "useHeld"}
         /\ Activates(x) = Enters(x) /\ Seals(x) = Enters(x) \ Labelled
         /\ NeedsOpen(x) = JumpsTo(x) /\ Targets(x) = JumpsTo(x)
         /\ KeysOf(x) = Uses(x) /\ (Jumps(x) => Ends(x))
<1>1. x \in Item
  BY SimpleItems
<1>2. x.do \in {"goto", "activate", "branch", "assign", "use", "useHeld"}
  BY DEF SimpleItem
<1>3. /\ Activates(x) = Enters(x) /\ Targets(x) = JumpsTo(x)
      /\ KeysOf(x) = Uses(x) /\ (Jumps(x) => Ends(x))
  BY <1>2 DEF Activates, Targets, KeysOf, Ends
<1>4. Seals(x) = Enters(x) \ Labelled /\ NeedsOpen(x) = JumpsTo(x)
  BY <1>2, <1>3 DEF Seals, NeedsOpen
<1> QED
  BY <1>1, <1>2, <1>3, <1>4

LEMMA DoTryActivateKeeps ==
  ASSUME VisitorReady, DoTryActivate
  PROVE  VisitKeeps
<1> DEFINE s == item.then
<1>0. /\ item.do = "try" /\ item \in Item /\ VisitorTypes
      /\ item.block \in Block /\ s \in Seq(SimpleItem)
      /\ item = todo[1] /\ 1 \in DOMAIN todo /\ item = Head(todo)
      /\ item \in Range(todo) /\ todo # <<>>
  BY ReadyFacts, ItemFields DEF DoTryActivate, Doing
<1>1. UNCHANGED <<held, loops, blockCount, labelCount, tempCount>>
  BY DEF DoTryActivate, Only
<1>2. HeldNext /\ \A t : LoopsNext(t)
  BY <1>0, <1>1, OthersLeave
<1>3. NeedsEnd(item)
  BY <1>0 DEF NeedsEnd
<1>4. CASE Done /\ UNCHANGED vars
  <2>1. ClientOK
    BY <1>0, <1>4, QuietClient DEF vars, cfgVars, callVars
  <2>2. BlocksInOrder /\ fault' = "none" => active' \in terminated'
    <3>1. BlocksInOrder /\ fault' = "none" => active \in terminated
      BY <1>0, <1>3, <1>4 DEF BlocksInOrder, EndsInOrder, vars, callVars
    <3> QED
      BY <1>4, <3>1 DEF vars, cfgVars, active
  <2> QED
    BY <1>0, <1>1, <1>2, <1>4, <2>1, <2>2, DoneFollows
<1>5. CASE Activate(item.block) /\ Expand(s)
  <2>1. /\ ClientOK
        /\ \A b : IsBeingSealed(b)' => b = item.block /\ b \notin Labelled
    BY <1>0, <1>5, ActivateClient
  <2>2. /\ s \in Seq(Item) /\ Len(s) \in Nat /\ DOMAIN s = 1..Len(s)
        /\ Range(s) \subseteq SimpleItem
        /\ \A j \in DOMAIN s : s[j] \in SimpleItem /\ s[j] \in Range(s)
    BY <1>0, SimpleItems DEF Range
  <2>3. /\ Activates(item) =
             {item.block} \cup UNION {Enters(y) : y \in Range(s)}
        /\ NeedsOpen(item) = UNION {JumpsTo(y) : y \in Range(s)}
        /\ Targets(item) = UNION {JumpsTo(y) : y \in Range(s)}
        /\ KeysOf(item) = UNION {Uses(y) : y \in Range(s)}
        /\ Seals(item) = Activates(item) \ Labelled
        /\ Ends(item) => s # <<>> /\ Jumps(s[Len(s)])
    BY <1>0 DEF Activates, NeedsOpen, Targets, KeysOf, Seals, Ends, Jumps
  <2>4. Activates(item) \cup NeedsOpen(item) \subseteq Created'
    <3>1. Activates(item) \cup NeedsOpen(item) \subseteq Created
      BY <1>0 DEF VisitorReady, HandlersKeep, BlocksCreated
    <3> QED
      BY <1>1, <3>1 DEF Created, NewLabels
  <2>5. ASSUME NEW j \in DOMAIN s
        PROVE  /\ Activates(s[j]) \subseteq Activates(item)
               /\ NeedsOpen(s[j]) \subseteq NeedsOpen(item)
               /\ NeedsOpen(s[j]) = JumpsTo(s[j])
               /\ Targets(s[j]) = JumpsTo(s[j])
               /\ Targets(s[j]) \subseteq Targets(item)
               /\ KeysOf(s[j]) \subseteq KeysOf(item)
               /\ Seals(s[j]) \subseteq Seals(item)
               /\ s[j].do \in {"goto", "activate", "branch", "assign", "use",
                               "useHeld"}
               /\ Jumps(s[j]) => Ends(s[j])
    <3>1. s[j] \in SimpleItem /\ s[j] \in Range(s)
      BY <2>2
    <3>2. PICK x : x = s[j]
      OBVIOUS
    <3>3. /\ Activates(x) = Enters(x) /\ Seals(x) = Enters(x) \ Labelled
          /\ NeedsOpen(x) = JumpsTo(x) /\ Targets(x) = JumpsTo(x)
          /\ KeysOf(x) = Uses(x) /\ (Jumps(x) => Ends(x))
          /\ x.do \in {"goto", "activate", "branch", "assign", "use", "useHeld"}
      BY <3>1, <3>2, SimpleBlocks
    <3>4. /\ Enters(x) \subseteq Activates(item)
          /\ JumpsTo(x) \subseteq NeedsOpen(item)
          /\ JumpsTo(x) \subseteq Targets(item)
          /\ Uses(x) \subseteq KeysOf(item)
      BY <2>3, <3>1, <3>2
    <3> QED
      BY <2>3, <3>2, <3>3, <3>4
  <2>6. \A j \in DOMAIN s : MayFollow(s[j])
    BY <2>4, <2>5 DEF MayFollow
  <2>7. UsesScoped(s)
    BY <2>5 DEF UsesScoped
  <2>8. ASSUME BlocksInOrder, fault' = "none"
        PROVE  ItemsInOrder(s)
    <3>1. ThenInOrder(item) /\ \A b \in NeedsOpen(item) : MayBeTarget(b)
      BY <1>0, <2>8, ReadyFacts DEF BlocksInOrder, JumpsInOrder
    <3>2. sealed' = sealed
      BY <1>0, <1>5 DEF Activate, ActivateThen, Raise, Push, ssaVars
    <3>3. ASSUME NEW j \in DOMAIN s, NEW b \in NeedsOpen(s[j])
          PROVE  MayBeTarget(b)'
      <4>1. MayBeTarget(b) /\ b \in JumpsTo(s[j])
        BY <2>5, <3>1, <3>3
      <4>2. b # item.block \/ b \in Labelled
        BY <3>1, <4>1 DEF ThenInOrder
      <4>3. ~IsBeingSealed(b)'
        BY <2>1, <4>2
      <4> QED
        BY <3>2, <4>1, <4>3 DEF MayBeTarget
    <3>4. ASSUME NEW j \in DOMAIN s, NEW i \in 1..(j - 1)
          PROVE  NeedsOpen(s[j]) \cap Seals(s[i]) = {}
      <4>1. i \in DOMAIN s /\ i < j
        BY <2>2
      <4> QED
        BY <2>5, <3>1, <4>1 DEF ThenInOrder
    <3>5. \A j \in DOMAIN s : ItemInOrder(s, j)
      <4>1. \A b \in Targets(item) : IsWanted(b)
        BY <1>0 DEF IsWanted
      <4> QED
        BY <2>5, <3>3, <3>4, <4>1 DEF ItemInOrder
    <3>6. s # <<>> => ~NeedsEnd(s[1])
      BY <3>1 DEF ThenInOrder
    <3>7. \A i \in 1..(Len(s) - 1) : NeedsEnd(s[i + 1]) => Ends(s[i])
      <4>1. \A i \in 1..(Len(s) - 1) : i \in DOMAIN s
        BY <2>2
      <4> QED
        BY <2>5, <3>1, <4>1 DEF ThenInOrder
    <3>8. s # <<>> => Len(s) \in DOMAIN s
      BY <2>2
    <3> QED
      BY <1>0, <2>3, <2>5, <3>5, <3>6, <3>7, <3>8 DEF ItemsInOrder
  <2>9. blockCount' \in blockCount..MaxBlocks
    BY <1>0, <1>1, FlowAssumption DEF VisitorTypes
  <2> QED
    BY <1>0, <1>1, <1>2, <1>5, <2>1, <2>2, <2>6, <2>7, <2>8, <2>9,
       ExpandFollows
<1> QED
  BY <1>4, <1>5 DEF DoTryActivate, Only
(* The items that take the place of a condition or a block follow a plan   *)
(* of their own.                                                           *)
LEMMA Alone ==
  ASSUME VisitorReady, UNCHANGED <<vars, held, loops, labelCount, tempCount>>,
         blockCount' \in blockCount..MaxBlocks, item.do \in {"cond", "visit"},
         NEW s, NEW pl, Works(pl, s), Expand(s),
         \A j \in DOMAIN s : s[j].do # "close",
         pl.outer \subseteq Created' \ Fresh
  PROVE  Unfolding(s, s, 0, pl)
<1>1. s \in Seq(Item) /\ s # <<>> /\ DOMAIN s = 1..Len(s) /\ Len(s) \in Nat
  BY DEF Works
<1>2. /\ labelCount' \in labelCount..Cardinality(Labelled)
      /\ tempCount' \in 0..Len(Temps)
  BY ReadyFacts DEF VisitorTypes
<1>3. \A j \in DOMAIN s : 0 + j = j /\ j \in (0 + 1)..(0 + Len(s))
  BY <1>1
<1>4. 0 + Len(s) <= Len(s) /\ 0 \in Nat
  BY <1>1
<1>5. \A x \in Range(s) : x.do # "close"
  BY DEF Range
<1> QED
  BY <1>1, <1>2, <1>3, <1>4, <1>5 DEF Unfolding

LEMMA OperandWorks ==
  ASSUME Creates(0), NEW v \in Var, NEW t \in Block, NEW f \in Block
  PROVE  \E pl : /\ Works(pl, <<Use(v), Branch({t, f})>>)
                 /\ pl.outer = {t, f}
<1>1. PICK pl : pl = Plan(<<>>, <<>>, 3, {2}, {}, {t, f})
  OBVIOUS
<1>2. /\ pl.last = 3 /\ pl.ends = {2} /\ pl.open = {} /\ pl.outer = {t, f}
  BY <1>1 DEF Plan
<1>3. Fresh = {}
  BY NewBlocks
<1>4. PICK s : s = <<Use(v), Branch({t, f})>>
  OBVIOUS
<1>5. /\ s \in Seq(Item) /\ s # <<>> /\ DOMAIN s = {1, 2}
      /\ s[1] = Use(v) /\ s[2] = Branch({t, f})
  <2>1. Use(v) \in Item /\ Branch({t, f}) \in Item
    BY Made
  <2> QED
    BY <1>4, <2>1
<1>6. /\ VisitorTypes /\ blockCount' \in blockCount..MaxBlocks
      /\ labelCount' \in labelCount..Cardinality(Labelled)
  BY NewBlocks DEF Creates
<1>7. /\ 1 \notin pl.ends /\ OpenAt(pl, 2, t) /\ OpenAt(pl, 2, f)
  BY <1>2 DEF OpenAt
<1>8. Fits(pl, 1, Use(v)) /\ Fits(pl, 2, Branch({t, f}))
  BY <1>6, <1>7, ItemsFit
<1>9. Works(pl, s)
  BY <1>2, <1>3, <1>5, <1>8 DEF Works
<1> QED
  BY <1>2, <1>4, <1>9

LEMMA OperatorWorks ==
  ASSUME Creates(1), NEW t \in Block, NEW f \in Block, NEW first,
         first \in {Cond(New(1), f), Cond(t, New(1))}
  PROVE  \E pl : /\ Works(pl, <<first, ActivateBlock(New(1)), Cond(t, f)>>)
                 /\ pl.outer = {t, f}
<1>1. PICK pl : pl = Plan(<<2>>, <<0>>, 4, {1, 3}, {}, {t, f})
  OBVIOUS
<1>2. /\ pl.seal = <<2>> /\ pl.hold = <<0>> /\ pl.last = 4
      /\ pl.ends = {1, 3} /\ pl.open = {} /\ pl.outer = {t, f}
  BY <1>1 DEF Plan
<1>3. PICK b : b = New(1)
  OBVIOUS
<1>4. /\ b \in Fresh /\ b \in Block /\ \A d \in Fresh : d = b
      /\ Place(pl.seal, b) = 2 /\ Place(pl.hold, b) = 0
  <2>1. 1 \in 1..1 /\ \A d \in 1..1 : d = 1
    OBVIOUS
  <2> QED
    BY <1>2, <1>3, <2>1, NewBlocks
<1>5. PICK s : s = <<first, ActivateBlock(b), Cond(t, f)>>
  OBVIOUS
<1>6. /\ s \in Seq(Item) /\ s # <<>> /\ DOMAIN s = {1, 2, 3}
      /\ s[1] = first /\ s[2] = ActivateBlock(b) /\ s[3] = Cond(t, f)
  <2>1. first \in Item /\ ActivateBlock(b) \in Item /\ Cond(t, f) \in Item
    BY <1>3, <1>4, Made
  <2> QED
    BY <1>5, <2>1
<1>7. /\ VisitorTypes /\ blockCount' \in blockCount..MaxBlocks
      /\ labelCount' \in labelCount..Cardinality(Labelled)
  BY NewBlocks DEF Creates
<1>8. /\ OpenAt(pl, 1, b) /\ OpenAt(pl, 1, t) /\ OpenAt(pl, 1, f)
      /\ OpenAt(pl, 3, t) /\ OpenAt(pl, 3, f)
      /\ 2 - 1 \in pl.ends /\ 2 \notin pl.ends
  BY <1>2, <1>4 DEF OpenAt
<1>9. Fits(pl, 1, Cond(b, f)) /\ Fits(pl, 1, Cond(t, b))
  BY <1>7, <1>8, ItemsFit
<1>10. Fits(pl, 3, Cond(t, f))
  BY <1>7, <1>8, ItemsFit
<1>11. Fits(pl, 2, ActivateBlock(b))
  BY <1>4, <1>7, <1>8, BlockItemsFit
<1>12. \A j \in DOMAIN s : Fits(pl, j, s[j])
  BY <1>3, <1>6, <1>9, <1>10, <1>11
<1>13. \A d \in Fresh : Place(pl.seal, d) \in Nat /\ Place(pl.hold, d) = 0
  BY <1>4
<1>14. Works(pl, s)
  BY <1>2, <1>6, <1>12, <1>13 DEF Works
<1> QED
  BY <1>2, <1>3, <1>5, <1>14

(* The jump to a block and its activation: one that exists, or a new one.  *)
LEMMA EnterWorks ==
  ASSUME NEW b,
         \/ Creates(0) /\ b \in Labelled
         \/ Creates(1) /\ b = New(1)
  PROVE  \E pl : /\ Works(pl, <<Goto(b), ActivateBlock(b)>>)
                 /\ pl.outer = {b} \cap Labelled
<1>1. PICK pl : pl = Plan(<<2>>, <<0>>, 3, {1}, {}, {b} \cap Labelled)
  OBVIOUS
<1>2. /\ pl.seal = <<2>> /\ pl.hold = <<0>> /\ pl.last = 3
      /\ pl.ends = {1} /\ pl.open = {} /\ pl.outer = {b} \cap Labelled
  BY <1>1 DEF Plan
<1>3. /\ VisitorTypes /\ blockCount' \in blockCount..MaxBlocks
      /\ labelCount' \in labelCount..Cardinality(Labelled)
  BY NewBlocks DEF Creates
<1>4. /\ b \in Block /\ \A d \in Fresh : d = b
      /\ b \in Labelled \/ b \in Fresh
      /\ b \in Fresh => Place(pl.seal, b) = 2 /\ Place(pl.hold, b) = 0
  <2>1. CASE Creates(0) /\ b \in Labelled
    <3>1. Fresh = {}
      BY <2>1, NewBlocks
    <3> QED
      BY <2>1, <3>1, ConstantsAssumption
  <2>2. CASE Creates(1) /\ b = New(1)
    <3>1. 1 \in 1..1 /\ \A d \in 1..1 : d = 1
      OBVIOUS
    <3> QED
      BY <1>2, <2>2, <3>1, NewBlocks
  <2> QED
    BY <2>1, <2>2
<1>5. PICK s : s = <<Goto(b), ActivateBlock(b)>>
  OBVIOUS
<1>6. /\ s \in Seq(Item) /\ s # <<>> /\ DOMAIN s = {1, 2}
      /\ s[1] = Goto(b) /\ s[2] = ActivateBlock(b)
  <2>1. Goto(b) \in Item /\ ActivateBlock(b) \in Item
    BY <1>4, Made
  <2> QED
    BY <1>5, <2>1
<1>7. OpenAt(pl, 1, b) /\ 2 - 1 \in pl.ends /\ 2 \notin pl.ends
  BY <1>2, <1>4 DEF OpenAt
<1>8. Fits(pl, 1, Goto(b))
  BY <1>3, <1>7, ItemsFit
<1>9. Fits(pl, 2, ActivateBlock(b))
  <2>1. \/ b \in Fresh /\ Place(pl.seal, b) = 2
        \/ b \in pl.outer \cap Labelled
    BY <1>2, <1>4
  <2> QED
    BY <1>3, <1>7, <2>1, BlockItemsFit
<1>10. \A d \in Fresh : Place(pl.seal, d) \in Nat /\ Place(pl.hold, d) = 0
  BY <1>4
<1>11. Works(pl, s)
  BY <1>2, <1>6, <1>8, <1>9, <1>10 DEF Works
<1> QED
  BY <1>2, <1>5, <1>11

LEMMA ConditionKeeps ==
  ASSUME VisitorReady, ConditionOperand \/ ConditionOperator
  PROVE  VisitKeeps
<1>1. /\ item.do = "cond" /\ item \in Item /\ VisitorTypes /\ AtItem
      /\ item.true \in Block /\ item.false \in Block
      /\ item = todo[1] /\ 1 \in DOMAIN todo /\ item \in Range(todo)
      /\ Targets(item) = {item.true, item.false}
      /\ NeedsOpen(item) = {item.true, item.false}
  BY ReadyFacts, ItemFields, ItemBlocks
     DEF ConditionOperand, ConditionOperator, Doing, VisitorReady
<1>2. PICK t, f, contd : t = item.true /\ f = item.false /\ contd = New(1)
  OBVIOUS
<1>3. t \in Block /\ f \in Block
  BY <1>1, <1>2
<1>4. /\ UNCHANGED <<vars, held, loops, labelCount, tempCount>>
      /\ blockCount \in Nat /\ MaxBlocks \in Nat
      /\ labelCount' \in labelCount..Cardinality(Labelled)
  <2>1. UNCHANGED <<vars, held, loops, labelCount, tempCount>>
    BY DEF ConditionOperand, ConditionOperator, Only
  <2> QED
    BY <1>1, <2>1, FlowAssumption DEF VisitorTypes
<1>5. \E s, pl : /\ Expand(s) /\ Works(pl, s) /\ pl.outer = {t, f}
                 /\ blockCount' \in blockCount..MaxBlocks
                 /\ \A j \in DOMAIN s : s[j].do # "close"
                 /\ Ends(s[Len(s)])
  <2>1. CASE ConditionOperand
    <3>1. PICK v \in User : Expand(<<Use(v), Branch({t, f})>>)
      BY <1>2, <2>1 DEF ConditionOperand, Only
    <3>2. v \in Var
      BY FlowAssumption
    <3>3. Creates(0) /\ blockCount' \in blockCount..MaxBlocks
      BY <1>1, <1>4, <2>1 DEF ConditionOperand, Only, Creates, VisitorTypes
    <3>4. PICK pl : /\ Works(pl, <<Use(v), Branch({t, f})>>)
                    /\ pl.outer = {t, f}
      BY <1>3, <3>2, <3>3, OperandWorks
    <3>5. PICK s : s = <<Use(v), Branch({t, f})>>
      OBVIOUS
    <3>6. /\ DOMAIN s = {1, 2} /\ Len(s) = 2
          /\ s[1] = Use(v) /\ s[2] = Branch({t, f})
      BY <3>5
    <3>7. /\ Use(v).do # "close" /\ Branch({t, f}).do = "branch"
      BY DEF Use, Branch
    <3>8. /\ \A j \in DOMAIN s : s[j].do # "close"
          /\ Ends(s[Len(s)])
      BY <3>6, <3>7 DEF Ends, Jumps
    <3> QED
      BY <3>1, <3>3, <3>4, <3>5, <3>8
  <2>2. CASE ConditionOperator
    <3>1. PICK first \in {Cond(contd, f), Cond(t, contd)} :
            Expand(<<first, ActivateBlock(contd), Cond(t, f)>>)
      BY <1>2, <2>2 DEF ConditionOperator
    <3>2. Creates(1) /\ blockCount' \in blockCount..MaxBlocks
      BY <1>1, <1>4, <2>2 DEF ConditionOperator, Creates
    <3>3. PICK pl : /\ Works(pl, <<first, ActivateBlock(contd), Cond(t, f)>>)
                    /\ pl.outer = {t, f}
      BY <1>2, <1>3, <3>1, <3>2, OperatorWorks
    <3>4. PICK s : s = <<first, ActivateBlock(contd), Cond(t, f)>>
      OBVIOUS
    <3>5. /\ DOMAIN s = {1, 2, 3} /\ Len(s) = 3
          /\ s[1] = first /\ s[2] = ActivateBlock(contd) /\ s[3] = Cond(t, f)
      BY <3>4
    <3>6. /\ first.do = "cond" /\ ActivateBlock(contd).do # "close"
          /\ Cond(t, f).do = "cond"
      BY <3>1 DEF Cond, ActivateBlock
    <3>7. /\ \A j \in DOMAIN s : s[j].do # "close"
          /\ Ends(s[Len(s)])
      BY <3>5, <3>6 DEF Ends
    <3> QED
      BY <3>1, <3>2, <3>3, <3>4, <3>7
  <2> QED
    BY <2>1, <2>2
<1>6. PICK s, pl : /\ Expand(s) /\ Works(pl, s) /\ pl.outer = {t, f}
                   /\ blockCount' \in blockCount..MaxBlocks
                   /\ \A j \in DOMAIN s : s[j].do # "close"
                   /\ Ends(s[Len(s)])
  BY <1>5
<1>7. pl.outer \subseteq Created' \ Fresh
  <2>1. {t, f} \subseteq Created
    BY <1>1, <1>2 DEF VisitorReady, HandlersKeep, BlocksCreated
  <2> QED
    BY <1>1, <1>4, <1>6, <2>1, FreshBlocks
<1>8. Unfolding(s, s, 0, pl)
  BY <1>1, <1>4, <1>6, <1>7, Alone
<1>9. BlocksInOrder => \A b \in pl.outer : MayBeTarget(b) /\ IsWanted(b)
  <2>1. \A b \in {t, f} : IsWanted(b)
    BY <1>1, <1>2 DEF IsWanted
  <2>2. BlocksInOrder => \A b \in {t, f} : MayBeTarget(b)
    BY <1>1, <1>2, ReadyFacts DEF BlocksInOrder, JumpsInOrder
  <2> QED
    BY <1>6, <2>1, <2>2
<1> QED
  BY <1>1, <1>6, <1>8, <1>9, UnfoldingKeeps

LEMMA DoVisitKeeps ==
  ASSUME VisitorReady, DoVisit
  PROVE  VisitKeeps
<1>0. /\ item.do = "visit" /\ item \in Item /\ VisitorTypes /\ AtItem
      /\ item.block \in Label /\ ~Ends(item)
      /\ item = todo[1] /\ 1 \in DOMAIN todo /\ item \in Range(todo)
      /\ todo # <<>> /\ fault = "none"
  BY ReadyFacts, ItemFields, ItemBlocks DEF DoVisit, Doing, VisitorReady
<1>1. /\ UNCHANGED <<vars, held, loops, labelCount, tempCount>>
      /\ blockCount \in Nat /\ MaxBlocks \in Nat
      /\ labelCount' \in labelCount..Cardinality(Labelled)
      /\ NoLabel \notin Labelled
  <2>1. /\ UNCHANGED <<vars, held, loops, labelCount, tempCount>>
    BY DEF DoVisit, Only
  <2>2. NoLabel \notin Labelled
    BY FlowAssumption, FS_CardinalityType DEF NoLabel
  <2> QED
    BY <1>0, <2>1, <2>2, FlowAssumption DEF VisitorTypes
<1>2. CASE /\ item.block = LabelOf(active) /\ Only(Done)
  <2>1. ClientOK
    BY <1>0, <1>1, QuietClient DEF vars, cfgVars, callVars
  <2>2. HeldNext /\ LoopsNext(<<>>)
    BY <1>0, <1>1, OthersLeave
  <2>3. item.block \in Labelled => item.block \in Range(blocks)
    BY <1>1, <1>2, ReadyFacts DEF LabelOf
  <2> QED
    BY <1>0, <1>1, <1>2, <2>1, <2>2, <2>3, DoneFollows DEF Only
<1>3. CASE ~(item.block = LabelOf(active) /\ Only(Done))
  <2>1. PICK b : /\ Expand(<<Goto(b), ActivateBlock(b)>>)
                 /\ \/ /\ Creates(0) /\ b \in Labelled /\ b = item.block
                    \/ /\ Creates(1) /\ b = New(1) /\ item.block = NoLabel
    <3>1. CASE /\ item.block # NoLabel
               /\ Only(Expand(<<Goto(item.block), ActivateBlock(item.block)>>))
      <4>1. Creates(0)
        BY <1>0, <1>1, <3>1 DEF Creates, VisitorTypes, Only
      <4> QED
        BY <1>0, <3>1, <4>1 DEF Label, Only
    <3>2. CASE /\ item.block = NoLabel /\ blockCount < MaxBlocks
               /\ Expand(<<Goto(New(1)), ActivateBlock(New(1))>>)
               /\ blockCount' = blockCount + 1
      <4>1. Creates(1)
        BY <1>0, <1>1, <3>2 DEF Creates
      <4> QED
        BY <3>2, <4>1
    <3> QED
      BY <1>3, <3>1, <3>2 DEF DoVisit
  <2>2. PICK pl : /\ Works(pl, <<Goto(b), ActivateBlock(b)>>)
                  /\ pl.outer = {b} \cap Labelled
    BY <2>1, EnterWorks
  <2>3. PICK s : s = <<Goto(b), ActivateBlock(b)>>
    OBVIOUS
  <2>4. /\ DOMAIN s = {1, 2} /\ Len(s) = 2
        /\ s[1].do = "goto" /\ s[2].do = "activate" /\ s[2].block = b
    BY <2>3 DEF Goto, ActivateBlock
  <2>5. /\ blockCount' \in blockCount..MaxBlocks /\ Fresh \cap Labelled = {}
        /\ Created \subseteq Created'
    BY <1>0, <1>1, <2>1, NewBlocks, FreshBlocks
  <2>6. b \in Labelled => b = item.block /\ b \in Created
    <3>1. Creates(1) /\ b = New(1) => b \in Fresh
      <4>1. 1 \in 1..1
        OBVIOUS
      <4> QED
        BY <4>1, NewBlocks
    <3>2. b \in Labelled => b = item.block
      BY <2>1, <2>5, <3>1
    <3>3. b \in Labelled /\ b = item.block => b \in Activates(item)
      BY <1>0, <1>1 DEF Activates
    <3> QED
      BY <1>0, <3>2, <3>3 DEF VisitorReady, HandlersKeep, BlocksCreated
  <2>7. pl.outer \subseteq Created' \ Fresh
    BY <2>2, <2>5, <2>6
  <2>8. Unfolding(s, s, 0, pl)
    BY <1>0, <1>1, <2>1, <2>2, <2>3, <2>4, <2>5, <2>7, Alone
  <2>9. BlocksInOrder => \A d \in pl.outer : MayBeTarget(d)
    BY <1>0, <2>2, ReadyFacts DEF BlocksInOrder, SealedOnce, MayBeTarget
  <2>10. \A d \in pl.outer \cup ({item.block} \cap Labelled) :
           \E h \in DOMAIN s : s[h].do = "activate" /\ s[h].block = d
    <3>1. \A d \in pl.outer \cup ({item.block} \cap Labelled) : d = b
      BY <1>1, <2>1, <2>2
    <3> QED
      BY <2>4, <3>1
  <2> QED
    BY <1>0, <2>8, <2>9, <2>10, UnfoldingKeeps
<1> QED
  BY <1>2, <1>3
-----------------------------------------------------------------------------
(* The statements                                                          *)

LEMMA StatementFacts ==
  ASSUME VisitorReady, NEW kind, NEW items \in Seq(Item), NEW n \in Nat,
         NEW l \in Nat, NEW k \in Nat, Statement(kind, items, n, l, k)
  PROVE  /\ item.do = "statements" /\ ~Ends(item) /\ Creates(n)
         /\ UNCHANGED <<vars, held, loops>>
         /\ blockCount' \in blockCount..MaxBlocks
         /\ labelCount' = labelCount + l
         /\ labelCount' \in labelCount..Cardinality(Labelled)
         /\ tempCount' \in 0..Len(Temps)
         /\ Expand(Append(items, Body))
<1>1. /\ item.do = "statements" /\ item \in Item /\ todo \in Seq(Item)
      /\ todo # <<>> /\ item = Head(todo) /\ ~Ends(item) /\ VisitorTypes
  BY ReadyFacts, ItemBlocks DEF Statement, Doing, VisitorTypes
<1>2. item = Body
  BY <1>1 DEF Item, SimpleItem, Body
<1>3. /\ UNCHANGED <<vars, held, loops>>
      /\ todo' = items \o todo
      /\ blockCount' = blockCount + n /\ blockCount' <= MaxBlocks
      /\ labelCount' = labelCount + l /\ labelCount' <= Cardinality(Labelled)
      /\ tempCount' = tempCount + k /\ tempCount' <= Len(Temps)
  BY DEF Statement
<1>4. Cardinality(Labelled) \in Nat /\ Len(Temps) \in Nat /\ MaxBlocks \in Nat
  BY FlowAssumption, FS_CardinalityType
<1>5. /\ blockCount' \in blockCount..MaxBlocks
      /\ labelCount' \in labelCount..Cardinality(Labelled)
      /\ tempCount' \in 0..Len(Temps)
  BY <1>1, <1>3, <1>4 DEF VisitorTypes
<1>6. items \o todo = Append(items, Head(todo)) \o Tail(todo)
  BY <1>1
<1> QED
  BY <1>1, <1>2, <1>3, <1>5, <1>6 DEF Creates, Expand

LEMMA HandlerCreates ==
  ASSUME VisitorReady, NEW kind, NEW items, NEW n \in Nat, NEW l \in Nat,
         NEW k \in Nat, Statement(kind, items, n, l, k)
  PROVE  /\ Creates(n) /\ blockCount' \in blockCount..MaxBlocks
         /\ labelCount' = labelCount + l
         /\ labelCount' \in labelCount..Cardinality(Labelled)
<1>1. /\ blockCount' = blockCount + n /\ blockCount' <= MaxBlocks
      /\ labelCount' = labelCount + l /\ labelCount' <= Cardinality(Labelled)
  BY DEF Statement
<1>2. Cardinality(Labelled) \in Nat /\ MaxBlocks \in Nat /\ VisitorTypes
  BY FlowAssumption, FS_CardinalityType, ReadyFacts
<1> QED
  BY <1>1, <1>2 DEF VisitorTypes, Creates

(* A statement whose handler follows a plan, with nothing but bodies and   *)
(* blocks around it.                                                       *)
LEMMA StatementKeeps ==
  ASSUME VisitorReady, NEW kind, NEW items \in Seq(Item), NEW n \in Nat,
         NEW l \in Nat, NEW k \in Nat, Statement(kind, items, n, l, k),
         NEW s, NEW pl, Works(pl, s), NEW a \in Nat,
         a + Len(s) <= Len(items),
         \A j \in DOMAIN s : items[a + j] = s[j],
         \A j \in DOMAIN items : j \in (a + 1)..(a + Len(s)) \/ Plain(items[j]),
         pl.outer \subseteq Created' \ Fresh,
         BlocksInOrder /\ LabelsWillBeFound => \A b \in pl.outer :
           /\ MayBeTarget(b)
           /\ b \in Labelled =>
                \/ IsWanted(b)
                \/ \E h \in DOMAIN items :
                     /\ items[h].do \in {"activate", "visit"}
                     /\ items[h].block = b
  PROVE  VisitKeeps
<1>1. PICK t : t = Append(items, Body)
  OBVIOUS
<1>2. Body \in Item /\ Plain(Body)
  BY Made DEF Plain
<1>3. /\ t \in Seq(Item) /\ Len(t) = Len(items) + 1 /\ t # <<>>
      /\ DOMAIN items = 1..Len(items) /\ DOMAIN t = 1..Len(t)
      /\ Len(items) \in Nat
      /\ \A j \in DOMAIN items : j \in DOMAIN t /\ t[j] = items[j]
      /\ t[Len(items) + 1] = Body
  BY <1>1, <1>2
<1>4. /\ item.do = "statements" /\ ~Ends(item)
      /\ UNCHANGED <<vars, held, loops>>
      /\ blockCount' \in blockCount..MaxBlocks
      /\ labelCount' \in labelCount..Cardinality(Labelled)
      /\ tempCount' \in 0..Len(Temps) /\ Expand(t)
  BY <1>1, StatementFacts
<1>5. DOMAIN s = 1..Len(s) /\ Len(s) \in Nat
  BY DEF Works
<1>6. a + Len(s) <= Len(t)
  BY <1>3, <1>5
<1>7. \A j \in DOMAIN s : t[a + j] = s[j]
  <2>1. \A j \in DOMAIN s : a + j \in DOMAIN items
    BY <1>3, <1>5
  <2> QED
    BY <1>3, <2>1
<1>8. \A j \in DOMAIN t : j \in (a + 1)..(a + Len(s)) \/ Plain(t[j])
  <2>1. \A j \in DOMAIN t : j \in DOMAIN items \/ t[j] = Body
    BY <1>3
  <2> QED
    BY <1>2, <1>3, <2>1
<1>9. Unfolding(t, s, a, pl)
  BY <1>3, <1>4, <1>6, <1>7, <1>8 DEF Unfolding
<1>10. BlocksInOrder /\ LabelsWillBeFound => \A b \in pl.outer :
         /\ MayBeTarget(b)
         /\ b \in Labelled =>
              \/ IsWanted(b)
              \/ \E h \in DOMAIN t : /\ t[h].do \in {"activate", "visit"}
                                     /\ t[h].block = b
  BY <1>3
<1> QED
  BY <1>4, <1>9, <1>10, UnfoldingKeeps

LEMMA HandlerKeeps ==
  ASSUME VisitorReady, NEW kind, NEW s, NEW n \in Nat, NEW l \in Nat,
         NEW k \in Nat, Statement(kind, s, n, l, k),
         NEW pl, Works(pl, s), pl.outer \subseteq Created' \ Fresh,
         BlocksInOrder /\ LabelsWillBeFound => \A b \in pl.outer :
           /\ MayBeTarget(b)
           /\ b \in Labelled =>
                \/ IsWanted(b)
                \/ \E h \in DOMAIN s : /\ s[h].do \in {"activate", "visit"}
                                       /\ s[h].block = b
  PROVE  VisitKeeps
<1>1. s \in Seq(Item) /\ DOMAIN s = 1..Len(s) /\ Len(s) \in Nat
  BY DEF Works
<1>2. /\ 0 \in Nat /\ 0 + Len(s) <= Len(s)
      /\ \A j \in DOMAIN s : 0 + j = j /\ j \in (0 + 1)..(0 + Len(s))
  BY <1>1
<1>3. \A j \in DOMAIN s : s[0 + j] = s[j]
  BY <1>2
<1> QED
  BY <1>1, <1>2, <1>3, StatementKeeps

(* The label that a statement creates.                                     *)
LEMMA LabelFacts ==
  ASSUME VisitorReady, blockCount' \in blockCount..MaxBlocks,
         labelCount' = labelCount + 1,
         labelCount' \in labelCount..Cardinality(Labelled)
  PROVE  /\ NextLabel \in Labelled /\ NextLabel # NoLabel
         /\ NextLabel \in Created' \ Fresh
         /\ BlocksInOrder => MayBeTarget(NextLabel)
<1>1. /\ VisitorTypes /\ todo # <<>> /\ fault = "none"
      /\ \A b : ~IsBeingSealed(b)
  BY ReadyFacts
<1>2. /\ MaxBlocks \in Nat /\ labelCount \in Nat
      /\ Cardinality(Labelled) \in Nat
      /\ Labelled = (MaxBlocks + 1)..(MaxBlocks + Cardinality(Labelled))
  BY <1>1, FlowAssumption, FS_CardinalityType DEF VisitorTypes
<1>3. NextLabel \in Labelled
  BY <1>2 DEF NextLabel
<1>4. NextLabel \in Created'
  BY <1>2 DEF NextLabel, Created, NewLabels
<1>5. NextLabel # NoLabel /\ NextLabel \notin Fresh
  BY <1>1, <1>3, FreshBlocks
<1>6. BlocksInOrder => MayBeTarget(NextLabel)
  BY <1>1, <1>3 DEF BlocksInOrder, SealedOnce, MayBeTarget
<1> QED
  BY <1>3, <1>4, <1>5, <1>6
(* A statement that is one item.                                           *)
LEMMA OneWorks ==
  ASSUME Creates(0), NEW x \in Item, NEW T \in SUBSET Block, Targets(x) = T,
         x.do \in {"assign", "use", "branch", "goto"}
  PROVE  \E pl : Works(pl, <<x>>) /\ pl.outer = T
<1>1. PICK pl : pl = Plan(<<>>, <<>>, 2, {}, {}, T)
  OBVIOUS
<1>2. /\ pl.last = 2 /\ pl.ends = {} /\ pl.open = {} /\ pl.outer = T
  BY <1>1 DEF Plan
<1>3. Fresh = {}
  BY NewBlocks
<1>4. PICK s : s = <<x>>
  OBVIOUS
<1>5. /\ s \in Seq(Item) /\ s # <<>> /\ DOMAIN s = {1} /\ s[1] = x
  BY <1>4
<1>6. Fits(pl, 1, x)
  <2>1. \A b \in Targets(x) : OpenAt(pl, 1, b)
    BY <1>2 DEF OpenAt
  <2> QED
    BY <1>2, <2>1, JumpFits
<1>7. Works(pl, s)
  BY <1>2, <1>3, <1>5, <1>6 DEF Works
<1> QED
  BY <1>2, <1>4, <1>7

LEMMA OneKeeps ==
  ASSUME VisitorReady, NEW kind, NEW x \in Item,
         Statement(kind, <<x>>, 0, 0, 0),
         x.do \in {"assign", "use", "branch", "goto"},
         NEW T, Targets(x) = T, T \subseteq Created,
         BlocksInOrder /\ LabelsWillBeFound =>
           \A b \in T : MayBeTarget(b) /\ (b \in Labelled => IsWanted(b))
  PROVE  VisitKeeps
<1>1. <<x>> \in Seq(Item) /\ 0 \in Nat
  OBVIOUS
<1>2. /\ Creates(0) /\ blockCount' \in blockCount..MaxBlocks
      /\ labelCount' \in labelCount..Cardinality(Labelled) /\ VisitorTypes
  BY <1>1, StatementFacts, ReadyFacts
<1>3. T \subseteq Created' \ Fresh /\ T \in SUBSET Block
  BY <1>2, FreshBlocks
<1>4. PICK pl : Works(pl, <<x>>) /\ pl.outer = T
  BY <1>2, <1>3, OneWorks
<1> QED
  BY <1>1, <1>3, <1>4, HandlerKeeps

(* The loop that break and continue are about.                             *)
LEMMA InnermostLoop ==
  ASSUME VisitorReady, loops # <<>>, NEW b,
         b \in {Head(loops).cont, BreakTarget}
  PROVE  /\ b \in Created /\ b \in Block /\ IsWanted(b)
         /\ BlocksInOrder => MayBeTarget(b)
<1>1. PICK l : l = Head(loops)
  OBVIOUS
<1>2. /\ l \in LoopTargets /\ l = loops[1] /\ 1 \in DOMAIN loops
      /\ l \in Range(loops)
  BY <1>1, ReadyFacts DEF VisitorTypes, Range
<1>3. b \in {l.cont, l.brk} \/ (b = l.label /\ b \in Labelled)
  BY <1>1, <1>2 DEF BreakTarget, LoopTargets, Label
<1>4. b \in Created
  BY <1>2, <1>3 DEF VisitorReady, HandlersKeep, BlocksCreated
<1>5. b \in Block
  BY <1>2, <1>3, ConstantsAssumption DEF LoopTargets
<1>6. IsWanted(b)
  BY <1>2, <1>3 DEF IsWanted
<1>7. ASSUME BlocksInOrder
      PROVE  MayBeTarget(b)
  <2>0. fault = "none" /\ todo # <<>> /\ \A d : ~IsBeingSealed(d)
    BY ReadyFacts
  <2>1. CASE b \in Labelled
    BY <1>7, <2>0, <2>1 DEF BlocksInOrder, SealedOnce, MayBeTarget
  <2>2. CASE b \in {l.cont, l.brk}
    <3>1. PICK e \in [DOMAIN loops -> DOMAIN todo] : LoopsOpen(e)
      BY <1>7, <2>0 DEF BlocksInOrder, LoopsInOrder
    <3> QED
      BY <1>2, <2>2, <3>1 DEF LoopsOpen
  <2> QED
    BY <1>3, <2>1, <2>2
<1> QED
  BY <1>4, <1>5, <1>6, <1>7

LEMMA SimpleStatementKeeps ==
  ASSUME VisitorReady, SimpleStatement
  PROVE  VisitKeeps
<1>1. User \subseteq Var
  BY FlowAssumption
<1>2. ASSUME NEW v \in User, NEW kind, NEW x, x \in {AssignTo(v), Use(v)},
             Statement(kind, <<x>>, 0, 0, 0)
      PROVE  VisitKeeps
  <2>1. x \in Item /\ x.do \in {"assign", "use"}
    BY <1>1, <1>2, Made
  <2>2. Targets(x) = {}
    BY <2>1, ItemBlocks
  <2> QED
    BY <1>2, <2>1, <2>2, OneKeeps
<1>3. ASSUME Statement("return", <<Branch({})>>, 0, 0, 0)
      PROVE  VisitKeeps
  <2>1. PICK x : x = Branch({})
    OBVIOUS
  <2>2. {} \in SUBSET Block
    OBVIOUS
  <2>3. x \in Item /\ x.do = "branch" /\ x.targets = {}
    BY <2>1, <2>2, Made
  <2>4. Targets(x) = {}
    BY <2>3, ItemBlocks
  <2>5. Statement("return", <<x>>, 0, 0, 0)
    BY <1>3, <2>1
  <2> QED
    BY <2>3, <2>4, <2>5, OneKeeps
<1>4. ASSUME loops # <<>>, NEW b \in {Head(loops).cont, BreakTarget}, NEW kind,
             Statement(kind, <<Goto(b)>>, 0, 0, 0)
      PROVE  VisitKeeps
  <2>1. /\ b \in Created /\ b \in Block /\ IsWanted(b)
        /\ BlocksInOrder => MayBeTarget(b)
    BY <1>4, InnermostLoop
  <2>2. PICK x : x = Goto(b)
    OBVIOUS
  <2>3. x \in Item /\ x.do = "goto" /\ x.block = b
    BY <2>1, <2>2, Made
  <2>4. Targets(x) = {b}
    BY <2>3, ItemBlocks
  <2>5. Statement(kind, <<x>>, 0, 0, 0)
    BY <1>4, <2>2
  <2> QED
    BY <2>1, <2>3, <2>4, <2>5, OneKeeps
<1> QED
  BY <1>2, <1>3, <1>4 DEF SimpleStatement, InLoop

LEMMA NextTemps ==
  ASSUME VisitorTypes
  PROVE  /\ tempCount < Len(Temps) => NextTemp \in Var
         /\ tempCount + 1 < Len(Temps) => NextTemp \in Var /\ SecondTemp \in Var
<1>1. /\ tempCount \in Nat /\ Len(Temps) \in Nat /\ Temps \in Seq(Var)
  BY FlowAssumption DEF VisitorTypes
<1>2. /\ tempCount < Len(Temps) => tempCount + 1 \in 1..Len(Temps)
      /\ tempCount + 1 < Len(Temps) => /\ tempCount + 1 \in 1..Len(Temps)
                                       /\ tempCount + 2 \in 1..Len(Temps)
  BY <1>1
<1> QED
  BY <1>1, <1>2 DEF NextTemp, SecondTemp

LEMMA ConditionalKeeps ==
  ASSUME VisitorReady, Conditional
  PROVE  VisitKeeps
<1>0. /\ VisitorTypes /\ User \subseteq Var
      /\ 0 \in Nat /\ 1 \in Nat /\ 2 \in Nat /\ 3 \in Nat
  BY ReadyFacts, FlowAssumption
<1>1. ASSUME NEW kind, NEW s, NEW n \in Nat, NEW k \in Nat,
             Statement(kind, s, n, 0, k), \E pl : Works(pl, s) /\ pl.outer = {}
      PROVE  VisitKeeps
  <2>1. PICK pl : Works(pl, s) /\ pl.outer = {}
    BY <1>1
  <2>2. pl.outer \subseteq Created' \ Fresh
    BY <2>1
  <2> QED
    BY <1>0, <1>1, <2>1, <2>2, HandlerKeeps
<1>2. CASE Statement("if", IfItems, 2, 0, 0)
  <2>1. Creates(2)
    BY <1>0, <1>2, HandlerCreates
  <2> QED
    BY <1>0, <1>1, <1>2, <2>1, IfWorks
<1>3. CASE Statement("ifelse", IfElseItems, 3, 0, 0)
  <2>1. Creates(3)
    BY <1>0, <1>3, HandlerCreates
  <2> QED
    BY <1>0, <1>1, <1>3, <2>1, IfElseWorks
<1>4. ASSUME NEW v \in User, tempCount < Len(Temps),
             Statement("ternary", TernaryItems(v, NextTemp), 3, 0, 1)
      PROVE  VisitKeeps
  <2>1. Creates(3) /\ v \in Var /\ NextTemp \in Var
    BY <1>0, <1>4, HandlerCreates, NextTemps
  <2>2. \E pl : Works(pl, TernaryItems(v, NextTemp)) /\ pl.outer = {}
    BY <2>1, TernaryWorks
  <2> QED
    BY <1>0, <1>1, <1>4, <2>2
<1>5. ASSUME NEW v \in User,
             Statement("switch", SwitchItems(v, NextLabel), 2, 1, 0)
      PROVE  VisitKeeps
  <2>1. PICK label : label = NextLabel
    OBVIOUS
  <2>2. PICK s : s = SwitchItems(v, label)
    OBVIOUS
  <2>3. /\ Creates(2) /\ v \in Var /\ blockCount' \in blockCount..MaxBlocks
        /\ labelCount' = labelCount + 1
        /\ labelCount' \in labelCount..Cardinality(Labelled)
    BY <1>0, <1>5, HandlerCreates
  <2>4. /\ label \in Labelled /\ label \in Created' \ Fresh
        /\ BlocksInOrder => MayBeTarget(label)
    BY <2>1, <2>3, LabelFacts
  <2>5. PICK pl : Works(pl, s) /\ pl.outer = {label}
    BY <2>2, <2>3, <2>4, SwitchWorks
  <2>6. \E h \in DOMAIN s : s[h].do = "activate" /\ s[h].block = label
    <3>1. /\ s[6] = ActivateBlock(label) /\ 6 \in DOMAIN s
      BY <2>2 DEF SwitchItems
    <3>2. s[6].do = "activate" /\ s[6].block = label
      BY <3>1 DEF ActivateBlock
    <3> QED
      BY <3>1, <3>2
  <2> QED
    BY <1>0, <1>5, <2>1, <2>2, <2>4, <2>5, <2>6, HandlerKeeps
<1>6. ASSUME NEW v \in User,
             Statement("switch", SwitchDefaultItems(v, NextLabel), 3, 1, 0)
      PROVE  VisitKeeps
  <2>1. PICK label : label = NextLabel
    OBVIOUS
  <2>2. PICK s : s = SwitchDefaultItems(v, label)
    OBVIOUS
  <2>3. /\ Creates(3) /\ v \in Var /\ blockCount' \in blockCount..MaxBlocks
        /\ labelCount' = labelCount + 1
        /\ labelCount' \in labelCount..Cardinality(Labelled)
    BY <1>0, <1>6, HandlerCreates
  <2>4. /\ label \in Labelled /\ label \in Created' \ Fresh
        /\ BlocksInOrder => MayBeTarget(label)
    BY <2>1, <2>3, LabelFacts
  <2>5. PICK pl : Works(pl, s) /\ pl.outer = {label}
    BY <2>2, <2>3, <2>4, SwitchDefaultWorks
  <2>6. \E h \in DOMAIN s : s[h].do = "activate" /\ s[h].block = label
    <3>1. /\ s[6] = ActivateBlock(label) /\ 6 \in DOMAIN s
      BY <2>2 DEF SwitchDefaultItems
    <3>2. s[6].do = "activate" /\ s[6].block = label
      BY <3>1 DEF ActivateBlock
    <3> QED
      BY <3>1, <3>2
  <2> QED
    BY <1>0, <1>6, <2>1, <2>2, <2>4, <2>5, <2>6, HandlerKeeps
<1> QED
  BY <1>2, <1>3, <1>4, <1>5, <1>6 DEF Conditional
(* A loop, without an else or with one.                                    *)
LEMMA PlainLoopKeeps ==
  ASSUME VisitorReady, NEW kind, NEW loop, NEW n \in Nat, NEW k \in Nat,
         Statement(kind, WithElse(loop, NoLabel), n, 0, k),
         NEW pl, Works(pl, loop), pl.outer = {NoLabel} \cap Labelled
  PROVE  VisitKeeps
<1>1. Statement(kind, loop, n, 0, k)
  BY DEF WithElse
<1>2. /\ VisitorTypes /\ blockCount' \in blockCount..MaxBlocks
      /\ labelCount' \in labelCount..Cardinality(Labelled) /\ 0 \in Nat
  BY <1>1, HandlerCreates, ReadyFacts
<1>3. NoLabel \notin Labelled
  BY <1>2, FreshBlocks
<1>4. pl.outer = {}
  BY <1>3
<1>5. pl.outer \subseteq Created' \ Fresh
  BY <1>4
<1> QED
  BY <1>1, <1>2, <1>4, <1>5, HandlerKeeps

LEMMA ElseLoopKeeps ==
  ASSUME VisitorReady, NEW kind, NEW loop, NEW n \in Nat, NEW k \in Nat,
         NEW label, label = NextLabel, label # NoLabel,
         Statement(kind, WithElse(loop, label), n, 1, k),
         NEW pl, Works(pl, loop), pl.outer = {label} \cap Labelled
  PROVE  VisitKeeps
<1>1. PICK items : items = <<Visit(NoLabel)>> \o loop \o
                           <<Visit(NoLabel), Body, Visit(label)>>
  OBVIOUS
<1>2. Statement(kind, items, n, 1, k)
  BY <1>1 DEF WithElse
<1>3. /\ VisitorTypes /\ blockCount' \in blockCount..MaxBlocks
      /\ labelCount' = labelCount + 1
      /\ labelCount' \in labelCount..Cardinality(Labelled) /\ 1 \in Nat
  BY <1>2, HandlerCreates, ReadyFacts
<1>4. /\ label \in Labelled /\ label \in Created' \ Fresh
      /\ BlocksInOrder => MayBeTarget(label)
  BY <1>3, LabelFacts
<1>5. /\ Visit(NoLabel) \in Item /\ Visit(label) \in Item /\ Body \in Item
      /\ Plain(Visit(NoLabel)) /\ Plain(Visit(label)) /\ Plain(Body)
      /\ Visit(label).do = "visit" /\ Visit(label).block = label
  <2>1. NoLabel \in Label /\ label \in Label
    BY <1>4 DEF Label
  <2>2. /\ Visit(NoLabel) \in Item /\ Visit(NoLabel).do = "visit"
        /\ Visit(NoLabel).block = NoLabel
        /\ Visit(label) \in Item /\ Visit(label).do = "visit"
        /\ Visit(label).block = label
        /\ Body \in Item /\ Body.do = "statements"
    BY <2>1, Made
  <2> QED
    BY <1>4, <2>2 DEF Plain
<1>6. /\ loop \in Seq(Item) /\ DOMAIN loop = 1..Len(loop)
      /\ Len(loop) \in Nat
  BY DEF Works
<1>7. /\ items \in Seq(Item) /\ Len(items) = Len(loop) + 4
      /\ DOMAIN items = 1..(Len(loop) + 4)
      /\ items[1] = Visit(NoLabel)
      /\ \A j \in 1..Len(loop) : items[1 + j] = loop[j]
      /\ items[Len(loop) + 2] = Visit(NoLabel)
      /\ items[Len(loop) + 3] = Body /\ items[Len(loop) + 4] = Visit(label)
  BY <1>1, <1>5, <1>6
<1>8. \A j \in DOMAIN items : j \in (1 + 1)..(1 + Len(loop)) \/ Plain(items[j])
  <2>1. \A j \in DOMAIN items :
          \/ j \in (1 + 1)..(1 + Len(loop)) \/ j = 1
          \/ j = Len(loop) + 2 \/ j = Len(loop) + 3 \/ j = Len(loop) + 4
    BY <1>6, <1>7
  <2> QED
    BY <1>5, <1>7, <2>1
<1>9. 1 + Len(loop) <= Len(items) /\ Len(loop) + 4 \in DOMAIN items
  BY <1>6, <1>7
<1>10. \E h \in DOMAIN items : items[h].do = "visit" /\ items[h].block = label
  BY <1>5, <1>7, <1>9
<1>11. pl.outer = {label}
  BY <1>4
<1>12. /\ pl.outer \subseteq Created' \ Fresh
       /\ \A j \in DOMAIN loop : items[1 + j] = loop[j]
  BY <1>4, <1>6, <1>7, <1>11
<1>13. BlocksInOrder /\ LabelsWillBeFound => \A b \in pl.outer :
         /\ MayBeTarget(b)
         /\ \E h \in DOMAIN items : /\ items[h].do \in {"activate", "visit"}
                                    /\ items[h].block = b
  BY <1>4, <1>10, <1>11
<1> QED
  BY <1>2, <1>3, <1>7, <1>8, <1>9, <1>12, <1>13, StatementKeeps

LEMMA LoopKeeps ==
  ASSUME VisitorReady, NEW kind, NEW loop, NEW n \in Nat, NEW k \in Nat,
         NEW label \in {NoLabel, NextLabel},
         Statement(kind, WithElse(loop, label), n,
                   IF label = NoLabel THEN 0 ELSE 1, k),
         Creates(n) /\ label \in {NoLabel} \cup Labelled =>
           IsPlanned(loop, label)
  PROVE  VisitKeeps
<1>1. CASE label = NoLabel
  <2>1. Statement(kind, WithElse(loop, NoLabel), n, 0, k)
    BY <1>1
  <2>2. Creates(n)
    <3>1. 0 \in Nat
      OBVIOUS
    <3> QED
      BY <2>1, <3>1, HandlerCreates
  <2>3. PICK pl : Works(pl, loop) /\ pl.outer = {NoLabel} \cap Labelled
    BY <1>1, <2>2 DEF IsPlanned
  <2> QED
    BY <2>1, <2>3, PlainLoopKeeps
<1>2. CASE label # NoLabel
  <2>1. Statement(kind, WithElse(loop, label), n, 1, k)
    BY <1>2
  <2>2. /\ Creates(n) /\ blockCount' \in blockCount..MaxBlocks
        /\ labelCount' = labelCount + 1
        /\ labelCount' \in labelCount..Cardinality(Labelled)
    <3>1. 1 \in Nat
      OBVIOUS
    <3> QED
      BY <2>1, <3>1, HandlerCreates
  <2>3. label = NextLabel /\ label \in Labelled
    BY <1>2, <2>2, LabelFacts
  <2>4. PICK pl : Works(pl, loop) /\ pl.outer = {label} \cap Labelled
    BY <2>2, <2>3 DEF IsPlanned
  <2> QED
    BY <1>2, <2>1, <2>3, <2>4, ElseLoopKeeps
<1> QED
  BY <1>1, <1>2

LEMMA LoopStatementKeeps ==
  ASSUME VisitorReady, LoopStatement
  PROVE  VisitKeeps
<1>1. PICK label \in {NoLabel, NextLabel} :
        \/ Statement("while", WithElse(WhileItems(label), label), 3,
                     IF label = NoLabel THEN 0 ELSE 1, 0)
        \/ ForInLoop(label)
  BY DEF LoopStatement
<1>2. /\ VisitorTypes /\ User \subseteq Var
      /\ {0, 1, 2, 3, 4, 5} \subseteq Nat
  BY ReadyFacts, FlowAssumption
<1> DEFINE HasPlan(n, loop) ==
             Creates(n) /\ label \in {NoLabel} \cup Labelled =>
               IsPlanned(loop, label)
<1>3. ASSUME NEW kind, NEW loop, NEW n \in {3, 4, 5}, NEW k \in {0, 1, 2},
             Statement(kind, WithElse(loop, label), n,
                       IF label = NoLabel THEN 0 ELSE 1, k),
             HasPlan(n, loop)
      PROVE  VisitKeeps
  <2>1. n \in Nat /\ k \in Nat
    OBVIOUS
  <2> QED
    BY <1>3, <2>1, LoopKeeps
<1>4. CASE Statement("while", WithElse(WhileItems(label), label), 3,
                     IF label = NoLabel THEN 0 ELSE 1, 0)
  <2>1. HasPlan(3, WhileItems(label))
    BY WhileWorks
  <2> QED
    BY <1>3, <1>4, <2>1
<1>5. ASSUME tempCount < Len(Temps), NEW i \in User, NEW step \in User,
             NEW stop \in User, NEW start \in User, NEW down \in BOOLEAN,
             For("reversed",
                 ReversedItems(i, step, stop, start, NextTemp, down, label),
                 5, label, 1)
      PROVE  VisitKeeps
  <2>1. NextTemp \in Var
    BY <1>2, <1>5, NextTemps
  <2>2. HasPlan(5, ReversedItems(i, step, stop, start, NextTemp, down, label))
    <3>1. i \in Var /\ step \in Var /\ stop \in Var /\ start \in Var
      BY <1>2
    <3> QED
      BY <2>1, <3>1, ReversedWorks
  <2> QED
    BY <1>3, <1>5, <2>2 DEF For
<1>6. ASSUME tempCount < Len(Temps), NEW i \in User, NEW step \in User,
             NEW stop \in User, NEW start \in User,
             For("range", RangeItems(i, step, stop, start, NextTemp, label),
                 4, label, 1)
      PROVE  VisitKeeps
  <2>1. NextTemp \in Var
    BY <1>2, <1>6, NextTemps
  <2>2. HasPlan(4, RangeItems(i, step, stop, start, NextTemp, label))
    <3>1. i \in Var /\ step \in Var /\ stop \in Var /\ start \in Var
      BY <1>2
    <3> QED
      BY <2>1, <3>1, RangeWorks
  <2> QED
    BY <1>3, <1>6, <2>2 DEF For
<1>7. ASSUME tempCount < Len(Temps), NEW i \in User, NEW first \in User,
             NEW second \in User,
             For("tuple", TupleItems(i, first, second, NextTemp, label),
                 4, label, 1)
      PROVE  VisitKeeps
  <2>1. NextTemp \in Var /\ i \in Var /\ first \in Var /\ second \in Var
    BY <1>2, <1>7, NextTemps
  <2>2. HasPlan(4, TupleItems(i, first, second, NextTemp, label))
    BY <2>1, TupleWorks
  <2> QED
    BY <1>3, <1>7, <2>2 DEF For
<1>8. ASSUME tempCount + 1 < Len(Temps), NEW i \in User, NEW a \in User,
             NEW items \in
               {IndexedItems(i, a, NextTemp, SecondTemp, label),
                IndexedDownItems(i, a, NextTemp, SecondTemp, label)},
             For("indexed", items, 4, label, 2)
      PROVE  VisitKeeps
  <2>1. NextTemp \in Var /\ SecondTemp \in Var /\ i \in Var /\ a \in Var
    BY <1>2, <1>8, NextTemps
  <2>2. CASE items = IndexedItems(i, a, NextTemp, SecondTemp, label)
    <3>1. HasPlan(4, items)
      BY <2>1, <2>2, IndexedWorks
    <3> QED
      BY <1>3, <1>8, <3>1 DEF For
  <2>3. CASE items = IndexedDownItems(i, a, NextTemp, SecondTemp, label)
    <3>1. HasPlan(4, items)
      BY <2>1, <2>3, IndexedDownWorks
    <3> QED
      BY <1>3, <1>8, <3>1 DEF For
  <2> QED
    BY <1>8, <2>2, <2>3
<1> QED
  BY <1>1, <1>4, <1>5, <1>6, <1>7, <1>8 DEF ForInLoop

-----------------------------------------------------------------------------
(* The visitor keeps to what the blocks builder asks of it                 *)

LEMMA VisitorKeeps ==
  ASSUME Warned, HandlersKeep, Visitor
  PROVE  VisitKeeps
<1>1. AtItem
  <2>1. ASSUME NEW kind, NEW s, NEW n, NEW l, NEW k, Statement(kind, s, n, l, k)
        PROVE  AtItem
    BY <2>1 DEF Statement, Doing
  <2>2. SimpleStatement \/ Conditional => AtItem
    BY <2>1 DEF SimpleStatement, Conditional
  <2>3. LoopStatement => AtItem
    <3>1. ASSUME NEW label, ForInLoop(label)
          PROVE  AtItem
      BY <2>1, <3>1 DEF ForInLoop, For
    <3> QED
      BY <2>1, <3>1 DEF LoopStatement
  <2> QED
    BY <2>2, <2>3 DEF Visitor, DoGoto, DoActivate, DoOpen, DoClose,
       DoTryActivate, DoBranch, DoAssign, DoUse, DoHold, DoKeep, DoUseHeld,
       DoRelease, DoLoop, DoExitLoop, ConditionOperand, ConditionOperator,
       DoVisit, EndBody, EndFunction, DoFinalise, Doing
<1>2. VisitorReady
  BY <1>1 DEF VisitorReady
<1>3. CASE \/ DoGoto \/ DoActivate \/ DoOpen \/ DoClose \/ DoTryActivate
           \/ DoBranch
  BY <1>2, <1>3, DoGotoKeeps, DoActivateKeeps, DoCloseKeeps,
     DoTryActivateKeeps, DoBranchKeeps
<1>4. CASE \/ DoAssign \/ DoUse \/ DoHold \/ DoKeep \/ DoUseHeld \/ DoRelease
           \/ DoLoop \/ DoExitLoop
  BY <1>2, <1>4, OpsKeep, DoHoldKeeps, DoKeepKeeps, DoReleaseKeeps,
     DoLoopKeeps, DoExitLoopKeeps
<1>5. CASE \/ ConditionOperand \/ ConditionOperator \/ DoVisit \/ EndBody
           \/ EndFunction \/ DoFinalise
  BY <1>2, <1>5, ConditionKeeps, DoVisitKeeps, EndBodyKeeps, EndFunctionKeeps,
     DoFinaliseKeeps
<1>6. CASE SimpleStatement \/ Conditional \/ LoopStatement
  BY <1>2, <1>6, SimpleStatementKeeps, ConditionalKeeps, LoopStatementKeeps
<1> QED
  BY <1>3, <1>4, <1>5, <1>6 DEF Visitor
-----------------------------------------------------------------------------
(* Every behaviour keeps the invariant                                     *)

FlowInvariant == Warned /\ HandlersInOrder

LEMMA InOrderStutter ==
  ASSUME BlocksInOrder, LabelsWillBeFound, UNCHANGED <<vars, visitor>>
  PROVE  BlocksInOrder' /\ LabelsWillBeFound'
<1>1. /\ UNCHANGED <<blocks, preds, terminated, sealed, calls, fault>>
      /\ UNCHANGED <<todo, loops>>
  BY DEF vars, cfgVars, ssaVars, callVars, visitor
<1>2. Frames' = Frames
  BY <1>1 DEF Frames
<1>3. \A b : IsBeingSealed(b)' <=> IsBeingSealed(b)
  BY <1>2 DEF IsBeingSealed
<1>4. \A b : MayBeTarget(b)' <=> MayBeTarget(b)
  BY <1>1, <1>3 DEF MayBeTarget
<1>5. JumpsInOrder => JumpsInOrder'
  BY <1>1, <1>4 DEF JumpsInOrder
<1>6. EndsInOrder => EndsInOrder'
  BY <1>1 DEF EndsInOrder, active
<1>7. LoopsInOrder => LoopsInOrder'
  <2>1. HAVE LoopsInOrder
  <2>2. PICK e \in [DOMAIN loops -> DOMAIN todo] : Exits(e) /\ LoopsOpen(e)
    BY <2>1 DEF LoopsInOrder
  <2>3. Exits(e)'
    BY <1>1, <2>2 DEF Exits
  <2>4. LoopsOpen(e)'
    BY <1>1, <1>4, <2>2 DEF LoopsOpen
  <2> QED
    BY <1>1, <2>2, <2>3, <2>4 DEF LoopsInOrder
<1>8. SealedOnce => SealedOnce'
  BY <1>1, <1>2, <1>3 DEF SealedOnce
<1>9. SealedAtLast => SealedAtLast'
  BY <1>1, <1>2, <1>3 DEF SealedAtLast
<1>10. BlocksWellFormed'
  BY <1>1 DEF BlocksInOrder, BlocksWellFormed
<1>11. LabelsWillBeFound'
  BY <1>1 DEF LabelsWillBeFound, IsWanted, WillBeFound, Activated
<1> QED
  BY <1>1, <1>5, <1>6, <1>7, <1>8, <1>9, <1>10, <1>11 DEF BlocksInOrder

(* What the function begins with.                                          *)
LEMMA InitItems ==
  ASSUME FlowInit
  PROVE  /\ todo \in Seq(Item) /\ Len(todo) = 3 /\ DOMAIN todo = 1..3
         /\ todo # <<>> /\ Head(todo) = Body
         /\ todo[1].do = "statements" /\ todo[2].do = "end"
         /\ todo[3].do = "finalise"
         /\ \A x \in Range(todo) :
              /\ x.do \in {"statements", "end", "finalise"}
              /\ Activates(x) = {} /\ NeedsOpen(x) = {} /\ KeysOf(x) = {}
<1>1. PICK e : e = [do |-> "end"]
  OBVIOUS
<1>2. PICK f : f = [do |-> "finalise"]
  OBVIOUS
<1>3. PICK s : s = Body
  OBVIOUS
<1>4. s \in Item /\ e \in Item /\ f \in Item
  BY <1>1, <1>2, <1>3 DEF Item, Body
<1>5. s.do = "statements" /\ e.do = "end" /\ f.do = "finalise"
  BY <1>1, <1>2, <1>3 DEF Body
<1>6. todo = <<s, e, f>>
  BY <1>1, <1>2, <1>3 DEF FlowInit
<1>7. /\ todo \in Seq(Item) /\ Len(todo) = 3 /\ DOMAIN todo = 1..3
      /\ todo # <<>> /\ Head(todo) = s
      /\ todo[1] = s /\ todo[2] = e /\ todo[3] = f
  BY <1>4, <1>6
<1>8. ASSUME NEW x \in {s, e, f}
      PROVE  Activates(x) = {} /\ NeedsOpen(x) = {} /\ KeysOf(x) = {}
  BY <1>5, <1>8 DEF Activates, Enters, NeedsOpen, Targets, JumpsTo, KeysOf, Uses
<1>9. Range(todo) = {s, e, f}
  BY <1>7 DEF Range
<1> QED
  BY <1>3, <1>5, <1>7, <1>8, <1>9

LEMMA InitHandlersKeep ==
  ASSUME FlowInit
  PROVE  HandlersKeep
<1>1. /\ calls = <<>> /\ fault = "none" /\ finalised = FALSE
      /\ blocks = <<Entry>> /\ Entry = 0
      /\ held = <<>> /\ loops = <<>> /\ blockCount = 0 /\ labelCount = 0
      /\ tempCount = 0
  BY FlowAssumption DEF FlowInit, Init
<1>2. Frames = {} /\ Range(blocks) = {0}
  BY <1>1 DEF Frames, Range
<1>3. DOMAIN held = {} /\ DOMAIN loops = {} /\ Range(loops) = {}
  BY <1>1 DEF Range
<1>4. VisitorTypes
  <2>1. Len(Temps) \in Nat /\ Cardinality(Labelled) \in Nat /\ MaxBlocks \in Nat
    BY FlowAssumption, FS_CardinalityType
  <2>2. loops \in Seq(LoopTargets)
    BY <1>1
  <2>3. blockCount \in 0..MaxBlocks /\ tempCount \in 0..Len(Temps)
        /\ labelCount \in 0..Cardinality(Labelled)
    BY <1>1, <2>1
  <2> QED
    BY <1>3, <2>2, <2>3, InitItems DEF VisitorTypes
<1>5. LoopsNested
  <2>1. PICK e : e = [k \in DOMAIN loops |-> 1]
    OBVIOUS
  <2>2. e \in [DOMAIN loops -> DOMAIN todo] /\ Range(e) = {}
    BY <1>3, <2>1 DEF Range
  <2>3. {i \in DOMAIN todo : todo[i].do = "exit"} = {}
    <3>1. \A i \in DOMAIN todo : i = 1 \/ i = 2 \/ i = 3
      BY InitItems
    <3> QED
      BY <3>1, InitItems
  <2>4. Exits(e)
    BY <1>3, <2>2, <2>3 DEF Exits
  <2> QED
    BY <2>2, <2>4 DEF LoopsNested
<1>6. BlocksCreated
  <2>1. 0 \in Created
    BY <1>1 DEF Created
  <2> QED
    BY <1>2, <1>3, <2>1, InitItems DEF BlocksCreated
<1>7. KeysCreated
  BY <1>3, InitItems DEF KeysCreated
<1>8. \A j \in DOMAIN todo :
        /\ todo[j].do \in {"statements", "end", "finalise"}
        /\ KeysOf(todo[j]) = {}
  BY InitItems DEF Range
<1>9. KeysScoped
  BY <1>8 DEF KeysScoped
<1>10. KeptIsDefined
  BY <1>3 DEF KeptIsDefined
<1>11. KeepFollowsRead
  <2>1. Head(todo).do = "statements"
    BY InitItems DEF Body
  <2> QED
    BY <1>8, <2>1 DEF KeepFollowsRead
<1>12. FinaliseLast
  <2>1. \A j \in DOMAIN todo : j = 1 \/ j = 2 \/ j = 3
    BY InitItems
  <2> QED
    BY <1>1, <1>2, <2>1, InitItems DEF FinaliseLast
<1> QED
  BY <1>4, <1>5, <1>6, <1>7, <1>9, <1>10, <1>11, <1>12 DEF HandlersKeep

LEMMA InitInOrder ==
  ASSUME FlowInit
  PROVE  BlocksInOrder /\ LabelsWillBeFound
<1>1. /\ calls = <<>> /\ fault = "none" /\ blocks = <<Entry>>
      /\ sealed = {Entry} /\ preds = [b \in Block |-> <<>>] /\ loops = <<>>
      /\ Entry \notin Labelled /\ Labelled \subseteq Block
  BY ConstantsAssumption DEF FlowInit, Init
<1>2. Frames = {} /\ Range(blocks) = {Entry}
  BY <1>1 DEF Frames, Range
<1>3. DOMAIN loops = {} /\ Range(loops) = {}
  BY <1>1 DEF Range
<1>4. \A j \in DOMAIN todo :
        /\ todo[j].do \in {"statements", "end", "finalise"}
        /\ NeedsOpen(todo[j]) = {} /\ ~NeedsEnd(todo[j])
  BY InitItems DEF Range, NeedsEnd
<1>5. JumpsInOrder
  BY <1>4, InitItems DEF JumpsInOrder, Range
<1>6. EndsInOrder
  <2>1. \A i \in 1..(Len(todo) - 1) : i + 1 \in DOMAIN todo
    <3>1. Len(todo) = 3 /\ DOMAIN todo = 1..3
      BY InitItems
    <3> QED
      BY <3>1
  <2>2. ~NeedsEnd(Head(todo))
    BY InitItems DEF NeedsEnd, Body
  <2> QED
    BY <1>4, <2>1, <2>2 DEF EndsInOrder
<1>7. LoopsInOrder
  <2>1. PICK e \in [DOMAIN loops -> DOMAIN todo] : Exits(e)
    BY InitHandlersKeep DEF HandlersKeep, LoopsNested
  <2>2. LoopsOpen(e)
    BY <1>3 DEF LoopsOpen
  <2> QED
    BY <2>1, <2>2 DEF LoopsInOrder
<1>8. SealedOnce
  BY <1>1, <1>2 DEF SealedOnce
<1>9. SealedAtLast
  BY <1>1, <1>2, <1>4 DEF SealedAtLast
<1>10. \A b \in Labelled : ~IsWanted(b)
  <2>1. \A x \in Range(todo) : Targets(x) = {}
    BY InitItems DEF NeedsOpen
  <2> QED
    BY <1>1, <1>3, <2>1 DEF IsWanted
<1> QED
  BY <1>1, <1>5, <1>6, <1>7, <1>8, <1>9, <1>10
  DEF BlocksInOrder, BlocksWellFormed, LabelsWillBeFound

LEMMA FlowInvariantInit == FlowInit => FlowInvariant
<1>1. FlowInit => Init
  BY DEF FlowInit
<1> QED
  BY <1>1, WarnedInit, InitHandlersKeep, InitInOrder
  DEF FlowInvariant, HandlersInOrder

(* One step of the visitor, of a call, or of the program that was built.   *)
LEMMA FlowInvariantNext ==
  ASSUME FlowInvariant, [FlowNext]_<<vars, machine, visitor>>
  PROVE  FlowInvariant' /\ [Next]_vars /\ [ExecNext]_<<vars, machine>>
<1>1. Warned /\ HandlersKeep /\ BlocksInOrder /\ LabelsWillBeFound
  BY DEF FlowInvariant, HandlersInOrder
<1>2. CASE Visitor /\ UNCHANGED machine
  <2>1. [Next]_vars /\ HandlersKeep' /\ BlocksInOrder' /\ LabelsWillBeFound'
    BY <1>1, <1>2, VisitorKeeps, FulfilsKeeps
  <2>2. [ExecNext]_<<vars, machine>>
    BY <1>2, <2>1 DEF ExecNext
  <2> QED
    BY <1>1, <2>1, <2>2, WarnedNext DEF FlowInvariant, HandlersInOrder
<1>3. CASE Step /\ UNCHANGED <<machine, visitor>>
  <2>1. [Next]_vars /\ [ExecNext]_<<vars, machine>>
    BY <1>3 DEF Next, ExecNext
  <2>2. StepOK /\ UNCHANGED visitor
    BY <1>1, <1>3, <2>1 DEF Warned, StepOK
  <2>3. HandlersKeep' /\ BlocksInOrder' /\ LabelsWillBeFound'
    BY <1>1, <1>3, <2>1, <2>2, HandlersKeepStep, BlocksInOrderStep,
       LabelsWillBeFoundStep
  <2> QED
    BY <1>1, <2>1, <2>3, WarnedNext DEF FlowInvariant, HandlersInOrder
<1>4. CASE UNCHANGED <<vars, visitor>>
           /\ (Execute \/ UNCHANGED machine)
  <2>1. [Next]_vars /\ [ExecNext]_<<vars, machine>>
    BY <1>4 DEF ExecNext
  <2>2. UNCHANGED <<vars, visitor>>
    BY <1>4
  <2>3. HandlersKeep' /\ BlocksInOrder' /\ LabelsWillBeFound'
    BY <1>1, <2>2, HandlersKeepStutter, InOrderStutter
  <2> QED
    BY <1>1, <2>1, <2>3, WarnedNext DEF FlowInvariant, HandlersInOrder
<1>5. Execute => UNCHANGED vars
  BY DEF Execute, ExecWrite, ExecUse, ExecJump
<1> QED
  BY <1>2, <1>3, <1>4, <1>5 DEF FlowNext, Stopped

-----------------------------------------------------------------------------
(* The theorems                                                            *)

(* The statement handlers use the builder as its contract allows: each of  *)
(* their calls is one that a client may make (none writes to a terminated  *)
(* block, activates a block twice or uses a register that the builder      *)
(* removed), so that BraunSSA's promises to every client hold for them.    *)
THEOREM HandlersImplementBraunSSA == FlowSpec => ImplementsBraunSSA
<1>1. FlowInit => Init
  BY DEF FlowInit
<1>2. FlowInit => FlowInvariant
  BY FlowInvariantInit
<1>3. FlowInvariant /\ [FlowNext]_<<vars, machine, visitor>> =>
        FlowInvariant' /\ [Next]_vars
  BY FlowInvariantNext
<1> QED
  BY <1>1, <1>2, <1>3, PTL DEF FlowSpec, ImplementsBraunSSA, Spec

(* So do the program that they build, and the machine that runs it.        *)
THEOREM HandlersImplementExecution == FlowSpec => ExecSpec
<1>1. FlowInit => ExecInit
  BY DEF FlowInit, ExecInit
<1>2. FlowInit => FlowInvariant
  BY FlowInvariantInit
<1>3. FlowInvariant /\ [FlowNext]_<<vars, machine, visitor>> =>
        FlowInvariant' /\ [ExecNext]_<<vars, machine>>
  BY FlowInvariantNext
<1> QED
  BY <1>1, <1>2, <1>3, PTL DEF FlowSpec, ExecSpec

(* Whatever a function consists of, none of its handlers makes the blocks  *)
(* builder or the SSA construction raise an error of its own, but for the  *)
(* block that is activated although nothing jumps to it: no jump to a      *)
(* sealed block, no block activated while another one is open, none sealed *)
(* twice or left unsealed when the function is finished.                   *)
THEOREM HandlersAreWellFormed == FlowSpec => []BlocksWellFormed
<1>1. FlowInvariant => BlocksWellFormed
  BY DEF FlowInvariant, HandlersInOrder, BlocksInOrder
<1>2. FlowInvariant /\ [FlowNext]_<<vars, machine, visitor>> => FlowInvariant'
  BY FlowInvariantNext
<1> QED
  BY <1>1, <1>2, FlowInvariantInit, PTL DEF FlowSpec

(* A label that a break, a switch or an else jumps to is the label of a    *)
(* block by the end of the function: the handler that made the label       *)
(* visits what it stands for, however the statements in between end.       *)
THEOREM HandlersDefineLabels == FlowSpec => []LabelsAreFound
<1>1. ASSUME FlowInvariant, finalised, NEW b \in Labelled, preds[b] # <<>>
      PROVE  Activated(b)
  <2>1. fault = "none"
    BY <1>1 DEF FlowInvariant, Warned, Warnings
  <2>2. todo = <<>>
    BY <1>1 DEF FlowInvariant, HandlersInOrder, HandlersKeep, FinaliseLast
  <2>3. WillBeFound(b)
    BY <1>1, <2>1
    DEF FlowInvariant, HandlersInOrder, LabelsWillBeFound, IsWanted
  <2>4. Range(todo) = {}
    BY <2>2 DEF Range
  <2> QED
    BY <2>3, <2>4 DEF WillBeFound
<1>2. FlowInvariant => LabelsAreFound
  BY <1>1 DEF LabelsAreFound
<1>3. FlowInvariant /\ [FlowNext]_<<vars, machine, visitor>> => FlowInvariant'
  BY FlowInvariantNext
<1> QED
  BY <1>2, <1>3, FlowInvariantInit, PTL DEF FlowSpec

(* In the program that the handlers build, as in that of any client, each  *)
(* read of a variable finds the value most recently assigned to it.        *)
THEOREM HandlersKeepValues == FlowSpec => []ReadsAreCurrent
<1> QED
  BY HandlersImplementExecution, ReadsFindTheirValue, PTL

-----------------------------------------------------------------------------
(* The edges back to the headers of loops                                  *)

(* Items that may take the place of the first one: what they decide        *)
(* between it decided between, or is new and not to be closed.             *)
Calm(K) ==
  {x \in Item : /\ x.do = "close" => x.block \in K
                /\ Chooses(x) \subseteq Chooses(item) \cup (Fresh \ K)}
IsCalm(s) == \E K \in SUBSET Fresh : s \in Seq(Calm(K))

(* What an item decides between has to be open.                            *)
LEMMA ChoicesOfItem ==
  ASSUME NEW x \in Item
  PROVE  /\ Chooses(x) \subseteq NeedsOpen(x)
         /\ x.do \notin {"branch", "cond", "try"} => Chooses(x) = {}
         /\ x.do = "branch" => Chooses(x) = x.targets
         /\ x.do = "cond" => Chooses(x) = {x.true, x.false}
         /\ x.do = "try" => Chooses(x) = UNION {Choices(y) : y \in Range(x.then)}
<1>1. /\ x.do \notin {"branch", "cond", "try"} => Chooses(x) = {}
      /\ x.do = "branch" => Chooses(x) = x.targets
      /\ x.do = "cond" => Chooses(x) = {x.true, x.false}
      /\ x.do = "try" => Chooses(x) = UNION {Choices(y) : y \in Range(x.then)}
  BY DEF Chooses, Choices
<1>2. CASE x.do = "try"
  <2>1. x.then \in Seq(SimpleItem)
    BY <1>2, ItemFields
  <2>2. Range(x.then) \subseteq SimpleItem
    BY <2>1, RangeType
  <2>3. \A y \in SimpleItem : Choices(y) \subseteq JumpsTo(y)
    BY DEF SimpleItem, Choices, JumpsTo
  <2>4. NeedsOpen(x) = UNION {JumpsTo(y) : y \in Range(x.then)}
    BY <1>2 DEF NeedsOpen, Targets
  <2> QED
    BY <1>1, <1>2, <2>2, <2>3, <2>4
<1>3. CASE x.do # "try"
  BY <1>1, <1>3, ItemBlocks
<1> QED
  BY <1>1, <1>2, <1>3

LEMMA CalmMade ==
  ASSUME NEW K \in SUBSET Fresh
  PROVE  /\ \A b \in Block :
              /\ Goto(b) \in Calm(K) /\ ActivateBlock(b) \in Calm(K)
              /\ OpenBlock(b) \in Calm(K)
              /\ b \in K => CloseBlock(b) \in Calm(K)
         /\ \A ts \in SUBSET Block :
              ts \subseteq Chooses(item) \cup (Fresh \ K) => Branch(ts) \in Calm(K)
         /\ \A t, f \in Block :
              {t, f} \subseteq Chooses(item) \cup (Fresh \ K)
                => Cond(t, f) \in Calm(K)
         /\ \A v \in Var : AssignTo(v) \in Calm(K) /\ Use(v) \in Calm(K)
         /\ \A k \in Nat : /\ UseKept(k) \in Calm(K)
                           /\ \A v \in Var : Hold(v, k) \in Calm(K)
         /\ \A ks \in SUBSET Nat : Release(ks) \in Calm(K)
         /\ \A c, b \in Block, l \in Label : Loop(c, b, l) \in Calm(K)
         /\ \A l \in Label : Visit(l) \in Calm(K)
         /\ Body \in Calm(K)
<1>1. /\ \A b \in Block :
           /\ Goto(b) \in Calm(K) /\ ActivateBlock(b) \in Calm(K)
           /\ OpenBlock(b) \in Calm(K)
           /\ b \in K => CloseBlock(b) \in Calm(K)
      /\ \A v \in Var : AssignTo(v) \in Calm(K) /\ Use(v) \in Calm(K)
      /\ \A k \in Nat : /\ UseKept(k) \in Calm(K)
                        /\ \A v \in Var : Hold(v, k) \in Calm(K)
  <2>1. \A x \in Item : x.do \notin {"branch", "cond", "try", "close"}
                          => x \in Calm(K)
    BY ChoicesOfItem DEF Calm
  <2>2. \A x \in Item : x.do = "close" /\ x.block \in K => x \in Calm(K)
    BY ChoicesOfItem DEF Calm
  <2> QED
    BY <2>1, <2>2, Made
<1>2. /\ \A ts \in SUBSET Block :
           ts \subseteq Chooses(item) \cup (Fresh \ K) => Branch(ts) \in Calm(K)
      /\ \A t, f \in Block :
           {t, f} \subseteq Chooses(item) \cup (Fresh \ K)
             => Cond(t, f) \in Calm(K)
  BY Made, ChoicesOfItem DEF Calm
<1>3. /\ \A ks \in SUBSET Nat : Release(ks) \in Calm(K)
      /\ \A c, b \in Block, l \in Label : Loop(c, b, l) \in Calm(K)
      /\ \A l \in Label : Visit(l) \in Calm(K)
      /\ Body \in Calm(K)
  <2>1. \A x \in Item : x.do \notin {"branch", "cond", "try", "close"}
                          => x \in Calm(K)
    BY ChoicesOfItem DEF Calm
  <2> QED
    BY <2>1, Made
<1> QED
  BY <1>1, <1>2, <1>3

LEMMA CalmTry ==
  ASSUME NEW K \in SUBSET Fresh, NEW b \in Block, NEW s \in Seq(SimpleItem),
         \A j \in DOMAIN s : Choices(s[j]) \subseteq Fresh \ K
  PROVE  TryActivate(b, s) \in Calm(K)
<1>1. PICK x : x = TryActivate(b, s)
  OBVIOUS
<1>2. x \in Item /\ x.do = "try" /\ x.then = s
  BY <1>1, MadeTry
<1>3. \A y \in Range(s) : Choices(y) \subseteq Fresh \ K
  BY DEF Range
<1>4. Chooses(x) \subseteq Fresh \ K
  BY <1>2, <1>3, ChoicesOfItem
<1> QED
  BY <1>1, <1>2, <1>4 DEF Calm

LEMMA ChoicesMade ==
  /\ \A b \in Block : Choices(Goto(b)) = {} /\ Choices(ActivateBlock(b)) = {}
  /\ \A ts \in SUBSET Block : Choices(Branch(ts)) = ts
  /\ \A v \in Var : Choices(AssignTo(v)) = {}
  /\ \A k \in Nat : Choices(UseKept(k)) = {}
  BY Made DEF Choices

(* The names of the blocks that a handler creates.                         *)
LEMMA NewTwo ==
  ASSUME NEW n \in Nat, n >= 2, Creates(n)
  PROVE  /\ New(1) \in Fresh /\ New(2) \in Fresh /\ New(1) # New(2)
         /\ New(1) \in Block /\ New(2) \in Block
         /\ New(1) \in Nat /\ New(2) \in Nat
<1>1. 1 \in 1..n /\ 2 \in 1..n /\ 1 \in Nat /\ 2 \in Nat
  OBVIOUS
<1> QED
  BY <1>1, NewBlocks

LEMMA NewThree ==
  ASSUME NEW n \in Nat, n >= 3, Creates(n)
  PROVE  /\ New(3) \in Fresh /\ New(1) # New(3) /\ New(2) # New(3)
         /\ New(3) \in Block /\ New(3) \in Nat
<1>1. 3 \in 1..n /\ 1 \in Nat /\ 2 \in Nat /\ 3 \in Nat
  OBVIOUS
<1> QED
  BY <1>1, NewBlocks

LEMMA NewFour ==
  ASSUME NEW n \in Nat, n >= 4, Creates(n)
  PROVE  /\ New(4) \in Fresh /\ New(4) \in Block /\ New(4) \in Nat
         /\ New(1) # New(4) /\ New(2) # New(4) /\ New(3) # New(4)
<1>1. 4 \in 1..n /\ 1 \in Nat /\ 2 \in Nat /\ 3 \in Nat /\ 4 \in Nat
  OBVIOUS
<1> QED
  BY <1>1, NewBlocks

LEMMA NewFive ==
  ASSUME NEW n \in Nat, n >= 5, Creates(n)
  PROVE  /\ New(5) \in Fresh /\ New(5) \in Block /\ New(5) \in Nat
         /\ New(1) # New(5) /\ New(2) # New(5) /\ New(3) # New(5)
         /\ New(4) # New(5)
<1>1. 5 \in 1..n /\ 1 \in Nat /\ 2 \in Nat /\ 3 \in Nat /\ 4 \in Nat /\ 5 \in Nat
  OBVIOUS
<1> QED
  BY <1>1, NewBlocks

-----------------------------------------------------------------------------
(* What the handlers decide between                                        *)

LEMMA IfCalm ==
  ASSUME Creates(2)
  PROVE  IsCalm(IfItems)
<1>1. PICK body, next :
       /\ body = New(1) /\ next = New(2)
  OBVIOUS
<1>2. /\ body \in Fresh /\ next \in Fresh
      /\ body \in Block /\ next \in Block
      /\ body \in Nat /\ next \in Nat
      /\ body # next
  <2>1. 2 \in Nat /\ 2 >= 2
    OBVIOUS
  <2> QED
    BY <1>1, <2>1, NewTwo
<1>3. PICK K : K = {}
  OBVIOUS
<1>4. K \in SUBSET Fresh /\ K \subseteq Block
  BY <1>2, <1>3
<1>5. TryActivate(next, <<>>) \in Calm(K)
  <2>1. <<>> \in Seq(SimpleItem) /\ DOMAIN <<>> = {}
    OBVIOUS
  <2> QED
    BY <1>2, <1>4, <2>1, CalmTry
<1>6. Cond(body, next) \in Calm(K)
  <2>1. {body, next} \subseteq Fresh \ K
    BY <1>2, <1>3
  <2> QED
    BY <1>2, <1>4, <2>1, CalmMade
<1>7. /\ ActivateBlock(body) \in Calm(K) /\ Body \in Calm(K)
      /\ Goto(next) \in Calm(K)
  BY <1>2, <1>4, CalmMade
<1>8. IfItems \in Seq(Calm(K))
  BY <1>1, <1>5, <1>6, <1>7 DEF IfItems
<1> QED
  BY <1>4, <1>8 DEF IsCalm

LEMMA IfElseCalm ==
  ASSUME Creates(3)
  PROVE  IsCalm(IfElseItems)
<1>1. PICK body, orelse, next :
       /\ body = New(1) /\ orelse = New(2) /\ next = New(3)
  OBVIOUS
<1>2. /\ body \in Fresh /\ orelse \in Fresh /\ next \in Fresh
      /\ body \in Block /\ orelse \in Block /\ next \in Block
      /\ body \in Nat /\ orelse \in Nat /\ next \in Nat
      /\ body # orelse /\ body # next /\ orelse # next
  <2>1. 3 \in Nat /\ 3 >= 2 /\ 3 >= 3
    OBVIOUS
  <2> QED
    BY <1>1, <2>1, NewTwo, NewThree
<1>3. PICK K : K = {}
  OBVIOUS
<1>4. K \in SUBSET Fresh /\ K \subseteq Block
  BY <1>2, <1>3
<1>5. TryActivate(next, <<>>) \in Calm(K)
  <2>1. <<>> \in Seq(SimpleItem) /\ DOMAIN <<>> = {}
    OBVIOUS
  <2> QED
    BY <1>2, <1>4, <2>1, CalmTry
<1>6. Cond(body, orelse) \in Calm(K)
  <2>1. {body, orelse} \subseteq Fresh \ K
    BY <1>2, <1>3
  <2> QED
    BY <1>2, <1>4, <2>1, CalmMade
<1>7. /\ ActivateBlock(body) \in Calm(K) /\ ActivateBlock(orelse) \in Calm(K)
      /\ Body \in Calm(K) /\ Goto(next) \in Calm(K)
  BY <1>2, <1>4, CalmMade
<1>8. IfElseItems \in Seq(Calm(K))
  BY <1>1, <1>5, <1>6, <1>7 DEF IfElseItems
<1> QED
  BY <1>4, <1>8 DEF IsCalm

LEMMA TernaryCalm ==
  ASSUME Creates(3), NEW v \in Var, NEW tmp \in Var
  PROVE  IsCalm(TernaryItems(v, tmp))
<1>1. PICK true, false, merge :
       /\ true = New(1) /\ false = New(2) /\ merge = New(3)
  OBVIOUS
<1>2. /\ true \in Fresh /\ false \in Fresh /\ merge \in Fresh
      /\ true \in Block /\ false \in Block /\ merge \in Block
      /\ true \in Nat /\ false \in Nat /\ merge \in Nat
      /\ true # false /\ true # merge /\ false # merge
  <2>1. 3 \in Nat /\ 3 >= 2 /\ 3 >= 3
    OBVIOUS
  <2> QED
    BY <1>1, <2>1, NewTwo, NewThree
<1>3. PICK K : K = {}
  OBVIOUS
<1>4. K \in SUBSET Fresh /\ K \subseteq Block
  BY <1>2, <1>3
<1>5. /\ Cond(true, false) \in Calm(K) /\ Release({true}) \in Calm(K)
  <2>1. /\ {true, false} \subseteq Fresh \ K /\ {true} \in SUBSET Nat
    BY <1>2, <1>3
  <2> QED
    BY <1>2, <1>4, <2>1, CalmMade
<1>6. /\ Hold(v, true) \in Calm(K) /\ ActivateBlock(true) \in Calm(K)
      /\ AssignTo(tmp) \in Calm(K) /\ Goto(merge) \in Calm(K)
      /\ ActivateBlock(false) \in Calm(K) /\ ActivateBlock(merge) \in Calm(K)
      /\ Use(tmp) \in Calm(K) /\ UseKept(true) \in Calm(K)
  BY <1>2, <1>4, CalmMade
<1>7. TernaryItems(v, tmp) \in Seq(Calm(K))
  BY <1>1, <1>5, <1>6 DEF TernaryItems, TrueValue
<1> QED
  BY <1>4, <1>7 DEF IsCalm

LEMMA WhileCalm ==
  ASSUME Creates(3),
         NEW label \in {NoLabel} \cup Labelled
  PROVE  IsCalm(WhileItems(label))
<1>1. PICK header, next, body :
       /\ header = New(1) /\ next = New(2) /\ body = New(3)
  OBVIOUS
<1>2. /\ header \in Fresh /\ next \in Fresh /\ body \in Fresh
      /\ header \in Block /\ next \in Block /\ body \in Block
      /\ header \in Nat /\ next \in Nat /\ body \in Nat
      /\ header # next /\ header # body /\ next # body
  <2>1. 3 \in Nat /\ 3 >= 2 /\ 3 >= 3
    OBVIOUS
  <2> QED
    BY <1>1, <2>1, NewTwo, NewThree
<1>3. PICK K : K = {header}
  OBVIOUS
<1>4. K \in SUBSET Fresh /\ K \subseteq Block /\ header \in K
  BY <1>2, <1>3
<1>5. label \in Label
  BY ConstantsAssumption DEF Label
<1>6. Cond(body, next) \in Calm(K)
  <2>1. {body, next} \subseteq Fresh \ K
    BY <1>2, <1>3
  <2> QED
    BY <1>2, <1>4, <2>1, CalmMade
<1>7. /\ Goto(header) \in Calm(K) /\ OpenBlock(header) \in Calm(K)
      /\ ActivateBlock(body) \in Calm(K)
      /\ Loop(header, next, label) \in Calm(K)
      /\ CloseBlock(header) \in Calm(K) /\ ActivateBlock(next) \in Calm(K)
  BY <1>2, <1>4, <1>5, CalmMade
<1>8. WhileItems(label) \in Seq(Calm(K))
  BY <1>1, <1>6, <1>7 DEF WhileItems
<1> QED
  BY <1>4, <1>8 DEF IsCalm

LEMMA RangeCalm ==
  ASSUME Creates(4), NEW i \in Var, NEW step \in Var, NEW stop \in Var,
         NEW start \in Var, NEW counter \in Var,
         NEW label \in {NoLabel} \cup Labelled
  PROVE  IsCalm(RangeItems(i, step, stop, start, counter, label))
<1>1. PICK body, header, footer, next :
       /\ body = New(1) /\ header = New(2) /\ footer = New(3)
       /\ next = New(4)
  OBVIOUS
<1>2. /\ body \in Fresh /\ header \in Fresh /\ footer \in Fresh
      /\ next \in Fresh
      /\ body \in Block /\ header \in Block /\ footer \in Block
      /\ next \in Block
      /\ body \in Nat /\ header \in Nat /\ footer \in Nat /\ next \in Nat
      /\ body # header /\ body # footer /\ body # next /\ header # footer
      /\ header # next /\ footer # next
  <2>1. 4 \in Nat /\ 4 >= 2 /\ 4 >= 3 /\ 4 >= 4
    OBVIOUS
  <2> QED
    BY <1>1, <2>1, NewTwo, NewThree, NewFour
<1>3. PICK K : K = {header}
  OBVIOUS
<1>4. K \in SUBSET Fresh /\ K \subseteq Block /\ header \in K
  BY <1>2, <1>3
<1>5. label \in Label
  BY ConstantsAssumption DEF Label
<1>6. PICK then :
       then = <<UseKept(header), UseKept(footer), AssignTo(counter),
                Goto(header)>>
  OBVIOUS
<1>7. TryActivate(footer, then) \in Calm(K)
  <2>1. /\ then \in Seq(SimpleItem)
        /\ \A j \in DOMAIN then : Choices(then[j]) \subseteq Fresh \ K
    <3>1. /\ UseKept(header) \in SimpleItem /\ UseKept(footer) \in SimpleItem
          /\ AssignTo(counter) \in SimpleItem /\ Goto(header) \in SimpleItem
      BY <1>2, SimpleMade
    <3>2. /\ Choices(UseKept(header)) \subseteq Fresh \ K
          /\ Choices(UseKept(footer)) \subseteq Fresh \ K
          /\ Choices(AssignTo(counter)) \subseteq Fresh \ K
          /\ Choices(Goto(header)) \subseteq Fresh \ K
      BY <1>2, <1>3, ChoicesMade
    <3> QED
      BY <1>6, <3>1, <3>2
  <2> QED
    BY <1>2, <1>4, <2>1, CalmTry
<1>8. /\ Branch({body, next}) \in Calm(K)
      /\ Release({body, header, footer, next}) \in Calm(K)
  <2>1. /\ {body, next} \in SUBSET Block /\ {body, next} \subseteq Fresh \ K
        /\ {body, header, footer, next} \in SUBSET Nat
    BY <1>2, <1>3
  <2> QED
    BY <1>2, <1>4, <2>1, CalmMade
<1>9. /\ Hold(step, footer) \in Calm(K) /\ Hold(stop, body) \in Calm(K)
      /\ Hold(start, next) \in Calm(K) /\ UseKept(footer) \in Calm(K)
      /\ UseKept(next) \in Calm(K) /\ AssignTo(counter) \in Calm(K)
      /\ Goto(header) \in Calm(K) /\ OpenBlock(header) \in Calm(K)
      /\ Hold(counter, header) \in Calm(K) /\ UseKept(header) \in Calm(K)
      /\ UseKept(body) \in Calm(K) /\ ActivateBlock(body) \in Calm(K)
      /\ AssignTo(i) \in Calm(K) /\ Loop(footer, next, label) \in Calm(K)
      /\ Goto(footer) \in Calm(K) /\ CloseBlock(header) \in Calm(K)
      /\ ActivateBlock(next) \in Calm(K)
  BY <1>2, <1>4, <1>5, CalmMade
<1>10. RangeItems(i, step, stop, start, counter, label) \in Seq(Calm(K))
  BY <1>1, <1>6, <1>7, <1>8, <1>9 DEF RangeItems, EnterCounted, LeaveCounted
<1> QED
  BY <1>4, <1>10 DEF IsCalm

LEMMA ReversedCalm ==
  ASSUME Creates(5), NEW i \in Var, NEW step \in Var, NEW stop \in Var,
         NEW start \in Var, NEW greatest \in Var, NEW down \in BOOLEAN,
         NEW label \in {NoLabel} \cup Labelled
  PROVE  IsCalm(ReversedItems(i, step, stop, start, greatest, down, label))
<1>1. PICK body, header, footer, increment, next, first, last :
       /\ body = New(1) /\ header = New(2) /\ footer = New(3)
       /\ increment = New(4) /\ next = New(5)
       /\ first = IF down THEN next ELSE footer
       /\ last = IF down THEN footer ELSE next
  OBVIOUS
<1>2. /\ body \in Fresh /\ header \in Fresh /\ footer \in Fresh
      /\ increment \in Fresh /\ next \in Fresh
      /\ body \in Block /\ header \in Block /\ footer \in Block
      /\ increment \in Block /\ next \in Block
      /\ body \in Nat /\ header \in Nat /\ footer \in Nat
      /\ increment \in Nat /\ next \in Nat
      /\ body # header /\ body # footer /\ body # increment /\ body # next
      /\ header # footer /\ header # increment /\ header # next
      /\ footer # increment /\ footer # next /\ increment # next
      /\ first \in {footer, next} /\ last \in {footer, next}
  <2>1. 5 \in Nat /\ 5 >= 2 /\ 5 >= 3 /\ 5 >= 4 /\ 5 >= 5
    OBVIOUS
  <2> QED
    BY <1>1, <2>1, NewTwo, NewThree, NewFour, NewFive
<1>3. PICK K : K = {body}
  OBVIOUS
<1>4. K \in SUBSET Fresh /\ K \subseteq Block /\ body \in K
  BY <1>2, <1>3
<1>5. label \in Label
  BY ConstantsAssumption DEF Label
<1>6. PICK then :
       then = <<UseKept(last), UseKept(body), Branch({increment, next}),
                ActivateBlock(increment), UseKept(body), UseKept(increment),
                AssignTo(i), Goto(body)>>
  OBVIOUS
<1>7. TryActivate(footer, then) \in Calm(K)
  <2>1. /\ then \in Seq(SimpleItem)
        /\ \A j \in DOMAIN then : Choices(then[j]) \subseteq Fresh \ K
    <3>1. /\ UseKept(last) \in SimpleItem /\ UseKept(body) \in SimpleItem
          /\ Branch({increment, next}) \in SimpleItem
          /\ ActivateBlock(increment) \in SimpleItem
          /\ UseKept(increment) \in SimpleItem /\ AssignTo(i) \in SimpleItem
          /\ Goto(body) \in SimpleItem
      BY <1>2, SimpleMade
    <3>2. /\ Choices(UseKept(last)) \subseteq Fresh \ K
          /\ Choices(UseKept(body)) \subseteq Fresh \ K
          /\ Choices(Branch({increment, next})) \subseteq Fresh \ K
          /\ Choices(ActivateBlock(increment)) \subseteq Fresh \ K
          /\ Choices(UseKept(increment)) \subseteq Fresh \ K
          /\ Choices(AssignTo(i)) \subseteq Fresh \ K
          /\ Choices(Goto(body)) \subseteq Fresh \ K
      BY <1>2, <1>3, ChoicesMade
    <3> QED
      BY <1>6, <3>1, <3>2
  <2> QED
    BY <1>2, <1>4, <2>1, CalmTry
<1>8. /\ Branch({header, next}) \in Calm(K)
      /\ Release({body, header, footer, increment, next}) \in Calm(K)
  <2>1. /\ {header, next} \in SUBSET Block
        /\ {header, next} \subseteq Fresh \ K
        /\ {body, header, footer, increment, next} \in SUBSET Nat
    BY <1>2, <1>3
  <2> QED
    BY <1>2, <1>4, <2>1, CalmMade
<1>9. /\ Hold(step, increment) \in Calm(K) /\ Hold(stop, header) \in Calm(K)
      /\ Hold(start, footer) \in Calm(K) /\ UseKept(increment) \in Calm(K)
      /\ UseKept(footer) \in Calm(K) /\ UseKept(header) \in Calm(K)
      /\ ActivateBlock(header) \in Calm(K) /\ AssignTo(greatest) \in Calm(K)
      /\ Hold(greatest, next) \in Calm(K) /\ UseKept(first) \in Calm(K)
      /\ AssignTo(i) \in Calm(K) /\ Goto(body) \in Calm(K)
      /\ OpenBlock(body) \in Calm(K) /\ Hold(i, body) \in Calm(K)
      /\ Loop(footer, next, label) \in Calm(K) /\ Goto(footer) \in Calm(K)
      /\ CloseBlock(body) \in Calm(K) /\ ActivateBlock(next) \in Calm(K)
  BY <1>2, <1>4, <1>5, CalmMade
<1>10. ReversedItems(i, step, stop, start, greatest, down, label) \in Seq(Calm(K))
  BY <1>1, <1>6, <1>7, <1>8, <1>9 DEF ReversedItems, EnterCounted,
     LeaveCounted
<1> QED
  BY <1>4, <1>10 DEF IsCalm

LEMMA IndexedCalm ==
  ASSUME Creates(4), NEW i \in Var, NEW array \in Var, NEW index \in Var,
         NEW down \in Var,
         NEW label \in {NoLabel} \cup Labelled
  PROVE  IsCalm(IndexedItems(i, array, index, down, label))
<1>1. PICK body, header, footer, next :
       /\ body = New(1) /\ header = New(2) /\ footer = New(3)
       /\ next = New(4)
  OBVIOUS
<1>2. /\ body \in Fresh /\ header \in Fresh /\ footer \in Fresh
      /\ next \in Fresh
      /\ body \in Block /\ header \in Block /\ footer \in Block
      /\ next \in Block
      /\ body \in Nat /\ header \in Nat /\ footer \in Nat /\ next \in Nat
      /\ body # header /\ body # footer /\ body # next /\ header # footer
      /\ header # next /\ footer # next
  <2>1. 4 \in Nat /\ 4 >= 2 /\ 4 >= 3 /\ 4 >= 4
    OBVIOUS
  <2> QED
    BY <1>1, <2>1, NewTwo, NewThree, NewFour
<1>3. PICK K : K = {header}
  OBVIOUS
<1>4. K \in SUBSET Fresh /\ K \subseteq Block /\ header \in K
  BY <1>2, <1>3
<1>5. label \in Label
  BY ConstantsAssumption DEF Label
<1>6. PICK then : then = <<UseKept(header), AssignTo(index), Goto(header)>>
  OBVIOUS
<1>7. TryActivate(footer, then) \in Calm(K)
  <2>1. /\ then \in Seq(SimpleItem)
        /\ \A j \in DOMAIN then : Choices(then[j]) \subseteq Fresh \ K
    <3>1. /\ UseKept(header) \in SimpleItem /\ AssignTo(index) \in SimpleItem
          /\ Goto(header) \in SimpleItem
      BY <1>2, SimpleMade
    <3>2. /\ Choices(UseKept(header)) \subseteq Fresh \ K
          /\ Choices(AssignTo(index)) \subseteq Fresh \ K
          /\ Choices(Goto(header)) \subseteq Fresh \ K
      BY <1>2, <1>3, ChoicesMade
    <3> QED
      BY <1>6, <3>1, <3>2
  <2> QED
    BY <1>2, <1>4, <2>1, CalmTry
<1>8. /\ Branch({body, next}) \in Calm(K)
      /\ Release({body, header}) \in Calm(K)
  <2>1. /\ {body, next} \in SUBSET Block /\ {body, next} \subseteq Fresh \ K
        /\ {body, header} \in SUBSET Nat
    BY <1>2, <1>3
  <2> QED
    BY <1>2, <1>4, <2>1, CalmMade
<1>9. /\ Hold(array, body) \in Calm(K) /\ AssignTo(index) \in Calm(K)
      /\ AssignTo(down) \in Calm(K) /\ Goto(header) \in Calm(K)
      /\ OpenBlock(header) \in Calm(K) /\ Hold(index, header) \in Calm(K)
      /\ UseKept(header) \in Calm(K) /\ ActivateBlock(body) \in Calm(K)
      /\ UseKept(body) \in Calm(K) /\ AssignTo(i) \in Calm(K)
      /\ Loop(footer, next, label) \in Calm(K) /\ Goto(footer) \in Calm(K)
      /\ CloseBlock(header) \in Calm(K) /\ ActivateBlock(next) \in Calm(K)
  BY <1>2, <1>4, <1>5, CalmMade
<1>10. IndexedItems(i, array, index, down, label) \in Seq(Calm(K))
  BY <1>1, <1>6, <1>7, <1>8, <1>9 DEF IndexedItems, EnterCounted,
     LeaveCounted
<1> QED
  BY <1>4, <1>10 DEF IsCalm

LEMMA IndexedDownCalm ==
  ASSUME Creates(4), NEW i \in Var, NEW array \in Var, NEW index \in Var,
         NEW down \in Var,
         NEW label \in {NoLabel} \cup Labelled
  PROVE  IsCalm(IndexedDownItems(i, array, index, down, label))
<1>1. PICK body, header, footer, next :
       /\ body = New(1) /\ header = New(2) /\ footer = New(3)
       /\ next = New(4)
  OBVIOUS
<1>2. /\ body \in Fresh /\ header \in Fresh /\ footer \in Fresh
      /\ next \in Fresh
      /\ body \in Block /\ header \in Block /\ footer \in Block
      /\ next \in Block
      /\ body \in Nat /\ header \in Nat /\ footer \in Nat /\ next \in Nat
      /\ body # header /\ body # footer /\ body # next /\ header # footer
      /\ header # next /\ footer # next
  <2>1. 4 \in Nat /\ 4 >= 2 /\ 4 >= 3 /\ 4 >= 4
    OBVIOUS
  <2> QED
    BY <1>1, <2>1, NewTwo, NewThree, NewFour
<1>3. PICK K : K = {header}
  OBVIOUS
<1>4. K \in SUBSET Fresh /\ K \subseteq Block /\ header \in K
  BY <1>2, <1>3
<1>5. label \in Label
  BY ConstantsAssumption DEF Label
<1>6. PICK then : then = <<Goto(header)>>
  OBVIOUS
<1>7. TryActivate(footer, then) \in Calm(K)
  <2>1. /\ then \in Seq(SimpleItem)
        /\ \A j \in DOMAIN then : Choices(then[j]) \subseteq Fresh \ K
    <3>1. Goto(header) \in SimpleItem
      BY <1>2, SimpleMade
    <3>2. Choices(Goto(header)) \subseteq Fresh \ K
      BY <1>2, <1>3, ChoicesMade
    <3> QED
      BY <1>6, <3>1, <3>2
  <2> QED
    BY <1>2, <1>4, <2>1, CalmTry
<1>8. /\ Branch({body, next}) \in Calm(K)
      /\ Release({body, header}) \in Calm(K)
  <2>1. /\ {body, next} \in SUBSET Block /\ {body, next} \subseteq Fresh \ K
        /\ {body, header} \in SUBSET Nat
    BY <1>2, <1>3
  <2> QED
    BY <1>2, <1>4, <2>1, CalmMade
<1>9. /\ Hold(array, body) \in Calm(K) /\ AssignTo(index) \in Calm(K)
      /\ AssignTo(down) \in Calm(K) /\ Goto(header) \in Calm(K)
      /\ OpenBlock(header) \in Calm(K) /\ Hold(index, header) \in Calm(K)
      /\ Use(down) \in Calm(K) /\ ActivateBlock(body) \in Calm(K)
      /\ UseKept(body) \in Calm(K) /\ AssignTo(i) \in Calm(K)
      /\ Loop(footer, next, label) \in Calm(K) /\ Goto(footer) \in Calm(K)
      /\ CloseBlock(header) \in Calm(K) /\ ActivateBlock(next) \in Calm(K)
  BY <1>2, <1>4, <1>5, CalmMade
<1>10. IndexedDownItems(i, array, index, down, label) \in Seq(Calm(K))
  BY <1>1, <1>6, <1>7, <1>8, <1>9 DEF IndexedDownItems, EnterCounted,
     LeaveCounted
<1> QED
  BY <1>4, <1>10 DEF IsCalm

LEMMA TupleCalm ==
  ASSUME Creates(4), NEW i \in Var, NEW first \in Var, NEW second \in Var,
         NEW counter \in Var,
         NEW label \in {NoLabel} \cup Labelled
  PROVE  IsCalm(TupleItems(i, first, second, counter, label))
<1>1. PICK body, footer, next, header :
       /\ body = New(1) /\ footer = New(2) /\ next = New(3)
       /\ header = New(4)
  OBVIOUS
<1>2. /\ body \in Fresh /\ footer \in Fresh /\ next \in Fresh
      /\ header \in Fresh
      /\ body \in Block /\ footer \in Block /\ next \in Block
      /\ header \in Block
      /\ body \in Nat /\ footer \in Nat /\ next \in Nat /\ header \in Nat
      /\ body # footer /\ body # next /\ body # header /\ footer # next
      /\ footer # header /\ next # header
  <2>1. 4 \in Nat /\ 4 >= 2 /\ 4 >= 3 /\ 4 >= 4
    OBVIOUS
  <2> QED
    BY <1>1, <2>1, NewTwo, NewThree, NewFour
<1>3. PICK K : K = {body}
  OBVIOUS
<1>4. K \in SUBSET Fresh /\ K \subseteq Block /\ body \in K
  BY <1>2, <1>3
<1>5. label \in Label
  BY ConstantsAssumption DEF Label
<1>6. PICK then :
       then = <<UseKept(body), Branch({header, next}),
                ActivateBlock(header), AssignTo(counter), UseKept(header),
                AssignTo(i), Goto(body)>>
  OBVIOUS
<1>7. TryActivate(footer, then) \in Calm(K)
  <2>1. /\ then \in Seq(SimpleItem)
        /\ \A j \in DOMAIN then : Choices(then[j]) \subseteq Fresh \ K
    <3>1. /\ UseKept(body) \in SimpleItem
          /\ Branch({header, next}) \in SimpleItem
          /\ ActivateBlock(header) \in SimpleItem
          /\ AssignTo(counter) \in SimpleItem
          /\ UseKept(header) \in SimpleItem /\ AssignTo(i) \in SimpleItem
          /\ Goto(body) \in SimpleItem
      BY <1>2, SimpleMade
    <3>2. /\ Choices(UseKept(body)) \subseteq Fresh \ K
          /\ Choices(Branch({header, next})) \subseteq Fresh \ K
          /\ Choices(ActivateBlock(header)) \subseteq Fresh \ K
          /\ Choices(AssignTo(counter)) \subseteq Fresh \ K
          /\ Choices(UseKept(header)) \subseteq Fresh \ K
          /\ Choices(AssignTo(i)) \subseteq Fresh \ K
          /\ Choices(Goto(body)) \subseteq Fresh \ K
      BY <1>2, <1>3, ChoicesMade
    <3> QED
      BY <1>6, <3>1, <3>2
  <2> QED
    BY <1>2, <1>4, <2>1, CalmTry
<1>8. Release({body, footer, header}) \in Calm(K)
  <2>1. {body, footer, header} \in SUBSET Nat
    BY <1>2, <1>3
  <2> QED
    BY <1>2, <1>4, <2>1, CalmMade
<1>9. /\ Hold(first, footer) \in Calm(K) /\ Hold(second, header) \in Calm(K)
      /\ AssignTo(counter) \in Calm(K) /\ UseKept(footer) \in Calm(K)
      /\ AssignTo(i) \in Calm(K) /\ Goto(body) \in Calm(K)
      /\ OpenBlock(body) \in Calm(K) /\ Hold(counter, body) \in Calm(K)
      /\ Loop(footer, next, label) \in Calm(K) /\ Goto(footer) \in Calm(K)
      /\ CloseBlock(body) \in Calm(K) /\ ActivateBlock(next) \in Calm(K)
  BY <1>2, <1>4, <1>5, CalmMade
<1>10. TupleItems(i, first, second, counter, label) \in Seq(Calm(K))
  BY <1>1, <1>6, <1>7, <1>8, <1>9 DEF TupleItems, EnterCounted, LeaveCounted
<1> QED
  BY <1>4, <1>10 DEF IsCalm

-----------------------------------------------------------------------------
(* What the visitor decides between                                        *)

(* What takes the place of the first item when that is no switch.          *)
Quietly(t) ==
  /\ todo' = t \o Tail(todo)
  /\ IsCalm(t)
  /\ item.do \in {"branch", "use"} => t = <<>>
Quiet == \E t : Quietly(t)
SwitchBegins(v) ==
  \/ Statement("switch", SwitchItems(v, NextLabel), 2, 1, 0)
  \/ Statement("switch", SwitchDefaultItems(v, NextLabel), 3, 1, 0)

LEMMA DoneQuiet ==
  ASSUME VisitorReady, Done
  PROVE  Quiet
<1>1. todo \in Seq(Item) /\ todo # <<>>
  BY ReadyFacts DEF VisitorTypes
<1>2. PICK t : t = <<>>
  OBVIOUS
<1>3. {} \in SUBSET Fresh /\ t \in Seq(Calm({}))
  BY <1>2
<1>4. todo' = t \o Tail(todo)
  <2>1. Tail(todo) \in Seq(Item)
    BY <1>1
  <2> QED
    BY <1>2, <2>1 DEF Done
<1> QED
  BY <1>2, <1>3, <1>4 DEF Quiet, Quietly, IsCalm

LEMMA ExpandQuiet ==
  ASSUME NEW t, Expand(t), IsCalm(t), item.do \notin {"branch", "use"}
  PROVE  Quiet
  BY DEF Quiet, Quietly, Expand

LEMMA StatementQuiet ==
  ASSUME VisitorReady, NEW kind, NEW items, NEW n \in Nat,
         NEW l \in Nat, NEW k \in Nat, Statement(kind, items, n, l, k),
         IsCalm(items)
  PROVE  Quiet
<1>1. PICK K \in SUBSET Fresh : items \in Seq(Calm(K))
  BY DEF IsCalm
<1>2. Body \in Calm(K) /\ Calm(K) \subseteq Item
  BY CalmMade DEF Calm
<1>3. items \in Seq(Item)
  BY <1>1, <1>2
<1>4. item.do = "statements" /\ Expand(Append(items, Body))
  BY <1>3, StatementFacts
<1>5. Append(items, Body) \in Seq(Calm(K))
  BY <1>1, <1>2
<1>6. IsCalm(Append(items, Body))
  BY <1>1, <1>5 DEF IsCalm
<1> QED
  BY <1>4, <1>6, ExpandQuiet

LEMMA ElseCalm ==
  ASSUME NEW loop, IsCalm(loop), NEW label \in {NoLabel} \cup Labelled
  PROVE  IsCalm(WithElse(loop, label))
<1>1. CASE label = NoLabel
  BY <1>1 DEF WithElse
<1>2. CASE label # NoLabel
  <2>1. PICK K \in SUBSET Fresh : loop \in Seq(Calm(K))
    BY DEF IsCalm
  <2>2. NoLabel \in Label /\ label \in Label
    BY DEF Label
  <2>3. PICK x : x = Visit(NoLabel)
    OBVIOUS
  <2>4. PICK y : y = Visit(label)
    OBVIOUS
  <2>5. PICK z : z = Body
    OBVIOUS
  <2>6. x \in Calm(K) /\ y \in Calm(K) /\ z \in Calm(K)
    BY <2>2, <2>3, <2>4, <2>5, CalmMade
  <2>7. WithElse(loop, label) = <<x>> \o loop \o <<x, z, y>>
    BY <1>2, <2>3, <2>4, <2>5 DEF WithElse
  <2>8. <<x>> \o loop \o <<x, z, y>> \in Seq(Calm(K))
    BY <2>1, <2>6
  <2> QED
    BY <2>7, <2>8 DEF IsCalm
<1> QED
  BY <1>1, <1>2

LEMMA TryQuiet ==
  ASSUME VisitorReady, DoTryActivate
  PROVE  Quiet
<1>1. item.do = "try" /\ item \in Item
  BY ReadyFacts DEF DoTryActivate, Doing
<1>2. item.then \in Seq(SimpleItem)
  BY <1>1, ItemFields
<1>3. Chooses(item) = UNION {Choices(y) : y \in Range(item.then)}
  BY <1>1, ChoicesOfItem
<1>4. \A j \in DOMAIN item.then : item.then[j] \in Calm({})
  <2>1. SUFFICES ASSUME NEW j \in DOMAIN item.then
                 PROVE  item.then[j] \in Calm({})
    OBVIOUS
  <2>2. PICK y : y = item.then[j]
    OBVIOUS
  <2>3. y \in SimpleItem /\ y \in Range(item.then)
    BY <1>2, <2>1, <2>2 DEF Range
  <2>4. y \in Item /\ y.do \notin {"close", "try"}
    BY <2>3, SimpleBlocks
  <2>5. Chooses(y) = Choices(y)
    BY <2>4 DEF Chooses
  <2>6. Choices(y) \subseteq Chooses(item)
    BY <1>3, <2>3
  <2> QED
    BY <2>2, <2>4, <2>5, <2>6 DEF Calm
<1>5. item.then \in Seq(Calm({}))
  BY <1>2, <1>4
<1>6. IsCalm(item.then)
  BY <1>5 DEF IsCalm
<1>7. Done \/ Expand(item.then)
  BY DEF DoTryActivate, Only
<1> QED
  BY <1>1, <1>6, <1>7, DoneQuiet, ExpandQuiet

LEMMA ConditionQuiet ==
  ASSUME VisitorReady, ConditionOperand \/ ConditionOperator
  PROVE  Quiet
<1>1. item.do = "cond" /\ item \in Item /\ VisitorTypes
  BY ReadyFacts DEF ConditionOperand, ConditionOperator, Doing
<1>2. PICK t, f, contd : t = item.true /\ f = item.false /\ contd = New(1)
  OBVIOUS
<1>3. t \in Block /\ f \in Block /\ Chooses(item) = {t, f}
  BY <1>1, <1>2, ItemFields, ChoicesOfItem
<1>4. {} \in SUBSET Fresh
  OBVIOUS
<1>5. CASE ConditionOperand
  <2>1. PICK v \in User : Expand(<<Use(v), Branch({t, f})>>)
    BY <1>2, <1>5 DEF ConditionOperand, Only
  <2>2. v \in Var
    BY FlowAssumption
  <2>3. PICK x, y : x = Use(v) /\ y = Branch({t, f})
    OBVIOUS
  <2>4. x \in Calm({}) /\ y \in Calm({})
    <3>1. {t, f} \in SUBSET Block /\ {t, f} \subseteq Chooses(item)
      BY <1>3
    <3> QED
      BY <1>4, <2>2, <2>3, <3>1, CalmMade
  <2>5. <<x, y>> \in Seq(Calm({}))
    BY <2>4
  <2>6. IsCalm(<<x, y>>)
    BY <1>4, <2>5 DEF IsCalm
  <2> QED
    BY <1>1, <2>1, <2>3, <2>6, ExpandQuiet
<1>6. CASE ConditionOperator
  <2>1. PICK first \in {Cond(contd, f), Cond(t, contd)} :
          Expand(<<first, ActivateBlock(contd), Cond(t, f)>>)
    BY <1>2, <1>6 DEF ConditionOperator
  <2>2. Creates(1)
    <3>1. blockCount \in Nat /\ MaxBlocks \in Nat
      BY <1>1, FlowAssumption DEF VisitorTypes
    <3>2. labelCount' \in labelCount..Cardinality(Labelled)
      BY <1>1, <1>6, FS_CardinalityType, FlowAssumption
      DEF ConditionOperator, VisitorTypes
    <3> QED
      BY <1>1, <1>6, <3>1, <3>2 DEF ConditionOperator, Creates
  <2>3. contd \in Fresh /\ contd \in Block
    <3>1. 1 \in 1..1 /\ 1 \in Nat
      OBVIOUS
    <3> QED
      BY <1>2, <2>2, <3>1, NewBlocks
  <2>4. PICK y, z : y = ActivateBlock(contd) /\ z = Cond(t, f)
    OBVIOUS
  <2>5. first \in Calm({}) /\ y \in Calm({}) /\ z \in Calm({})
    <3>1. /\ {t, f} \subseteq Chooses(item) \cup (Fresh \ {})
          /\ {contd, f} \subseteq Chooses(item) \cup (Fresh \ {})
          /\ {t, contd} \subseteq Chooses(item) \cup (Fresh \ {})
      BY <1>3, <2>3
    <3>2. /\ Cond(t, f) \in Calm({}) /\ Cond(contd, f) \in Calm({})
          /\ Cond(t, contd) \in Calm({}) /\ ActivateBlock(contd) \in Calm({})
      BY <1>3, <1>4, <2>3, <3>1, CalmMade
    <3> QED
      BY <2>1, <2>4, <3>2
  <2>6. <<first, y, z>> \in Seq(Calm({}))
    BY <2>5
  <2>7. IsCalm(<<first, y, z>>)
    BY <1>4, <2>6 DEF IsCalm
  <2> QED
    BY <1>1, <2>1, <2>4, <2>7, ExpandQuiet
<1> QED
  BY <1>5, <1>6

LEMMA VisitQuiet ==
  ASSUME VisitorReady, DoVisit
  PROVE  Quiet
<1>1. item.do = "visit" /\ item \in Item /\ VisitorTypes
  BY ReadyFacts DEF DoVisit, Doing
<1>2. item.block \in Label
  BY <1>1, ItemFields
<1>3. Done \/ \E b \in Block : Expand(<<Goto(b), ActivateBlock(b)>>)
  <2>1. CASE item.block # NoLabel
             /\ Only(Expand(<<Goto(item.block), ActivateBlock(item.block)>>))
    <3>1. item.block \in Block
      BY <1>2, <2>1, ConstantsAssumption DEF Label
    <3> QED
      BY <2>1, <3>1 DEF Only
  <2>2. CASE /\ blockCount < MaxBlocks
             /\ Expand(<<Goto(New(1)), ActivateBlock(New(1))>>)
    <3>1. blockCount \in Nat /\ MaxBlocks \in Nat
      BY <1>1, FlowAssumption DEF VisitorTypes
    <3>2. New(1) \in 0..MaxBlocks
      BY <2>2, <3>1 DEF New
    <3>3. New(1) \in Block
      BY <3>2, FlowAssumption
    <3> QED
      BY <2>2, <3>3
  <2> QED
    BY <2>1, <2>2 DEF DoVisit, Only
<1>4. ASSUME NEW b \in Block, Expand(<<Goto(b), ActivateBlock(b)>>)
      PROVE  Quiet
  <2>1. PICK x, y : x = Goto(b) /\ y = ActivateBlock(b)
    OBVIOUS
  <2>2. {} \in SUBSET Fresh
    OBVIOUS
  <2>3. x \in Calm({}) /\ y \in Calm({})
    BY <2>1, <2>2, CalmMade
  <2>4. <<x, y>> \in Seq(Calm({}))
    BY <2>3
  <2>5. IsCalm(<<x, y>>)
    BY <2>2, <2>4 DEF IsCalm
  <2> QED
    BY <1>1, <1>4, <2>1, <2>5, ExpandQuiet
<1> QED
  BY <1>3, <1>4, DoneQuiet

LEMMA RegisterQuiet ==
  ASSUME VisitorReady, DoHold \/ DoLoop
  PROVE  Quiet
<1>1. item \in Item /\ item.do \in {"hold", "loop"}
  BY ReadyFacts DEF DoHold, DoLoop, Doing
<1>2. \A x \in Item : x.do \in {"keep", "statements", "exit"} => x \in Calm({})
  BY ChoicesOfItem DEF Calm
<1>3. CASE DoHold
  <2>1. Expand(<<Keep(item.key)>>) /\ item.do = "hold"
    BY <1>3 DEF DoHold, Only, Doing
  <2>2. PICK x : x = Keep(item.key)
    OBVIOUS
  <2>3. item.key \in Nat
    BY <1>1, <2>1, ItemFields
  <2>4. x \in Item /\ x.do = "keep"
    BY <2>2, <2>3 DEF Keep, Item
  <2>5. <<x>> \in Seq(Calm({}))
    BY <1>2, <2>4
  <2>6. IsCalm(<<x>>)
    BY <2>5 DEF IsCalm
  <2> QED
    BY <2>1, <2>2, <2>6, ExpandQuiet
<1>4. CASE DoLoop
  <2>1. Expand(<<Body, ExitLoop>>) /\ item.do = "loop"
    BY <1>4 DEF DoLoop, Doing
  <2>2. PICK x, y : x = Body /\ y = ExitLoop
    OBVIOUS
  <2>3. x \in Item /\ y \in Item /\ x.do = "statements" /\ y.do = "exit"
    BY <2>2 DEF Body, ExitLoop, Item
  <2>4. <<x, y>> \in Seq(Calm({}))
    BY <1>2, <2>3
  <2>5. IsCalm(<<x, y>>)
    BY <2>4 DEF IsCalm
  <2> QED
    BY <2>1, <2>2, <2>5, ExpandQuiet
<1> QED
  BY <1>3, <1>4

LEMMA SimpleStatementQuiet ==
  ASSUME VisitorReady, SimpleStatement
  PROVE  Quiet
<1>1. User \subseteq Var /\ 0 \in Nat /\ {} \in SUBSET Fresh
  BY FlowAssumption
<1>2. ASSUME NEW kind, NEW x \in Calm({}), Statement(kind, <<x>>, 0, 0, 0)
      PROVE  Quiet
  <2>1. <<x>> \in Seq(Calm({}))
    BY <1>2
  <2>2. IsCalm(<<x>>)
    BY <1>1, <2>1 DEF IsCalm
  <2> QED
    BY <1>1, <1>2, <2>2, StatementQuiet
<1>3. ASSUME NEW v \in User
      PROVE  AssignTo(v) \in Calm({}) /\ Use(v) \in Calm({})
  BY <1>1, CalmMade
<1>4. Branch({}) \in Calm({})
  <2>1. {} \in SUBSET Block /\ {} \subseteq Chooses(item) \cup (Fresh \ {})
    OBVIOUS
  <2> QED
    BY <1>1, <2>1, CalmMade
<1>5. ASSUME loops # <<>>, NEW b \in {Head(loops).cont, BreakTarget}
      PROVE  Goto(b) \in Calm({})
  <2>1. b \in Block
    BY <1>5, InnermostLoop
  <2> QED
    BY <1>1, <2>1, CalmMade
<1> QED
  BY <1>2, <1>3, <1>4, <1>5 DEF SimpleStatement, InLoop

LEMMA ConditionalQuiet ==
  ASSUME VisitorReady, Conditional
  PROVE  Quiet \/ \E v \in Var : SwitchBegins(v)
<1>0. /\ VisitorTypes /\ User \subseteq Var
      /\ 0 \in Nat /\ 1 \in Nat /\ 2 \in Nat /\ 3 \in Nat
  BY ReadyFacts, FlowAssumption
<1>1. CASE Statement("if", IfItems, 2, 0, 0)
  <2>1. Creates(2)
    BY <1>0, <1>1, HandlerCreates
  <2> QED
    BY <1>0, <1>1, <2>1, IfCalm, StatementQuiet
<1>2. CASE Statement("ifelse", IfElseItems, 3, 0, 0)
  <2>1. Creates(3)
    BY <1>0, <1>2, HandlerCreates
  <2> QED
    BY <1>0, <1>2, <2>1, IfElseCalm, StatementQuiet
<1>3. ASSUME NEW v \in User, tempCount < Len(Temps),
             Statement("ternary", TernaryItems(v, NextTemp), 3, 0, 1)
      PROVE  Quiet
  <2>1. Creates(3) /\ v \in Var /\ NextTemp \in Var
    BY <1>0, <1>3, HandlerCreates, NextTemps
  <2>2. IsCalm(TernaryItems(v, NextTemp))
    BY <2>1, TernaryCalm
  <2> QED
    BY <1>0, <1>3, <2>2, StatementQuiet
<1> QED
  BY <1>0, <1>1, <1>2, <1>3 DEF Conditional, SwitchBegins

LEMMA LoopQuiet ==
  ASSUME VisitorReady, LoopStatement
  PROVE  Quiet
<1>1. PICK label \in {NoLabel, NextLabel} :
        \/ Statement("while", WithElse(WhileItems(label), label), 3,
                     IF label = NoLabel THEN 0 ELSE 1, 0)
        \/ ForInLoop(label)
  BY DEF LoopStatement
<1>2. /\ VisitorTypes /\ User \subseteq Var
      /\ {0, 1, 2, 3, 4, 5} \subseteq Nat
  BY ReadyFacts, FlowAssumption
<1> DEFINE HasCalm(n, loop) ==
             Creates(n) /\ label \in {NoLabel} \cup Labelled => IsCalm(loop)
<1>3. ASSUME NEW kind, NEW loop, NEW n \in {3, 4, 5}, NEW k \in {0, 1, 2},
             Statement(kind, WithElse(loop, label), n,
                       IF label = NoLabel THEN 0 ELSE 1, k),
             HasCalm(n, loop)
      PROVE  Quiet
  <2>1. PICK l : l = IF label = NoLabel THEN 0 ELSE 1
    OBVIOUS
  <2>2. n \in Nat /\ k \in Nat /\ l \in Nat
    BY <2>1
  <2>3. /\ Creates(n) /\ blockCount' \in blockCount..MaxBlocks
        /\ labelCount' = labelCount + l
        /\ labelCount' \in labelCount..Cardinality(Labelled)
    BY <1>3, <2>1, <2>2, HandlerCreates
  <2>4. label \in {NoLabel} \cup Labelled
    BY <1>1, <2>1, <2>3, LabelFacts
  <2>5. IsCalm(loop)
    BY <1>3, <2>3, <2>4
  <2>6. IsCalm(WithElse(loop, label))
    BY <2>4, <2>5, ElseCalm
  <2> QED
    BY <1>3, <2>1, <2>2, <2>6, StatementQuiet
<1>4. CASE Statement("while", WithElse(WhileItems(label), label), 3,
                     IF label = NoLabel THEN 0 ELSE 1, 0)
  <2>1. HasCalm(3, WhileItems(label))
    BY WhileCalm
  <2> QED
    BY <1>3, <1>4, <2>1
<1>5. ASSUME tempCount < Len(Temps), NEW i \in User, NEW step \in User,
             NEW stop \in User, NEW start \in User, NEW down \in BOOLEAN,
             For("reversed",
                 ReversedItems(i, step, stop, start, NextTemp, down, label),
                 5, label, 1)
      PROVE  Quiet
  <2>1. NextTemp \in Var
    BY <1>2, <1>5, NextTemps
  <2>2. HasCalm(5, ReversedItems(i, step, stop, start, NextTemp, down, label))
    <3>1. i \in Var /\ step \in Var /\ stop \in Var /\ start \in Var
      BY <1>2
    <3> QED
      BY <2>1, <3>1, ReversedCalm
  <2> QED
    BY <1>3, <1>5, <2>2 DEF For
<1>6. ASSUME tempCount < Len(Temps), NEW i \in User, NEW step \in User,
             NEW stop \in User, NEW start \in User,
             For("range", RangeItems(i, step, stop, start, NextTemp, label),
                 4, label, 1)
      PROVE  Quiet
  <2>1. NextTemp \in Var
    BY <1>2, <1>6, NextTemps
  <2>2. HasCalm(4, RangeItems(i, step, stop, start, NextTemp, label))
    <3>1. i \in Var /\ step \in Var /\ stop \in Var /\ start \in Var
      BY <1>2
    <3> QED
      BY <2>1, <3>1, RangeCalm
  <2> QED
    BY <1>3, <1>6, <2>2 DEF For
<1>7. ASSUME tempCount < Len(Temps), NEW i \in User, NEW first \in User,
             NEW second \in User,
             For("tuple", TupleItems(i, first, second, NextTemp, label),
                 4, label, 1)
      PROVE  Quiet
  <2>1. NextTemp \in Var /\ i \in Var /\ first \in Var /\ second \in Var
    BY <1>2, <1>7, NextTemps
  <2>2. HasCalm(4, TupleItems(i, first, second, NextTemp, label))
    BY <2>1, TupleCalm
  <2> QED
    BY <1>3, <1>7, <2>2 DEF For
<1>8. ASSUME tempCount + 1 < Len(Temps), NEW i \in User, NEW a \in User,
             NEW items \in
               {IndexedItems(i, a, NextTemp, SecondTemp, label),
                IndexedDownItems(i, a, NextTemp, SecondTemp, label)},
             For("indexed", items, 4, label, 2)
      PROVE  Quiet
  <2>1. NextTemp \in Var /\ SecondTemp \in Var /\ i \in Var /\ a \in Var
    BY <1>2, <1>8, NextTemps
  <2>2. CASE items = IndexedItems(i, a, NextTemp, SecondTemp, label)
    <3>1. HasCalm(4, items)
      BY <2>1, <2>2, IndexedCalm
    <3> QED
      BY <1>3, <1>8, <3>1 DEF For
  <2>3. CASE items = IndexedDownItems(i, a, NextTemp, SecondTemp, label)
    <3>1. HasCalm(4, items)
      BY <2>1, <2>3, IndexedDownCalm
    <3> QED
      BY <1>3, <1>8, <3>1 DEF For
  <2> QED
    BY <1>8, <2>2, <2>3
<1> QED
  BY <1>1, <1>4, <1>5, <1>6, <1>7, <1>8 DEF ForInLoop

LEMMA VisitorQuiet ==
  ASSUME VisitorReady, Visitor
  PROVE  Quiet \/ \E v \in Var : SwitchBegins(v)
<1>1. CASE \/ DoGoto \/ DoActivate \/ DoOpen \/ DoClose \/ DoBranch
           \/ DoAssign \/ DoUse \/ DoKeep \/ DoUseHeld \/ DoRelease
           \/ DoExitLoop \/ EndBody \/ EndFunction \/ DoFinalise
  <2>1. Done
    BY <1>1 DEF DoGoto, DoActivate, DoOpen, DoClose, DoBranch, DoAssign, DoUse,
       DoKeep, DoUseHeld, DoRelease, DoExitLoop, EndBody, EndFunction,
       DoFinalise, Only
  <2> QED
    BY <2>1, DoneQuiet
<1>2. CASE DoTryActivate \/ DoHold \/ DoLoop \/ DoVisit
           \/ ConditionOperand \/ ConditionOperator
  BY <1>2, TryQuiet, RegisterQuiet, VisitQuiet, ConditionQuiet
<1>3. CASE SimpleStatement \/ Conditional \/ LoopStatement
  BY <1>3, SimpleStatementQuiet, ConditionalQuiet, LoopQuiet
<1> QED
  BY <1>1, <1>2, <1>3 DEF Visitor

LEMMA ChoicesStayNew ==
  ASSUME VisitorReady, ChoicesAreNew, VisitKeeps, Quiet
  PROVE  ChoicesAreNew'
<1>1. PICK t : Quietly(t)
  BY DEF Quiet
<1>2. PICK K \in SUBSET Fresh : t \in Seq(Calm(K))
  BY <1>1 DEF Quietly, IsCalm
<1>3. /\ VisitorTypes /\ todo \in Seq(Item) /\ todo # <<>> /\ item = todo[1]
      /\ item \in Range(todo) /\ Range(todo) \subseteq Item /\ item \in Item
      /\ Range(todo) = {item} \cup Range(Tail(todo))
  BY FirstItem DEF VisitorReady, HandlersKeep
<1>4. PICK s : Unfolds(s)
  BY DEF VisitKeeps, Fulfils
<1>5. Fresh \cap Created = {} /\ Fresh \cap Labelled = {}
  BY <1>3, <1>4, FreshBlocks DEF Unfolds
<1>6. blocks' = blocks \/ \E b \in Activates(item) : blocks' = Append(blocks, b)
  BY <1>4 DEF Unfolds, CallsNext
<1>7. t \in Seq(Item) /\ todo' = t \o Tail(todo)
  BY <1>1, <1>2 DEF Quietly, Calm
<1>8. Range(todo') = Range(t) \cup Range(Tail(todo))
  BY <1>3, <1>7, ReplacedRange
<1>9. \A x \in Range(t) :
        /\ x \in Item
        /\ x.do = "close" => x.block \in K
        /\ Chooses(x) \subseteq Chooses(item) \cup (Fresh \ K)
  <2>1. Range(t) \subseteq Calm(K)
    BY <1>2, RangeType
  <2> QED
    BY <2>1 DEF Calm
<1>10. \A x \in Range(todo) :
         /\ Chooses(x) \subseteq Created
         /\ x.do = "close" => x.block \in Created
  <2>1. \A x \in Range(todo) : NeedsOpen(x) \subseteq Created
    BY DEF VisitorReady, HandlersKeep, BlocksCreated
  <2>2. \A x \in Range(todo) : Chooses(x) \subseteq NeedsOpen(x)
    BY <1>3, ChoicesOfItem
  <2>3. \A x \in Range(todo) : x.do = "close" => x.block \in NeedsOpen(x)
    BY DEF NeedsOpen
  <2> QED
    BY <2>1, <2>2, <2>3
<1>11. ASSUME NEW x \in Range(todo'), NEW y \in Range(todo'), y.do = "close"
       PROVE  y.block \notin Chooses(x)
  <2>1. \A z, w \in Range(todo) : w.do = "close" => w.block \notin Chooses(z)
    BY DEF ChoicesAreNew
  <2>2. /\ x \in Range(t) \/ x \in Range(todo)
        /\ y \in Range(t) \/ y \in Range(todo)
    BY <1>3, <1>8
  <2>3. CASE y \in Range(todo)
    <3>1. /\ y.block \in Created /\ y.block \notin Chooses(item)
          /\ x \in Range(todo) => y.block \notin Chooses(x)
      BY <1>3, <1>10, <1>11, <2>1, <2>3
    <3> QED
      BY <1>5, <1>9, <2>2, <3>1
  <2>4. CASE y \in Range(t)
    <3>1. y.block \in K /\ y.block \in Fresh
      BY <1>9, <1>11, <2>4
    <3> QED
      BY <1>3, <1>5, <1>9, <1>10, <2>2, <3>1
  <2> QED
    BY <2>2, <2>3, <2>4
<1>12. ASSUME NEW j \in DOMAIN todo',
              Chooses(todo'[j]) \cap Labelled # {}
       PROVE  /\ todo'[j].do = "branch"
              /\ Chooses(todo'[j]) \cap Labelled \cap Range(blocks') = {}
              /\ j = 1 \/ (j = 2 /\ todo'[1].do = "use")
  <2>1. \A i \in DOMAIN todo : Chooses(todo[i]) \cap Labelled # {} =>
          /\ todo[i].do = "branch"
          /\ Chooses(todo[i]) \cap Labelled \cap Range(blocks) = {}
          /\ i = 1 \/ (i = 2 /\ todo[1].do = "use")
    BY DEF ChoicesAreNew
  <2>2. /\ Len(t) \in Nat /\ DOMAIN t = 1..Len(t)
        /\ Len(todo) \in Nat \ {0} /\ DOMAIN todo = 1..Len(todo)
        /\ Len(todo') = Len(t) + Len(todo) - 1 /\ DOMAIN todo' = 1..Len(todo')
        /\ \A i \in 1..Len(t) : todo'[i] = t[i]
        /\ \A i \in (Len(t) + 1)..Len(todo') : todo'[i] = todo[i - Len(t) + 1]
    BY <1>3, <1>7, Replaced
  <2>3. CASE j \in 1..Len(t)
    <3>1. todo'[j] \in Range(t)
      BY <2>2, <2>3 DEF Range
    <3>2. Chooses(item) \cap Labelled # {}
      BY <1>5, <1>9, <1>12, <3>1
    <3>3. item.do = "branch"
      BY <1>3, <2>1, <2>2, <3>2
    <3>4. t = <<>>
      BY <1>1, <3>3 DEF Quietly
    <3> QED
      BY <2>2, <2>3, <3>4
  <2>4. CASE j \in (Len(t) + 1)..Len(todo')
    <3>1. PICK i : i = j - Len(t) + 1
      OBVIOUS
    <3>2. i \in DOMAIN todo /\ i >= 2 /\ todo'[j] = todo[i]
      BY <2>2, <2>4, <3>1
    <3>3. /\ i = 2 /\ item.do = "use" /\ todo[i].do = "branch"
          /\ Chooses(todo[i]) \cap Labelled \cap Range(blocks) = {}
      BY <1>3, <1>12, <2>1, <3>2
    <3>4. t = <<>>
      BY <1>1, <3>3 DEF Quietly
    <3>5. j = 1
      BY <2>2, <2>4, <3>1, <3>3, <3>4
    <3>6. Activates(item) = {}
      BY <1>3, <3>3, ItemBlocks
    <3> QED
      BY <1>6, <3>2, <3>3, <3>5, <3>6
  <2> QED
    BY <2>2, <2>3, <2>4
<1> QED
  BY <1>11, <1>12 DEF ChoicesAreNew

(* What a switch puts before the rest: a read and a decision between new   *)
(* blocks, and items that decide nothing.                                  *)
IsSwitch(s) ==
  /\ s \in Seq(Item) /\ Len(s) >= 2 /\ s[1].do = "use" /\ s[2].do = "branch"
  /\ \A j \in DOMAIN s : /\ s[j].do # "close"
                         /\ j # 2 => Chooses(s[j]) = {}
  /\ Chooses(s[2]) \cap Created = {}

(* The blocks and items of a switch.                                       *)
LEMMA SwitchParts ==
  ASSUME VisitorReady, NEW n \in {2, 3}, NEW v \in Var, NEW s,
         Statement("switch", s, n, 1, 0)
  PROVE  /\ Creates(n) /\ Fresh \cap Created = {} /\ Fresh \subseteq Block
         /\ NextLabel \in Labelled /\ NextLabel \in Block
         /\ NextLabel \notin Created
         /\ Use(v) \in Item /\ Use(v).do = "use" /\ Chooses(Use(v)) = {}
         /\ Body \in Item /\ Body.do = "statements" /\ Chooses(Body) = {}
         /\ \A b \in Block :
              /\ Goto(b) \in Item /\ Goto(b).do = "goto"
              /\ Chooses(Goto(b)) = {}
              /\ ActivateBlock(b) \in Item
              /\ ActivateBlock(b).do = "activate"
              /\ Chooses(ActivateBlock(b)) = {}
              /\ TryActivate(b, <<>>) \in Item
              /\ TryActivate(b, <<>>).do = "try"
              /\ Chooses(TryActivate(b, <<>>)) = {}
         /\ \A ts \in SUBSET Block :
              /\ Branch(ts) \in Item /\ Branch(ts).do = "branch"
              /\ Chooses(Branch(ts)) = ts
<1>1. /\ VisitorTypes /\ n \in Nat /\ 1 \in Nat /\ 0 \in Nat
  BY DEF VisitorReady, HandlersKeep
<1>2. /\ Creates(n) /\ blockCount' \in blockCount..MaxBlocks
      /\ labelCount' = labelCount + 1
      /\ labelCount' \in labelCount..Cardinality(Labelled)
  BY <1>1, HandlerCreates
<1>3. /\ NextLabel \in Labelled /\ NextLabel \in Block
  BY <1>2, LabelFacts, ConstantsAssumption
<1>4. Fresh \cap Created = {} /\ Fresh \subseteq Block
  BY <1>1, <1>2, FreshBlocks
<1>5. NextLabel \notin Created
  <2>1. /\ MaxBlocks \in Nat /\ labelCount \in Nat /\ blockCount \in 0..MaxBlocks
    BY <1>1, FlowAssumption, FS_CardinalityType DEF VisitorTypes
  <2> QED
    BY <2>1 DEF Created, NewLabels, NextLabel
<1>6. \A x \in Item : x.do \notin {"branch", "cond", "try"} => Chooses(x) = {}
  BY ChoicesOfItem
<1>7. /\ Use(v) \in Item /\ Use(v).do = "use" /\ Chooses(Use(v)) = {}
      /\ Body \in Item /\ Body.do = "statements" /\ Chooses(Body) = {}
  <2>1. /\ Use(v) \in Item /\ Use(v).do = "use"
        /\ Body \in Item /\ Body.do = "statements"
    BY Made
  <2> QED
    BY <1>6, <2>1
<1>8. ASSUME NEW b \in Block
      PROVE  /\ Goto(b) \in Item /\ Goto(b).do = "goto"
             /\ Chooses(Goto(b)) = {}
             /\ ActivateBlock(b) \in Item /\ ActivateBlock(b).do = "activate"
             /\ Chooses(ActivateBlock(b)) = {}
  <2>1. /\ Goto(b) \in Item /\ Goto(b).do = "goto"
        /\ ActivateBlock(b) \in Item /\ ActivateBlock(b).do = "activate"
    BY Made
  <2> QED
    BY <1>6, <2>1
<1>9. ASSUME NEW b \in Block
      PROVE  /\ TryActivate(b, <<>>) \in Item
             /\ TryActivate(b, <<>>).do = "try"
             /\ Chooses(TryActivate(b, <<>>)) = {}
  <2>1. PICK e \in Seq(SimpleItem) : e = <<>>
    <3>1. <<>> \in Seq(SimpleItem)
      OBVIOUS
    <3> QED
      BY <3>1
  <2>2. PICK h : h = TryActivate(b, e)
    OBVIOUS
  <2>3. h \in Item /\ h.do = "try" /\ h.then = <<>>
    <3>1. h \in Item /\ h.do = "try" /\ h.then = e
      BY <2>2, MadeTry
    <3> QED
      BY <2>1, <3>1
  <2>4. Range(h.then) = {}
    BY <2>3 DEF Range
  <2>5. Chooses(h) = {}
    BY <2>3, <2>4, ChoicesOfItem
  <2> QED
    BY <2>1, <2>2, <2>3, <2>5
<1>10. ASSUME NEW ts \in SUBSET Block
       PROVE  /\ Branch(ts) \in Item /\ Branch(ts).do = "branch"
              /\ Chooses(Branch(ts)) = ts
  <2>1. /\ Branch(ts) \in Item /\ Branch(ts).do = "branch"
        /\ Branch(ts).targets = ts
    BY Made
  <2> QED
    BY <2>1, ChoicesOfItem
<1> QED
  BY <1>2, <1>3, <1>4, <1>5, <1>7, <1>8, <1>9, <1>10

LEMMA SwitchWithoutDefault ==
  ASSUME VisitorReady, NEW v \in Var,
         Statement("switch", SwitchItems(v, NextLabel), 2, 1, 0)
  PROVE  IsSwitch(SwitchItems(v, NextLabel))
<1>1. PICK label : label = NextLabel
  OBVIOUS
<1>2. PICK s : s = SwitchItems(v, label)
  OBVIOUS
<1>3. PICK other, next : other = New(1) /\ next = New(2)
  OBVIOUS
<1>4. 2 \in {2, 3} /\ Statement("switch", s, 2, 1, 0)
  BY <1>1, <1>2
<1>5. /\ Creates(2) /\ Fresh \cap Created = {} /\ Fresh \subseteq Block
      /\ label \in Labelled /\ label \in Block /\ label \notin Created
  BY <1>1, <1>4, SwitchParts
<1>6. other \in Fresh /\ next \in Fresh
  <2>1. 2 \in Nat /\ 2 >= 2
    OBVIOUS
  <2> QED
    BY <1>3, <1>5, <2>1, NewTwo
<1>7. PICK a, b, c, d, e, f, g, h :
        /\ a = Use(v) /\ b = Branch({other, label, next})
        /\ c = ActivateBlock(other) /\ d = Goto(label) /\ e = Goto(next)
        /\ f = ActivateBlock(label) /\ g = Body
        /\ h = TryActivate(next, <<>>)
  OBVIOUS
<1>8. /\ \A x \in {a, c, d, e, f, g, h} :
           x \in Item /\ x.do # "close" /\ Chooses(x) = {}
      /\ a.do = "use" /\ b.do = "branch" /\ b \in Item
      /\ Chooses(b) = {other, label, next}
  <2>1. {other, label, next} \in SUBSET Block /\ other \in Block /\ next \in Block
    BY <1>5, <1>6
  <2>2. b \in Item /\ b.do = "branch" /\ Chooses(b) = {other, label, next}
    BY <1>4, <1>7, <2>1, SwitchParts
  <2>3. /\ a \in Item /\ a.do = "use" /\ Chooses(a) = {}
        /\ g \in Item /\ g.do = "statements" /\ Chooses(g) = {}
    BY <1>4, <1>7, SwitchParts
  <2>4. /\ c \in Item /\ c.do = "activate" /\ Chooses(c) = {}
        /\ d \in Item /\ d.do = "goto" /\ Chooses(d) = {}
        /\ e \in Item /\ e.do = "goto" /\ Chooses(e) = {}
        /\ f \in Item /\ f.do = "activate" /\ Chooses(f) = {}
        /\ h \in Item /\ h.do = "try" /\ Chooses(h) = {}
    BY <1>4, <1>5, <1>7, <2>1, SwitchParts
  <2> QED
    BY <2>2, <2>3, <2>4
<1>9. s = <<a, b, c, d, e, f, g, e, h>>
  BY <1>2, <1>3, <1>7 DEF SwitchItems
<1>10. s \in Seq(Item) /\ Len(s) = 9 /\ DOMAIN s = 1..9
  BY <1>8, <1>9
<1>11. /\ s[1] = a /\ s[2] = b /\ s[3] = c /\ s[4] = d /\ s[5] = e
       /\ s[6] = f /\ s[7] = g /\ s[8] = e /\ s[9] = h
  BY <1>9
<1>12. \A j \in 1..9 : \/ j = 1 \/ j = 2 \/ j = 3 \/ j = 4 \/ j = 5
                       \/ j = 6 \/ j = 7 \/ j = 8 \/ j = 9
  OBVIOUS
<1>13. \A j \in DOMAIN s : s[j].do # "close" /\ (j # 2 => Chooses(s[j]) = {})
  <2>1. \A j \in DOMAIN s : j # 2 => s[j] \in {a, c, d, e, f, g, h}
    BY <1>10, <1>11, <1>12
  <2>2. s[2].do # "close"
    BY <1>8, <1>11
  <2> QED
    BY <1>8, <2>1, <2>2
<1>14. Chooses(s[2]) \cap Created = {}
  BY <1>5, <1>6, <1>8, <1>11
<1>15. IsSwitch(s)
  BY <1>8, <1>10, <1>11, <1>13, <1>14 DEF IsSwitch
<1> QED
  BY <1>1, <1>2, <1>15

LEMMA SwitchWithDefault ==
  ASSUME VisitorReady, NEW v \in Var,
         Statement("switch", SwitchDefaultItems(v, NextLabel), 3, 1, 0)
  PROVE  IsSwitch(SwitchDefaultItems(v, NextLabel))
<1>1. PICK label : label = NextLabel
  OBVIOUS
<1>2. PICK s : s = SwitchDefaultItems(v, label)
  OBVIOUS
<1>3. PICK other, next, default :
        other = New(1) /\ next = New(2) /\ default = New(3)
  OBVIOUS
<1>4. 3 \in {2, 3} /\ Statement("switch", s, 3, 1, 0)
  BY <1>1, <1>2
<1>5. /\ Creates(3) /\ Fresh \cap Created = {} /\ Fresh \subseteq Block
      /\ label \in Labelled /\ label \in Block /\ label \notin Created
  BY <1>1, <1>4, SwitchParts
<1>6. other \in Fresh /\ next \in Fresh /\ default \in Fresh
  <2>1. 3 \in Nat /\ 3 >= 2 /\ 3 >= 3
    OBVIOUS
  <2> QED
    BY <1>3, <1>5, <2>1, NewTwo, NewThree
<1>7. PICK a, b, c, d, e, f, g, h, i :
        /\ a = Use(v) /\ b = Branch({other, label, default})
        /\ c = ActivateBlock(other) /\ d = Goto(label) /\ e = Goto(next)
        /\ f = ActivateBlock(label) /\ g = Body
        /\ h = TryActivate(next, <<>>) /\ i = ActivateBlock(default)
  OBVIOUS
<1>8. /\ \A x \in {a, c, d, e, f, g, h, i} :
           x \in Item /\ x.do # "close" /\ Chooses(x) = {}
      /\ a.do = "use" /\ b.do = "branch" /\ b \in Item
      /\ Chooses(b) = {other, label, default}
  <2>1. /\ {other, label, default} \in SUBSET Block
        /\ other \in Block /\ next \in Block /\ default \in Block
    BY <1>5, <1>6
  <2>2. b \in Item /\ b.do = "branch" /\ Chooses(b) = {other, label, default}
    BY <1>4, <1>7, <2>1, SwitchParts
  <2>3. /\ a \in Item /\ a.do = "use" /\ Chooses(a) = {}
        /\ g \in Item /\ g.do = "statements" /\ Chooses(g) = {}
    BY <1>4, <1>7, SwitchParts
  <2>4. /\ c \in Item /\ c.do = "activate" /\ Chooses(c) = {}
        /\ d \in Item /\ d.do = "goto" /\ Chooses(d) = {}
        /\ e \in Item /\ e.do = "goto" /\ Chooses(e) = {}
        /\ f \in Item /\ f.do = "activate" /\ Chooses(f) = {}
        /\ h \in Item /\ h.do = "try" /\ Chooses(h) = {}
        /\ i \in Item /\ i.do = "activate" /\ Chooses(i) = {}
    BY <1>4, <1>5, <1>7, <2>1, SwitchParts
  <2> QED
    BY <2>2, <2>3, <2>4
<1>9. s = <<a, b, c, d, e, f, g, e, i, g, e, h>>
  BY <1>2, <1>3, <1>7 DEF SwitchDefaultItems
<1>10. s \in Seq(Item) /\ Len(s) = 12 /\ DOMAIN s = 1..12
  BY <1>8, <1>9
<1>11. /\ s[1] = a /\ s[2] = b /\ s[3] = c /\ s[4] = d /\ s[5] = e
       /\ s[6] = f /\ s[7] = g /\ s[8] = e /\ s[9] = i /\ s[10] = g
       /\ s[11] = e /\ s[12] = h
  BY <1>9
<1>12. \A j \in 1..12 : \/ j = 1 \/ j = 2 \/ j = 3 \/ j = 4 \/ j = 5
                        \/ j = 6 \/ j = 7 \/ j = 8 \/ j = 9 \/ j = 10
                        \/ j = 11 \/ j = 12
  OBVIOUS
<1>13. \A j \in DOMAIN s : s[j].do # "close" /\ (j # 2 => Chooses(s[j]) = {})
  <2>1. \A j \in DOMAIN s : j # 2 => s[j] \in {a, c, d, e, f, g, h, i}
    BY <1>10, <1>11, <1>12
  <2>2. s[2].do # "close"
    BY <1>8, <1>11
  <2> QED
    BY <1>8, <2>1, <2>2
<1>14. Chooses(s[2]) \cap Created = {}
  BY <1>5, <1>6, <1>8, <1>11
<1>15. IsSwitch(s)
  BY <1>8, <1>10, <1>11, <1>13, <1>14 DEF IsSwitch
<1> QED
  BY <1>1, <1>2, <1>15

LEMMA SwitchIsNew ==
  ASSUME VisitorReady, ChoicesAreNew, VisitKeeps, NEW v \in Var,
         SwitchBegins(v)
  PROVE  ChoicesAreNew'
<1>1. PICK s, n : n \in {2, 3} /\ IsSwitch(s) /\ Statement("switch", s, n, 1, 0)
  <2>1. 2 \in {2, 3} /\ 3 \in {2, 3}
    OBVIOUS
  <2> QED
    BY <2>1, SwitchWithoutDefault, SwitchWithDefault DEF SwitchBegins
<1>2. PICK t : t = Append(s, Body)
  OBVIOUS
<1>3. PICK m : m = Len(t)
  OBVIOUS
<1>4. Body \in Item /\ Body.do = "statements" /\ Chooses(Body) = {}
  BY <1>1, SwitchParts
<1>5. /\ s \in Seq(Item) /\ t \in Seq(Item) /\ m \in Nat /\ m >= 3
      /\ DOMAIN t = 1..m /\ t[1] = s[1] /\ t[2] = s[2]
      /\ \A j \in 1..m : t[j].do # "close" /\ (j # 2 => Chooses(t[j]) = {})
  <2>1. s \in Seq(Item) /\ Len(s) \in Nat /\ Len(s) >= 2 /\ DOMAIN s = 1..Len(s)
    BY <1>1 DEF IsSwitch
  <2>2. /\ t \in Seq(Item) /\ m = Len(s) + 1 /\ DOMAIN t = 1..m
        /\ \A k \in 1..Len(s) : t[k] = s[k]
        /\ t[m] = Body
    BY <1>2, <1>3, <1>4, <2>1
  <2>3. \A j \in 1..m : j \in DOMAIN s \/ (j = m /\ j # 2)
    BY <2>1, <2>2
  <2>4. \A j \in 1..m : t[j].do # "close" /\ (j # 2 => Chooses(t[j]) = {})
    <3>1. \A j \in DOMAIN s : /\ s[j].do # "close"
                              /\ j # 2 => Chooses(s[j]) = {}
      BY <1>1 DEF IsSwitch
    <3>2. t[m].do # "close" /\ Chooses(t[m]) = {}
      BY <1>4, <2>2
    <3>3. \A j \in DOMAIN s : t[j] = s[j]
      BY <2>1, <2>2
    <3> QED
      BY <2>3, <3>1, <3>2, <3>3
  <2>5. 1 \in 1..Len(s) /\ 2 \in 1..Len(s)
    BY <2>1
  <2> QED
    BY <2>1, <2>2, <2>4, <2>5
<1>6. /\ item.do = "statements" /\ todo' = t \o Tail(todo) /\ blocks' = blocks
  <2>1. n \in Nat /\ 1 \in Nat /\ 0 \in Nat
    BY <1>1
  <2>2. /\ item.do = "statements" /\ UNCHANGED vars /\ Expand(Append(s, Body))
    BY <1>1, <1>5, <2>1, StatementFacts
  <2> QED
    BY <1>2, <2>2 DEF Expand, vars, cfgVars
<1>7. /\ VisitorTypes /\ todo \in Seq(Item) /\ todo # <<>> /\ item = todo[1]
      /\ item \in Range(todo) /\ Range(todo) \subseteq Item
      /\ Range(todo) = {item} \cup Range(Tail(todo))
  BY FirstItem DEF VisitorReady, HandlersKeep
<1>8. Range(todo') = Range(t) \cup Range(Tail(todo))
  BY <1>5, <1>6, <1>7, ReplacedRange
<1>9. /\ t[1].do = "use" /\ t[2].do = "branch" /\ Chooses(t[2]) \cap Created = {}
  BY <1>1, <1>5 DEF IsSwitch
<1>10. \A x \in Range(todo) : x.do = "close" => x.block \in Created
  <2>1. \A x \in Range(todo) : NeedsOpen(x) \subseteq Created
    BY DEF VisitorReady, HandlersKeep, BlocksCreated
  <2>2. \A x \in Range(todo) : x.do = "close" => x.block \in NeedsOpen(x)
    BY DEF NeedsOpen
  <2> QED
    BY <2>1, <2>2
<1>11. ASSUME NEW x \in Range(todo'), NEW y \in Range(todo'), y.do = "close"
       PROVE  y.block \notin Chooses(x)
  <2>1. \A z, w \in Range(todo) : w.do = "close" => w.block \notin Chooses(z)
    BY DEF ChoicesAreNew
  <2>2. \A z \in Range(t) : z.do # "close" /\ Chooses(z) \cap Created = {}
    BY <1>5, <1>9 DEF Range
  <2>3. y \in Range(todo) /\ y.block \in Created
    BY <1>7, <1>8, <1>10, <1>11, <2>2
  <2> QED
    BY <1>7, <1>8, <1>11, <2>1, <2>2, <2>3
<1>12. ASSUME NEW j \in DOMAIN todo',
              Chooses(todo'[j]) \cap Labelled # {}
       PROVE  /\ todo'[j].do = "branch"
              /\ Chooses(todo'[j]) \cap Labelled \cap Range(blocks') = {}
              /\ j = 1 \/ (j = 2 /\ todo'[1].do = "use")
  <2>1. \A i \in DOMAIN todo : Chooses(todo[i]) \cap Labelled # {} =>
          i = 1 \/ (i = 2 /\ todo[1].do = "use")
    BY DEF ChoicesAreNew
  <2>2. /\ DOMAIN todo = 1..Len(todo) /\ Len(todo) \in Nat \ {0}
        /\ Len(todo') = m + Len(todo) - 1 /\ DOMAIN todo' = 1..Len(todo')
        /\ \A i \in 1..m : todo'[i] = t[i]
        /\ \A i \in (m + 1)..Len(todo') : todo'[i] = todo[i - m + 1]
    BY <1>3, <1>5, <1>6, <1>7, Replaced
  <2>3. CASE j \in 1..m
    <3>1. j = 2
      BY <1>5, <1>12, <2>2, <2>3
    <3>2. todo'[1] = t[1] /\ todo'[j] = t[2]
      BY <1>5, <2>2, <3>1
    <3>3. Range(blocks) \subseteq Created
      BY DEF VisitorReady, HandlersKeep, BlocksCreated
    <3>4. Chooses(t[2]) \cap Labelled \cap Range(blocks) = {}
      BY <1>9, <3>3
    <3> QED
      BY <1>6, <1>9, <3>1, <3>2, <3>4
  <2>4. CASE j \in (m + 1)..Len(todo')
    <3>1. PICK i : i = j - m + 1
      OBVIOUS
    <3>2. PICK l, h : l = Len(todo') /\ h = Len(todo)
      OBVIOUS
    <3>3. m \in Nat /\ h \in Nat /\ l = m + h - 1 /\ j \in (m + 1)..l
      BY <1>5, <2>2, <2>4, <3>2
    <3>4. i \in 1..h /\ i >= 2
      BY <3>1, <3>3
    <3>5. i \in DOMAIN todo /\ todo'[j] = todo[i]
      BY <2>2, <2>4, <3>1, <3>2, <3>4
    <3>6. todo[1].do # "use" /\ Chooses(todo[i]) \cap Labelled # {}
      BY <1>6, <1>7, <1>12, <3>5
    <3>7. i # 1
      BY <3>4
    <3> QED
      BY <2>1, <3>5, <3>6, <3>7
  <2>5. j \in 1..m \/ j \in (m + 1)..Len(todo')
    BY <1>5, <2>2
  <2> QED
    BY <2>3, <2>4, <2>5
<1> QED
  BY <1>11, <1>12 DEF ChoicesAreNew

(* What an item decides between has not been activated.                    *)
LEMMA NotYetActivated ==
  ASSUME VisitorReady, BlocksInOrder, ChoicesAreNew, NEW c \in Chooses(item)
  PROVE  ~Activated(c)
<1>1. /\ item \in Item /\ item = todo[1] /\ item \in Range(todo)
      /\ 1 \in DOMAIN todo /\ fault = "none" /\ \A b : ~IsBeingSealed(b)
  BY ReadyFacts
<1>2. CASE c \in Labelled
  <2>1. Chooses(item) \cap Labelled \cap Range(blocks) = {}
    BY <1>1, <1>2 DEF ChoicesAreNew
  <2> QED
    BY <1>2, <2>1 DEF Activated
<1>3. CASE c \notin Labelled
  <2>1. c \notin sealed
    <3>1. c \in NeedsOpen(item)
      BY <1>1, ChoicesOfItem
    <3> QED
      BY <1>1, <3>1 DEF BlocksInOrder, JumpsInOrder, MayBeTarget
  <2>2. \A x \in Range(todo) : ~(x.do = "close" /\ x.block = c)
    BY <1>1 DEF ChoicesAreNew
  <2> QED
    BY <1>1, <1>3, <2>1, <2>2 DEF BlocksInOrder, SealedAtLast, Activated
<1> QED
  BY <1>2, <1>3

(* How the visitor changes the graph.                                      *)
Jumped(ts) ==
  /\ active \notin terminated
  /\ ts \subseteq Block
  /\ (\A c, d \in ts : c = d) \/ ts = Chooses(item)
  /\ blocks' = blocks
  /\ preds' = [b \in Block |-> IF b \in ts THEN AddPred(preds[b], active)
                                           ELSE preds[b]]
Entered(b) ==
  /\ ~Activated(b) /\ preds[b] # <<>>
  /\ blocks' = Append(blocks, b)
  /\ preds' = preds
GraphMoves ==
  \/ UNCHANGED <<blocks, preds>>
  \/ \E b \in Block : Entered(b)
  \/ \E ts : Jumped(ts)

LEMMA VisitorMoves ==
  ASSUME VisitorReady, Visitor
  PROVE  GraphMoves
<1>1. item \in Item
  BY ReadyFacts
<1>2. ASSUME NEW ts \in SUBSET Block, Terminate(ts),
             (\A c, d \in ts : c = d) \/ ts = Chooses(item)
      PROVE  GraphMoves
  <2>1. \/ UNCHANGED <<blocks, preds>>
        \/ /\ active \notin terminated /\ blocks' = blocks
           /\ preds' = [b \in Block |-> IF b \in ts
                                          THEN AddPred(preds[b], active)
                                          ELSE preds[b]]
    BY <1>2 DEF Terminate, Open
  <2> QED
    BY <1>2, <2>1 DEF GraphMoves, Jumped
<1>3. ASSUME NEW b \in Block, NEW fs, ActivateThen(b, fs)
      PROVE  GraphMoves
  BY <1>3 DEF ActivateThen, GraphMoves, Entered
<1>4. CASE DoGoto
  <2>1. item.block \in Block
    BY <1>1, <1>4, ItemFields DEF DoGoto, Doing
  <2>2. UNCHANGED vars \/ Terminate({item.block})
    BY <1>4 DEF DoGoto
  <2>3. {item.block} \in SUBSET Block /\ \A c, d \in {item.block} : c = d
    BY <2>1
  <2> QED
    BY <1>2, <2>2, <2>3 DEF GraphMoves, vars, cfgVars
<1>5. CASE DoBranch
  <2>1. item.targets \in SUBSET Block /\ item.targets = Chooses(item)
    BY <1>1, <1>5, ItemFields, ChoicesOfItem DEF DoBranch, Doing
  <2> QED
    BY <1>2, <1>5, <2>1 DEF DoBranch
<1>6. CASE EndFunction
  <2>1. UNCHANGED vars \/ Terminate({})
    BY <1>6 DEF EndFunction
  <2>2. {} \in SUBSET Block /\ \A c, d \in {} : c = d
    OBVIOUS
  <2> QED
    BY <1>2, <2>1, <2>2 DEF GraphMoves, vars, cfgVars
<1>7. CASE DoActivate \/ DoOpen \/ DoTryActivate
  <2>1. item.block \in Block
    BY <1>1, <1>7, ItemFields DEF DoActivate, DoOpen, DoTryActivate, Doing
  <2>2. UNCHANGED vars \/ Activate(item.block) \/ ActivateOpen(item.block)
    BY <1>7 DEF DoActivate, DoOpen, DoTryActivate
  <2> QED
    BY <1>3, <2>1, <2>2 DEF Activate, ActivateOpen, GraphMoves, vars, cfgVars
<1>8. CASE DoClose \/ DoAssign \/ DoUse \/ DoHold \/ DoUseHeld \/ DoFinalise
  <2>1. UNCHANGED <<blocks, preds>>
    BY <1>8 DEF DoClose, DoAssign, DoUse, DoHold, DoUseHeld, DoFinalise,
       CloseOpen, Assign, UseVariable, ReadVariable, AddUseOf, Finalise,
       cfgVars
  <2> QED
    BY <2>1 DEF GraphMoves
<1>9. CASE \/ DoKeep \/ DoRelease \/ DoLoop \/ DoExitLoop
           \/ ConditionOperand \/ ConditionOperator \/ DoVisit
           \/ EndBody
  <2>1. UNCHANGED vars
    BY <1>9 DEF DoKeep, DoRelease, DoLoop, DoExitLoop, ConditionOperand,
       ConditionOperator, DoVisit, EndBody
  <2> QED
    BY <2>1 DEF GraphMoves, vars, cfgVars
<1>10. CASE SimpleStatement \/ Conditional \/ LoopStatement
  <2>1. ASSUME NEW kind, NEW s, NEW n, NEW l, NEW k, Statement(kind, s, n, l, k)
        PROVE  UNCHANGED vars
    BY <2>1 DEF Statement
  <2>2. SimpleStatement \/ Conditional => UNCHANGED vars
    BY <2>1 DEF SimpleStatement, Conditional
  <2>3. LoopStatement => UNCHANGED vars
    <3>1. ASSUME NEW label, ForInLoop(label)
          PROVE  UNCHANGED vars
      BY <2>1, <3>1 DEF ForInLoop, For
    <3> QED
      BY <2>1, <3>1 DEF LoopStatement
  <2> QED
    BY <1>10, <2>2, <2>3 DEF GraphMoves, vars, cfgVars
<1> QED
  BY <1>4, <1>5, <1>6, <1>7, <1>8, <1>9, <1>10 DEF Visitor

LEMMA BlockSequence ==
  ASSUME TypeOK
  PROVE  /\ blocks \in Seq(Block) /\ blocks # <<>>
         /\ DOMAIN blocks = 1..Len(blocks) /\ Len(blocks) \in Nat \ {0}
         /\ active \in Block /\ Activated(active)
         /\ \A b \in Block : preds[b] \in Seq(Block)
         /\ preds \in [Block -> Seq(Block)]
         /\ \A b : Activated(b) <=> \E i \in DOMAIN blocks : blocks[i] = b
  BY DEF TypeOK, active, Activated, Range

LEMMA EnteredInOrder ==
  ASSUME VisitorReady, BlocksFollow, EdgesInOrder, NEW new \in Block,
         Entered(new)
  PROVE  BlocksFollow' /\ EdgesInOrder'
<1>1. /\ TypeOK /\ blocks \in Seq(Block) /\ DOMAIN blocks = 1..Len(blocks)
      /\ Len(blocks) \in Nat \ {0}
      /\ \A b : Activated(b) <=> \E i \in DOMAIN blocks : blocks[i] = b
      /\ \A b \in Block : preds[b] \in Seq(Block)
  BY ReadyFacts, BlockSequence
<1>2. /\ blocks' = Append(blocks, new) /\ preds' = preds
      /\ ~Activated(new) /\ preds[new] # <<>>
  BY DEF Entered
<1>3. /\ DOMAIN blocks' = 1..(Len(blocks) + 1)
      /\ \A i \in DOMAIN blocks : i \in DOMAIN blocks' /\ blocks'[i] = blocks[i]
      /\ Len(blocks) + 1 \in DOMAIN blocks'
      /\ blocks'[Len(blocks) + 1] = new
      /\ \A i \in DOMAIN blocks' : i \in DOMAIN blocks \/ i = Len(blocks) + 1
      /\ \A i \in DOMAIN blocks : i < Len(blocks) + 1 /\ blocks[i] # new
  BY <1>1, <1>2
<1>4. \A b : Activated(b) => Activated(b)'
  BY <1>1, <1>3 DEF Activated, Range
<1>5. \A b : Activated(b)' => Activated(b) \/ b = new
  BY <1>1, <1>3 DEF Activated, Range
<1>6. \A b, c \in Block : Precedes(b, c) => Precedes(b, c)'
  BY <1>3 DEF Precedes
<1>7. ASSUME NEW c \in Block, NEW b \in Range(preds'[c])
      PROVE  /\ Activated(b)'
             /\ OnlyTo(b, c)' \/ ~Activated(c)' \/ Precedes(b, c)'
  <2>1. b \in Range(preds[c]) /\ b \in Block
    BY <1>1, <1>2, <1>7, RangeType
  <2>2. Activated(b) /\ (OnlyTo(b, c) \/ ~Activated(c) \/ Precedes(b, c))
    BY <2>1 DEF EdgesInOrder
  <2>3. OnlyTo(b, c) => OnlyTo(b, c)'
    BY <1>2 DEF OnlyTo
  <2>4. c = new => Precedes(b, c)'
    <3>1. PICK i \in DOMAIN blocks : blocks[i] = b
      BY <1>1, <2>2
    <3> QED
      BY <1>3, <3>1 DEF Precedes
  <2> QED
    BY <1>4, <1>5, <1>6, <2>1, <2>2, <2>3, <2>4
<1>8. EdgesInOrder'
  BY <1>7 DEF EdgesInOrder
<1>9. ASSUME NEW j \in DOMAIN blocks', j > 1
      PROVE  \E i \in 1..(j - 1) : blocks'[i] \in Range(preds'[blocks'[j]])
  <2>1. CASE j \in DOMAIN blocks
    <3>1. PICK i \in 1..(j - 1) : blocks[i] \in Range(preds[blocks[j]])
      BY <1>9, <2>1 DEF BlocksFollow
    <3>2. i \in DOMAIN blocks
      BY <1>1, <2>1, <3>1
    <3> QED
      BY <1>2, <1>3, <2>1, <3>1, <3>2
  <2>2. CASE j = Len(blocks) + 1
    <3>1. PICK b : b \in Range(preds[new])
      <4>1. /\ 1 \in DOMAIN preds[new]
        BY <1>1, <1>2
      <4> QED
        BY <4>1 DEF Range
    <3>2. Activated(b)
      BY <3>1 DEF EdgesInOrder
    <3>3. PICK i \in DOMAIN blocks : blocks[i] = b
      BY <1>1, <3>2
    <3>4. i \in 1..(j - 1)
      BY <1>1, <2>2, <3>3
    <3> QED
      BY <1>2, <1>3, <2>2, <3>1, <3>3, <3>4
  <2> QED
    BY <1>3, <2>1, <2>2
<1>10. \A i, j \in DOMAIN blocks' : blocks'[i] = blocks'[j] => i = j
  BY <1>3 DEF BlocksFollow
<1>11. blocks'[1] = Entry
  <2>1. 1 \in DOMAIN blocks
    BY <1>1
  <2> QED
    BY <1>3, <2>1 DEF BlocksFollow
<1> QED
  BY <1>8, <1>9, <1>10, <1>11 DEF BlocksFollow

LEMMA JumpedInOrder ==
  ASSUME VisitorReady, BlocksInOrder, ChoicesAreNew, BlocksFollow,
         EdgesInOrder, NEW ts, Jumped(ts)
  PROVE  BlocksFollow' /\ EdgesInOrder'
<1>1. /\ TypeOK /\ blocks \in Seq(Block) /\ DOMAIN blocks = 1..Len(blocks)
      /\ active \in Block /\ Activated(active)
      /\ \A b \in Block : preds[b] \in Seq(Block)
      /\ preds \in [Block -> Seq(Block)]
  BY ReadyFacts, BlockSequence
<1>2. /\ active \notin terminated /\ ts \subseteq Block /\ blocks' = blocks
      /\ preds' = [b \in Block |-> IF b \in ts THEN AddPred(preds[b], active)
                                               ELSE preds[b]]
      /\ (\A c, d \in ts : c = d) \/ ts = Chooses(item)
  BY DEF Jumped
<1>3. \A c \in Block : active \notin Range(preds[c])
  BY <1>2 DEF VisitorReady, Warned, Graph, PredecessorsTerminated
<1>4. ASSUME NEW c \in Block
      PROVE  Range(preds'[c]) = Range(preds[c])
                                  \cup (IF c \in ts THEN {active} ELSE {})
  <2>1. CASE c \in ts
    <3>1. preds'[c] = Append(preds[c], active)
      BY <1>2, <1>3, <2>1 DEF AddPred
    <3>2. Range(Append(preds[c], active)) = Range(preds[c]) \cup {active}
      BY <1>1, AppendRange
    <3> QED
      BY <2>1, <3>1, <3>2
  <2>2. CASE c \notin ts
    BY <1>2, <2>2
  <2> QED
    BY <2>1, <2>2
<1>5. PICK from : from = active
  OBVIOUS
<1>6. /\ \A b : Activated(b)' <=> Activated(b)
      /\ \A b, c \in Block : Precedes(b, c)' <=> Precedes(b, c)
  BY <1>2 DEF Activated, Precedes
<1>7. ASSUME NEW c \in Block, NEW b \in Range(preds'[c])
      PROVE  /\ Activated(b)'
             /\ OnlyTo(b, c)' \/ ~Activated(c)' \/ Precedes(b, c)'
  <2>1. CASE b # from
    <3>1. b \in Range(preds[c]) /\ b \in Block
      BY <1>1, <1>4, <1>5, <1>7, <2>1, RangeType
    <3>2. Activated(b) /\ (OnlyTo(b, c) \/ ~Activated(c) \/ Precedes(b, c))
      BY <3>1 DEF EdgesInOrder
    <3>3. OnlyTo(b, c) => OnlyTo(b, c)'
      BY <1>4, <1>5, <2>1 DEF OnlyTo
    <3> QED
      BY <1>6, <3>1, <3>2, <3>3
  <2>2. CASE b = from
    <3>1. Activated(b)'
      BY <1>1, <1>5, <1>6, <2>2
    <3>2. c \in ts /\ \A d \in Block : b \in Range(preds'[d]) => d \in ts
      BY <1>3, <1>4, <1>5, <1>7, <2>2
    <3>3. CASE \A d, e \in ts : d = e
      <4>1. OnlyTo(b, c)'
        BY <3>2, <3>3 DEF OnlyTo
      <4> QED
        BY <3>1, <4>1
    <3>4. CASE ts = Chooses(item)
      <4>1. ~Activated(c)
        BY <3>2, <3>4, NotYetActivated
      <4> QED
        BY <1>6, <3>1, <4>1
    <3> QED
      BY <1>2, <3>3, <3>4
  <2> QED
    BY <2>1, <2>2
<1>8. EdgesInOrder'
  BY <1>7 DEF EdgesInOrder
<1>9. \A j \in DOMAIN blocks :
        blocks[j] \in Block /\ Range(preds[blocks[j]]) \subseteq
                                 Range(preds'[blocks[j]])
  BY <1>1, <1>4
<1>10. BlocksFollow'
  BY <1>2, <1>9 DEF BlocksFollow
<1> QED
  BY <1>8, <1>10

LEMMA EdgesBackVisit ==
  ASSUME Warned, HandlersKeep, BlocksInOrder, LabelsWillBeFound, EdgesBack,
         Visitor
  PROVE  EdgesBack'
<1>1. VisitKeeps
  BY VisitorKeeps
<1>2. VisitorReady
  <2>1. AtItem
    BY <1>1 DEF VisitKeeps, Fulfils, Unfolds
  <2> QED
    BY <2>1 DEF VisitorReady
<1>3. BlocksFollow /\ EdgesInOrder /\ ChoicesAreNew
  BY <1>2, ReadyFacts DEF EdgesBack
<1>4. ChoicesAreNew'
  BY <1>1, <1>2, <1>3, VisitorQuiet, ChoicesStayNew, SwitchIsNew
<1>5. CASE UNCHANGED <<blocks, preds>>
  BY <1>3, <1>4, <1>5
  DEF EdgesBack, BlocksFollow, EdgesInOrder, OnlyTo, Precedes, Activated
<1>6. CASE \E b \in Block : Entered(b)
  BY <1>2, <1>3, <1>4, <1>6, EnteredInOrder DEF EdgesBack
<1>7. CASE \E ts : Jumped(ts)
  BY <1>2, <1>3, <1>4, <1>7, JumpedInOrder DEF EdgesBack
<1> QED
  BY <1>2, <1>5, <1>6, <1>7, VisitorMoves DEF GraphMoves

LEMMA EdgesBackStays ==
  ASSUME EdgesBack, UNCHANGED <<blocks, preds, todo>>,
         fault' = "none" => fault = "none"
  PROVE  EdgesBack'
<1>1. BlocksFollow'
  BY DEF EdgesBack, BlocksFollow
<1>2. EdgesInOrder'
  BY DEF EdgesBack, EdgesInOrder, OnlyTo, Precedes, Activated
<1>3. fault' = "none" => ChoicesAreNew'
  BY DEF EdgesBack, ChoicesAreNew
<1> QED
  BY <1>1, <1>2, <1>3 DEF EdgesBack

LEMMA EdgesBackInit ==
  ASSUME FlowInit
  PROVE  EdgesBack
<1>1. /\ blocks = <<Entry>> /\ preds = [b \in Block |-> <<>>]
  BY DEF FlowInit, Init
<1>2. DOMAIN blocks = {1} /\ blocks[1] = Entry
  BY <1>1
<1>3. BlocksFollow
  BY <1>2 DEF BlocksFollow
<1>4. EdgesInOrder
  BY <1>1 DEF EdgesInOrder, Range
<1>5. \A x \in Range(todo) : Chooses(x) = {} /\ x.do # "close"
  <2>1. \A x \in Range(todo) : x.do \in {"statements", "end", "finalise"}
    BY InitItems
  <2> QED
    BY <2>1 DEF Chooses, Choices
<1>6. ChoicesAreNew
  BY <1>5 DEF ChoicesAreNew, Range
<1> QED
  BY <1>3, <1>4, <1>6 DEF EdgesBack

LEMMA EdgesBackNext ==
  ASSUME FlowInvariant, EdgesBack, [FlowNext]_<<vars, machine, visitor>>
  PROVE  EdgesBack'
<1>1. Warned /\ HandlersKeep /\ BlocksInOrder /\ LabelsWillBeFound
  BY DEF FlowInvariant, HandlersInOrder
<1>2. CASE Visitor
  BY <1>1, <1>2, EdgesBackVisit
<1>3. CASE Step /\ UNCHANGED visitor
  <2>1. StepOK
    BY <1>1, <1>3 DEF Warned, StepOK, Next
  <2>2. fault = "none" /\ UNCHANGED <<blocks, preds>>
    BY <1>3, <2>1, StepStack
  <2>3. UNCHANGED todo
    BY <1>3 DEF visitor
  <2> QED
    BY <2>2, <2>3, EdgesBackStays
<1>4. CASE UNCHANGED <<vars, visitor>>
  <2>1. UNCHANGED <<blocks, preds, todo>> /\ fault' = fault
    BY <1>4 DEF vars, cfgVars, callVars, visitor
  <2> QED
    BY <2>1, EdgesBackStays
<1>5. Execute => UNCHANGED vars
  BY DEF Execute, ExecWrite, ExecUse, ExecJump
<1> QED
  BY <1>2, <1>3, <1>4, <1>5 DEF FlowNext, Stopped

-----------------------------------------------------------------------------
(* Blocks that control reaches                                             *)

(* The induction theorems of the library take the predicate as an operator; *)
(* here it is a set.  The numbers up to t that are not in S would be as    *)
(* many as those below t that are not.                                     *)
LEMMA NumberInduction ==
  ASSUME NEW S, 0 \in S, \A k \in Nat : k \in S => k + 1 \in S
  PROVE  \A k \in Nat : k \in S
<1> SUFFICES ASSUME NEW t \in Nat, t \notin S PROVE FALSE
  OBVIOUS
<1> DEFINE D == {u \in 0..t : u \notin S}
           f == [u \in D |-> u - 1]
<1>1. t \in D /\ IsFiniteSet(0..t)
  BY FS_Interval
<1>2. IsFiniteSet(D)
  BY <1>1, FS_Subset
<1>3. \A u \in D : u - 1 \in D \ {t} /\ u \in Int
  OBVIOUS
<1>4. f \in [D -> D \ {t}] /\ \A u, v \in D : f[u] = f[v] => u = v
  BY <1>3
<1> HIDE DEF f, D
<1>5. f \in Injection(D, D \ {t})
  BY <1>4 DEF Injection, IsInjective
<1>6. IsFiniteSet(D \ {t}) /\ Cardinality(D \ {t}) = Cardinality(D) - 1
  BY <1>1, <1>2, FS_RemoveElement
<1>7. Cardinality(D) <= Cardinality(D \ {t})
  BY <1>5, <1>6, FS_Injection
<1>8. Cardinality(D) \in Nat
  BY <1>2, FS_CardinalityType
<1> QED
  BY <1>6, <1>7, <1>8

(* A step of the search for the blocks that are reached without c.         *)
Reach(c, B) == B \cup {d \in Range(blocks) \ {c} : Range(preds[d]) \cap B # {}}
Search(c, w, n) ==
  /\ w \in [0..n -> SUBSET Block]
  /\ w[0] = {Entry} \ {c}
  /\ \A k \in 1..n : w[k] = Reach(c, w[k - 1])

LEMMA ReachType ==
  ASSUME TypeOK, NEW c, NEW B \in SUBSET Block
  PROVE  Reach(c, B) \in SUBSET Block
<1>1. Range(blocks) \subseteq Block
  BY BlockSequence, RangeType
<1> QED
  BY <1>1 DEF Reach

LEMMA SearchExists ==
  ASSUME TypeOK, NEW c, NEW N \in Nat
  PROVE  \E w : Search(c, w, N)
<1> DEFINE S == {m \in Nat : \E w : Search(c, w, m)}
<1>1. 0 \in S
  <2>1. {Entry} \ {c} \in SUBSET Block
    BY ConstantsAssumption
  <2>2. Search(c, [k \in 0..0 |-> {Entry} \ {c}], 0)
    BY <2>1 DEF Search
  <2> QED
    BY <2>2
<1>2. ASSUME NEW m \in Nat, m \in S PROVE m + 1 \in S
  <2>1. PICK w : Search(c, w, m)
    BY <1>2
  <2> DEFINE v == [k \in 0..(m + 1) |-> IF k <= m THEN w[k] ELSE Reach(c, w[m])]
  <2>2. /\ \A k \in 0..m : v[k] = w[k] /\ w[k] \in SUBSET Block
        /\ v[m + 1] = Reach(c, w[m])
    BY <2>1 DEF Search
  <2>3. Reach(c, w[m]) \in SUBSET Block
    <3>1. m \in 0..m
      OBVIOUS
    <3>2. PICK B : B = w[m]
      OBVIOUS
    <3>3. B \in SUBSET Block
      BY <2>2, <3>1, <3>2
    <3> QED
      BY <3>2, <3>3, ReachType
  <2>4. v \in [0..(m + 1) -> SUBSET Block]
    <3>1. \A k \in 0..(m + 1) : k <= m => k \in 0..m
      OBVIOUS
    <3>2. \A k \in 0..(m + 1) :
            (IF k <= m THEN w[k] ELSE Reach(c, w[m])) \in SUBSET Block
      BY <2>2, <2>3, <3>1
    <3> QED
      BY <3>2
  <2> HIDE DEF v
  <2>5. ASSUME NEW k \in 1..(m + 1) PROVE v[k] = Reach(c, v[k - 1])
    <3>1. CASE k = m + 1
      <4>1. k - 1 = m /\ m \in 0..m
        BY <3>1
      <4> QED
        BY <2>2, <3>1, <4>1
    <3>2. CASE k \in 1..m
      <4>1. k - 1 \in 0..m /\ k \in 0..m
        BY <3>2
      <4> QED
        BY <2>1, <2>2, <3>2, <4>1 DEF Search
    <3> QED
      BY <3>1, <3>2
  <2>6. v[0] = {Entry} \ {c}
    <3>1. 0 \in 0..m
      OBVIOUS
    <3> QED
      BY <2>1, <2>2, <3>1 DEF Search
  <2> QED
    BY <2>4, <2>5, <2>6 DEF Search
<1> HIDE DEF S
<1>3. \A m \in Nat : m \in S
  BY <1>1, <1>2, NumberInduction
<1> QED
  BY <1>3 DEF S

LEMMA ReachedIsSearch ==
  ASSUME TypeOK, NEW c
  PROVE  \E w : /\ w[0] = {Entry} \ {c}
                /\ \A k \in 1..Len(blocks) : w[k] = Reach(c, w[k - 1])
                /\ ReachedWithout(c) = w[Len(blocks)]
<1> DEFINE body(w) == [k \in 0..Len(blocks) |->
                         IF k = 0 THEN {Entry} \ {c} ELSE Reach(c, w[k - 1])]
           within == CHOOSE w : w = body(w)
<1>1. Len(blocks) \in Nat
  BY BlockSequence
<1>2. ReachedWithout(c) = within[Len(blocks)]
  BY DEF ReachedWithout, Reach
<1>3. PICK v : Search(c, v, Len(blocks))
  BY <1>1, SearchExists
<1>4. v = body(v)
  <2>1. v \in [0..Len(blocks) -> SUBSET Block] /\ DOMAIN v = 0..Len(blocks)
    BY <1>3 DEF Search
  <2>2. ASSUME NEW k \in 0..Len(blocks)
        PROVE  v[k] = IF k = 0 THEN {Entry} \ {c} ELSE Reach(c, v[k - 1])
    BY <1>1, <1>3 DEF Search
  <2>3. body(v) = [k \in 0..Len(blocks) |->
                     IF k = 0 THEN {Entry} \ {c} ELSE Reach(c, v[k - 1])]
    OBVIOUS
  <2> HIDE DEF body
  <2> QED
    BY <2>1, <2>2, <2>3
<1>5. within = body(within)
  BY <1>4
<1> HIDE DEF within
<1>6. /\ within[0] = {Entry} \ {c}
      /\ \A k \in 1..Len(blocks) : within[k] = Reach(c, within[k - 1])
  <2>1. within = [k \in 0..Len(blocks) |->
                    IF k = 0 THEN {Entry} \ {c} ELSE Reach(c, within[k - 1])]
    BY <1>5
  <2>2. ASSUME NEW k \in 0..Len(blocks)
        PROVE  within[k] = IF k = 0 THEN {Entry} \ {c}
                           ELSE Reach(c, within[k - 1])
    BY <2>1
  <2> HIDE DEF body
  <2> QED
    BY <1>1, <2>2
<1> QED
  BY <1>2, <1>6

(* The blocks that were activated up to one that is not c, when none of    *)
(* them is c, are reached without it.                                      *)
LEMMA ReachedBefore ==
  ASSUME TypeOK, BlocksFollow, NEW c, NEW m \in DOMAIN blocks,
         \A j \in 1..m : blocks[j] # c
  PROVE  blocks[m] \in ReachedWithout(c)
<1>1. PICK w : /\ w[0] = {Entry} \ {c}
               /\ \A k \in 1..Len(blocks) : w[k] = Reach(c, w[k - 1])
               /\ ReachedWithout(c) = w[Len(blocks)]
  BY ReachedIsSearch
<1>2. Len(blocks) \in Nat /\ DOMAIN blocks = 1..Len(blocks) /\ m \in Nat
  BY BlockSequence
<1> DEFINE S == {k \in Nat : k <= Len(blocks) =>
                   \A j \in 1..m : j <= k + 1 => blocks[j] \in w[k]}
<1>3. 0 \in S
  <2>1. \A j \in 1..m : j <= 0 + 1 => j = 1
    BY <1>2
  <2>2. 1 \in 1..m
    BY <1>2
  <2>3. blocks[1] \in w[0]
    BY <1>1, <2>2 DEF BlocksFollow
  <2> QED
    BY <2>1, <2>3
<1>4. ASSUME NEW k \in Nat, k \in S PROVE k + 1 \in S
  <2>1. SUFFICES ASSUME k + 1 <= Len(blocks), NEW j \in 1..m, j <= k + 2
                 PROVE  blocks[j] \in w[k + 1]
    OBVIOUS
  <2>2. /\ k + 1 \in 1..Len(blocks) /\ (k + 1) - 1 = k /\ k <= Len(blocks)
        /\ j \in DOMAIN blocks
    BY <1>2, <2>1
  <2>3. w[k + 1] = Reach(c, w[k])
    BY <1>1, <2>2
  <2>4. \A i \in 1..m : i <= k + 1 => blocks[i] \in w[k]
    BY <1>4, <2>2
  <2>5. CASE j <= k + 1
    BY <2>3, <2>4, <2>5 DEF Reach
  <2>6. CASE j = k + 2
    <3>1. PICK i \in 1..(j - 1) : blocks[i] \in Range(preds[blocks[j]])
      <4>1. j > 1
        BY <2>6
      <4> QED
        BY <2>2, <4>1 DEF BlocksFollow
    <3>2. i \in 1..m /\ i <= k + 1
      BY <1>2, <2>6
    <3>3. blocks[i] \in w[k]
      BY <2>4, <3>2
    <3>4. blocks[j] \in Range(blocks) \ {c}
      BY <2>2 DEF Range
    <3> QED
      BY <2>3, <3>1, <3>3, <3>4 DEF Reach
  <2> QED
    BY <1>2, <2>1, <2>5, <2>6
<1> HIDE DEF S
<1>5. \A k \in Nat : k \in S
  BY <1>3, <1>4, NumberInduction
<1>6. Len(blocks) \in S
  BY <1>2, <1>5
<1>7. m \in 1..m /\ m <= Len(blocks) + 1 /\ Len(blocks) <= Len(blocks)
  BY <1>2
<1>8. blocks[m] \in w[Len(blocks)]
  BY <1>6, <1>7 DEF S
<1> QED
  BY <1>1, <1>8

(* What enters a block again after the block was reached has no other way  *)
(* to go: a jump that decides between several blocks leaves to blocks that *)
(* are activated later, while a loop is closed by a single jump back.  So  *)
(* the copies that the way out of SSA form puts before such a jump are     *)
(* made for its phis alone.                                                *)
THEOREM HandlersJumpBack == FlowSpec => []LoopHeadersAreJumpedTo
<1>1. ASSUME FlowInvariant, EdgesBack, NEW p \in phis,
             NEW b \in Range(preds[p[1]])
      PROVE  \/ b \in ReachedWithout(p[1])
             \/ \A c \in Block : b \in Range(preds[c]) => c = p[1]
  <2>1. PICK d : d = p[1]
    OBVIOUS
  <2>2. TypeOK /\ BlocksFollow /\ EdgesInOrder
    BY <1>1 DEF FlowInvariant, Warned, InductiveSSA, EdgesBack
  <2>3. d \in Block
    BY <2>1, <2>2 DEF TypeOK
  <2>4. /\ Activated(b)
        /\ OnlyTo(b, d) \/ ~Activated(d) \/ Precedes(b, d)
    BY <1>1, <2>1, <2>2, <2>3 DEF EdgesInOrder
  <2>5. CASE OnlyTo(b, d)
    BY <2>1, <2>5 DEF OnlyTo
  <2>6. CASE ~Activated(d)
    <3>1. PICK m \in DOMAIN blocks : blocks[m] = b
      BY <2>4 DEF Activated, Range
    <3>2. \A j \in DOMAIN blocks : blocks[j] # d
      BY <2>6 DEF Activated, Range
    <3>3. \A j \in 1..m : blocks[j] # d
      <4>1. DOMAIN blocks = 1..Len(blocks) /\ Len(blocks) \in Nat
        BY <2>2, BlockSequence
      <4> QED
        BY <3>2, <4>1
    <3> QED
      BY <2>1, <2>2, <3>1, <3>3, ReachedBefore
  <2>7. CASE Precedes(b, d)
    <3>1. PICK m, n \in DOMAIN blocks : m < n /\ blocks[m] = b /\ blocks[n] = d
      BY <2>7 DEF Precedes
    <3>2. DOMAIN blocks = 1..Len(blocks) /\ Len(blocks) \in Nat
      BY <2>2, BlockSequence
    <3>3. \A j \in 1..m : j \in DOMAIN blocks /\ j # n
      BY <3>1, <3>2
    <3>4. \A j \in 1..m : blocks[j] # d
      BY <2>2, <3>1, <3>3 DEF BlocksFollow
    <3> QED
      BY <2>1, <2>2, <3>1, <3>4, ReachedBefore
  <2> QED
    BY <2>4, <2>5, <2>6, <2>7
<1>2. FlowInvariant /\ EdgesBack => LoopHeadersAreJumpedTo
  BY <1>1 DEF LoopHeadersAreJumpedTo
<1>3. FlowInvariant /\ EdgesBack /\ [FlowNext]_<<vars, machine, visitor>>
        => FlowInvariant' /\ EdgesBack'
  BY FlowInvariantNext, EdgesBackNext
<1>4. FlowInit => FlowInvariant /\ EdgesBack
  BY FlowInvariantInit, EdgesBackInit
<1> QED
  BY <1>2, <1>3, <1>4, PTL DEF FlowSpec
=============================================================================
