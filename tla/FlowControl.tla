---------------------------- MODULE FlowControl ----------------------------
(***************************************************************************)
(* The statement handlers that drive the SSA construction: conditionals,   *)
(* loops, switch, break, continue and return (puya/ir/builder/             *)
(* flow_control.py, iteration.py, main.py) on the trees that the Python    *)
(* front end builds for loops with an else and for or-patterns             *)
(* (puyapy/awst_build/subroutine.py), whose labels and gotos are the only  *)
(* unstructured control flow.                                              *)
(*                                                                         *)
(* A handler is a straight sequence of block operations with statements    *)
(* to visit in between, so the state of the recursive visitor is one       *)
(* sequence, "todo", of what is left to do.  The source program is not     *)
(* given: whenever the visitor reaches the next statement of a body, it    *)
(* may be any that the bounds allow.  Code after a break, continue or      *)
(* return is not generated.                                                *)
(*                                                                         *)
(* A definition F_Fault is F with a plausible mistake; it is used only to  *)
(* see that a property notices the mistake.                                *)
(***************************************************************************)
EXTENDS SSAExecution

CONSTANTS
  User,           \* variables of the source program
  Temps,          \* names next_tmp_name returns, in the order of the calls
  MaxBlocks,      \* bound: unlabelled blocks after the entry
  MaxStatements,  \* bound: statements, and operators in conditions
  Statements      \* the kinds of statement a program may have

Kinds == {"assign", "use", "return", "break", "continue", "if", "ifelse",
          "ternary", "switch", "while", "range", "reversed", "indexed", "tuple",
          "else"}

(* Blocks are numbered in the order of their creation, those with a label  *)
(* apart; the label of a block is the block.                               *)
ASSUME FlowAssumption ==
  /\ MaxBlocks \in Nat
  /\ MaxStatements \in Nat
  /\ Entry = 0
  /\ IsFiniteSet(Labelled)
  /\ Labelled = (MaxBlocks + 1)..(MaxBlocks + Cardinality(Labelled))
  /\ Block = (0..MaxBlocks) \cup Labelled
  /\ Temps \in Seq(Var)
  /\ User = Var \ Range(Temps)
  /\ Statements \subseteq Kinds

VARIABLES
  todo,       \* what the visitor has still to do, first to last
  held,       \* registers that the running handlers keep in local variables,
              \* by the block that the variable is known by
  loops,      \* _loop_targets_stack, with _break_label_stack, innermost first
  blockCount, \* unlabelled blocks created
  labelCount, \* labels created
  tempCount,  \* temporary names created
  budget      \* what is left of MaxStatements

visitor == <<todo, held, loops, blockCount, labelCount, tempCount, budget>>

NoLabel == 0

-----------------------------------------------------------------------------
(* What a handler does, as items                                           *)

Goto(b) == [do |-> "goto", block |-> b]
ActivateBlock(b) == [do |-> "activate", block |-> b]
OpenBlock_Sealed(b) == ActivateBlock(b)
OpenBlock(b) == [do |-> "open", block |-> b]
CloseBlock(b) == [do |-> "close", block |-> b]
(* try_activate_block, and the body of its "if".                           *)
TryActivate(b, then) == [do |-> "try", block |-> b, then |-> then]
Branch(ts) == [do |-> "branch", targets |-> ts]
Cond(t, f) == [do |-> "cond", true |-> t, false |-> f]
AssignTo(v) == [do |-> "assign", var |-> v]
Use(v) == [do |-> "use", var |-> v]
(* A read whose register the handler keeps in a local variable, known by   *)
(* a block of the handler; an op on that register; and the handler's end.  *)
Hold(v, k) == [do |-> "hold", var |-> v, key |-> k]
Keep(k) == [do |-> "keep", key |-> k]
UseKept(k) == [do |-> "useHeld", key |-> k]
Release(ks) == [do |-> "release", keys |-> ks]
Loop(c, b, l) == [do |-> "loop", cont |-> c, brk |-> b, label |-> l]
ExitLoop == [do |-> "exit"]
Visit(l) == [do |-> "visit", block |-> l]
Body == [do |-> "statements"]

(* mkblock: the n-th block from now.                                       *)
New(n) == blockCount + n

IfItems ==
  LET body == New(1) next == New(2)
  IN <<Cond(body, next),
       ActivateBlock(body), Body, Goto(next),
       TryActivate(next, <<>>)>>

IfElseItems ==
  LET body == New(1) orelse == New(2) next == New(3)
  IN <<Cond(body, orelse),
       ActivateBlock(body), Body, Goto(next),
       ActivateBlock(orelse), Body, Goto(next),
       TryActivate(next, <<>>)>>

TrueValue_Kept(true, tmp) ==
  <<ActivateBlock(true), AssignTo(tmp), Hold(tmp, true)>>
TrueValue(true, tmp) == <<ActivateBlock(true), AssignTo(tmp)>>

(* An operation whose left operand is v and whose right operand is a       *)
(* conditional expression.                                                 *)
TernaryItems(v, tmp) ==
  LET true == New(1) false == New(2) merge == New(3)
  IN <<Hold(v, true), Cond(true, false)>> \o TrueValue(true, tmp) \o
     <<Goto(merge),
       ActivateBlock(false), AssignTo(tmp), Goto(merge),
       ActivateBlock(merge), Use(tmp),
       UseKept(true), Release({true})>>

(* A match with an or-pattern of two values: the case of the first value   *)
(* is a block with a goto to the labelled block of the second.             *)
SwitchItems(v, label) ==
  LET other == New(1) next == New(2)
  IN <<Use(v), Branch({other, label, next}),
       ActivateBlock(other), Goto(label), Goto(next),
       ActivateBlock(label), Body, Goto(next),
       TryActivate(next, <<>>)>>

(* The same match with a default case.                                     *)
SwitchDefaultItems(v, label) ==
  LET other == New(1) next == New(2) default == New(3)
  IN <<Use(v), Branch({other, label, default}),
       ActivateBlock(other), Goto(label), Goto(next),
       ActivateBlock(label), Body, Goto(next),
       ActivateBlock(default), Body, Goto(next),
       TryActivate(next, <<>>)>>

WhileItems(label) ==
  LET header == New(1) next == New(2) body == New(3)
  IN <<Goto(header), OpenBlock(header),
       Cond(body, next),
       ActivateBlock(body), Loop(header, next, label),
       Goto(header), CloseBlock(header), ActivateBlock(next)>>

(* The start of a loop that keeps its counter, and the end of one that has *)
(* kept the registers ks.                                                  *)
EnterCounted_Early(start, counter) ==
  <<Hold(counter, start), Goto(start), OpenBlock(start)>>
EnterCounted(start, counter) ==
  <<Goto(start), OpenBlock(start), Hold(counter, start)>>

LeaveCounted_Use(start, next, ks) ==
  <<CloseBlock(start), ActivateBlock(next), UseKept(start), Release(ks)>>
LeaveCounted(start, next, ks) ==
  <<CloseBlock(start), ActivateBlock(next), Release(ks)>>

(* for item in urange(start, stop, step): the three are read before the   *)
(* loop.  The bound is kept until the header, and the step until the       *)
(* footer, as is the counter that is read in the header.                   *)
RangeItems(item, step, stop, start, counter, label) ==
  LET body == New(1) header == New(2) footer == New(3) next == New(4)
  IN <<Hold(step, footer), Hold(stop, body), Hold(start, next),
       UseKept(footer), UseKept(next), AssignTo(counter)>> \o
     EnterCounted(header, counter) \o
     <<UseKept(header), UseKept(body), Branch({body, next}),
       ActivateBlock(body), UseKept(header), AssignTo(item),
       Loop(footer, next, label),
       Goto(footer),
       TryActivate(footer,
         <<UseKept(header), UseKept(footer), AssignTo(counter),
           Goto(header)>>)>> \o
     LeaveCounted(header, next, {body, header, footer, next})

(* The same loop with the items reversed ("down"), or the index of an      *)
(* enumerate over them: the range is checked not to be empty first, its    *)
(* greatest item is computed, and the loop variable of the user is the     *)
(* counter.  It goes down to the start or up to the greatest item, one of  *)
(* which is kept until the footer, and the step until the increment.       *)
ReversedItems(item, step, stop, start, greatest, down, label) ==
  LET body == New(1) header == New(2) footer == New(3) increment == New(4)
      next == New(5)
      first == IF down THEN next ELSE footer
      last == IF down THEN footer ELSE next
  IN <<Hold(step, increment), Hold(stop, header), Hold(start, footer),
       UseKept(increment),
       UseKept(footer), UseKept(header), Branch({header, next}),
       ActivateBlock(header),
       UseKept(header), UseKept(footer), UseKept(increment),
       AssignTo(greatest), Hold(greatest, next),
       UseKept(first), AssignTo(item)>> \o
     EnterCounted(body, item) \o
     <<Loop(footer, next, label),
       Goto(footer),
       TryActivate(footer,
         <<UseKept(last), UseKept(body), Branch({increment, next}),
           ActivateBlock(increment),
           UseKept(body), UseKept(increment), AssignTo(item),
           Goto(body)>>)>> \o
     LeaveCounted(body, next, {body, header, footer, increment, next})

(* for item in an array: the array and the index are kept.  A loop over    *)
(* the reversed array counts down instead, in the body.                    *)
IndexedItems(item, array, index, down, label) ==
  LET body == New(1) header == New(2) footer == New(3) next == New(4)
  IN <<Hold(array, body), AssignTo(index), AssignTo(down)>> \o
     EnterCounted(header, index) \o
     <<UseKept(header), Branch({body, next}),
       ActivateBlock(body), UseKept(body), AssignTo(item),
       Loop(footer, next, label),
       Goto(footer),
       TryActivate(footer,
         <<UseKept(header), AssignTo(index), Goto(header)>>)>> \o
     LeaveCounted(header, next, {body, header})

IndexedDownItems(item, array, index, down, label) ==
  LET body == New(1) header == New(2) footer == New(3) next == New(4)
  IN <<Hold(array, body), AssignTo(index), AssignTo(down)>> \o
     EnterCounted(header, index) \o
     <<Use(down), Branch({body, next}),
       ActivateBlock(body), Use(down), AssignTo(down),
       UseKept(body), AssignTo(item),
       Loop(footer, next, label),
       Goto(footer), TryActivate(footer, <<Goto(header)>>)>> \o
     LeaveCounted(header, next, {body, header})

(* for item in a tuple of two values: both are read before the loop, and   *)
(* the second is kept until its header, which comes after the body.        *)
TupleItems_Rotated(item, first, second, counter, label) ==
  LET body == New(1) footer == New(2) next == New(3) header == New(4)
  IN <<Hold(first, footer), Hold(second, header),
       AssignTo(counter), UseKept(footer), AssignTo(item)>> \o
     EnterCounted(body, counter) \o
     <<Loop(footer, next, label),
       Goto(footer),
       TryActivate(footer,
         <<UseKept(body), AssignTo(counter), UseKept(header), AssignTo(item),
           Branch({body, next})>>)>> \o
     LeaveCounted(body, next, {body, footer, header})
TupleItems(item, first, second, counter, label) ==
  LET body == New(1) footer == New(2) next == New(3) header == New(4)
  IN <<Hold(first, footer), Hold(second, header),
       AssignTo(counter), UseKept(footer), AssignTo(item)>> \o
     EnterCounted(body, counter) \o
     <<Loop(footer, next, label),
       Goto(footer),
       TryActivate(footer,
         <<UseKept(body), Branch({header, next}),
           ActivateBlock(header),
           AssignTo(counter), UseKept(header), AssignTo(item),
           Goto(body)>>)>> \o
     LeaveCounted(body, next, {body, footer, header})

WithElse_Undefined(loop, label) ==
  IF label = NoLabel THEN loop
  ELSE <<Visit(NoLabel)>> \o loop \o <<Visit(NoLabel), Body>>

(* _build_loop: a loop with an else is a block with the loop, the else     *)
(* body and an empty block with the label that break jumps to.             *)
WithElse(loop, label) ==
  IF label = NoLabel THEN loop
  ELSE <<Visit(NoLabel)>> \o loop \o <<Visit(NoLabel), Body, Visit(label)>>

-----------------------------------------------------------------------------
(* The visitor                                                             *)

AtItem == Idle /\ todo # <<>>
item == Head(todo)
Doing(kind) == AtItem /\ item.do = kind
Done == todo' = Tail(todo)
Expand(items) == todo' = items \o Tail(todo)

(* The bounds of BraunSSA.                                                 *)
MayAddOp == NumOps < MaxOps
MayRead == Cardinality(reads) < MaxOps
MayTerminate(ts) ==
  Cardinality(ts) <= MaxTargets /\ NumEdges + Cardinality(ts) <= MaxEdges

(* Leaves the other parts of the visitor alone.                            *)
Only(t) == t /\ UNCHANGED <<held, loops, blockCount, labelCount, tempCount,
                            budget>>

DoGoto ==
  /\ Doing("goto")
  /\ \/ active \in terminated /\ UNCHANGED vars
     \/ MayTerminate({item.block}) /\ Terminate({item.block})
  /\ Only(Done)

DoActivate == Doing("activate") /\ Activate(item.block) /\ Only(Done)
DoOpen == Doing("open") /\ ActivateOpen(item.block) /\ Only(Done)
DoClose == Doing("close") /\ CloseOpen(item.block) /\ Only(Done)

DoTryActivate ==
  /\ Doing("try")
  /\ \/ /\ preds[item.block] # <<>>
        /\ Activate(item.block)
        /\ Only(Expand(item.then))
     \/ /\ preds[item.block] = <<>>
        /\ Only(Done)
        /\ UNCHANGED vars

DoBranch ==
  /\ Doing("branch")
  /\ MayTerminate(item.targets)
  /\ Terminate(item.targets)
  /\ Only(Done)

DoAssign == Doing("assign") /\ MayAddOp /\ Assign(item.var) /\ Only(Done)
DoUse == Doing("use") /\ MayAddOp /\ UseVariable(item.var) /\ Only(Done)

(* The register that the read returns is kept when it has returned.        *)
DoHold ==
  /\ Doing("hold")
  /\ MayRead
  /\ ReadVariable(item.var)
  /\ Only(Expand(<<Keep(item.key)>>))

DoKeep ==
  /\ Doing("keep")
  /\ held' = [k \in DOMAIN held \cup {item.key} |->
               IF k = item.key THEN ret ELSE held[k]]
  /\ Done
  /\ UNCHANGED <<vars, loops, blockCount, labelCount, tempCount, budget>>

(* BlocksBuilder.add of an op that has the register as an operand: what    *)
(* UseHeld is without its assumption on the register.                      *)
AddUseOf(r) ==
  /\ Open
  /\ AddOp([kind |-> "held", reg |-> r])
  /\ UNCHANGED <<blocks, preds, terminated, reads, ssaVars, callVars, fault,
                 finalised>>

DoUseHeld ==
  /\ Doing("useHeld")
  /\ MayAddOp
  /\ AddUseOf(held[item.key])
  /\ Only(Done)

DoRelease ==
  /\ Doing("release")
  /\ held' = Restrict(held, DOMAIN held \ item.keys)
  /\ Done
  /\ UNCHANGED <<vars, loops, blockCount, labelCount, tempCount, budget>>

(* enter_loop, around the body of the loop.                                *)
DoLoop ==
  /\ Doing("loop")
  /\ loops' = <<[cont |-> item.cont, brk |-> item.brk,
                 label |-> item.label]>> \o loops
  /\ Expand(<<Body, ExitLoop>>)
  /\ UNCHANGED <<vars, held, blockCount, labelCount, tempCount, budget>>

DoExitLoop ==
  /\ Doing("exit")
  /\ loops' = Tail(loops)
  /\ Done
  /\ UNCHANGED <<vars, held, blockCount, labelCount, tempCount, budget>>

(* process_conditional: an operand, or an "and" or "or" of two conditions. *)
ConditionOperand ==
  /\ Doing("cond")
  /\ \E v \in User :
       Only(Expand(<<Use(v), Branch({item.true, item.false})>>))
  /\ UNCHANGED vars

ConditionOperator ==
  /\ Doing("cond")
  /\ budget > 0
  /\ blockCount < MaxBlocks
  /\ LET contd == New(1)
     IN \E first \in {Cond(contd, item.false), Cond(item.true, contd)} :
          Expand(<<first, ActivateBlock(contd),
                   Cond(item.true, item.false)>>)
  /\ blockCount' = blockCount + 1
  /\ budget' = budget - 1
  /\ UNCHANGED <<vars, held, loops, labelCount, tempCount>>

(* visit_block: a new block when the label differs from the active one's.  *)
LabelOf(b) == IF b \in Labelled THEN b ELSE NoLabel
DoVisit ==
  /\ Doing("visit")
  /\ \/ /\ item.block = LabelOf(active)
        /\ Only(Done)
     \/ /\ item.block # LabelOf(active)
        /\ item.block # NoLabel
        /\ Only(Expand(<<Goto(item.block), ActivateBlock(item.block)>>))
     \/ /\ item.block # LabelOf(active)
        /\ item.block = NoLabel
        /\ blockCount < MaxBlocks
        /\ Expand(<<Goto(New(1)), ActivateBlock(New(1))>>)
        /\ blockCount' = blockCount + 1
        /\ UNCHANGED <<held, loops, labelCount, tempCount, budget>>
  /\ UNCHANGED vars

(* The end of a body.                                                      *)
EndBody == Doing("statements") /\ Only(Done) /\ UNCHANGED vars

(* The next statement of a body, with the blocks, labels and temporary     *)
(* names it creates.                                                       *)
Statement(kind, items, newBlocks, newLabels, newTemps) ==
  /\ Doing("statements")
  /\ active \notin terminated
  /\ kind \in Statements
  /\ budget > 0
  /\ blockCount + newBlocks <= MaxBlocks
  /\ labelCount + newLabels <= Cardinality(Labelled)
  /\ tempCount + newTemps <= Len(Temps)
  /\ todo' = items \o todo
  /\ budget' = budget - 1
  /\ blockCount' = blockCount + newBlocks
  /\ labelCount' = labelCount + newLabels
  /\ tempCount' = tempCount + newTemps
  /\ UNCHANGED <<vars, held, loops>>

InLoop == loops # <<>>
BreakTarget == IF Head(loops).label = NoLabel THEN Head(loops).brk
                                              ELSE Head(loops).label
NextLabel == MaxBlocks + labelCount + 1
NextTemp == Temps[tempCount + 1]
SecondTemp == Temps[tempCount + 2]

SimpleStatement ==
  \/ \E v \in User : \/ Statement("assign", <<AssignTo(v)>>, 0, 0, 0)
                     \/ Statement("use", <<Use(v)>>, 0, 0, 0)
  \/ Statement("return", <<Branch({})>>, 0, 0, 0)
  \/ InLoop /\ Statement("break", <<Goto(BreakTarget)>>, 0, 0, 0)
  \/ InLoop /\ Statement("continue", <<Goto(Head(loops).cont)>>, 0, 0, 0)

Conditional ==
  \/ Statement("if", IfItems, 2, 0, 0)
  \/ Statement("ifelse", IfElseItems, 3, 0, 0)
  \/ \E v \in User :
       tempCount < Len(Temps) /\
         Statement("ternary", TernaryItems(v, NextTemp), 3, 0, 1)
  \/ \E v \in User :
       \/ Statement("switch", SwitchItems(v, NextLabel), 2, 1, 0)
       \/ Statement("switch", SwitchDefaultItems(v, NextLabel), 3, 1, 0)

(* handle_for_in_loop, for a variable of the user and what it iterates     *)
(* over, with the temporary names of the loop.                             *)
For(kind, items, newBlocks, label, newTemps) ==
  Statement(kind, WithElse(items, label), newBlocks,
            IF label = NoLabel THEN 0 ELSE 1, newTemps)

ForInLoop(label) ==
  \E i \in User :
    \/ /\ tempCount < Len(Temps)
       /\ \/ \E step, stop, start \in User :
              \/ For("range",
                     RangeItems(i, step, stop, start, NextTemp, label),
                     4, label, 1)
              \/ \E down \in BOOLEAN :
                   For("reversed",
                       ReversedItems(i, step, stop, start, NextTemp, down,
                                     label),
                       5, label, 1)
          \/ \E first, second \in User :
               For("tuple", TupleItems(i, first, second, NextTemp, label),
                   4, label, 1)
    \/ /\ tempCount + 1 < Len(Temps)
       /\ \E a \in User :
         \E items \in {IndexedItems(i, a, NextTemp, SecondTemp, label),
                     IndexedDownItems(i, a, NextTemp, SecondTemp, label)} :
            For("indexed", items, 4, label, 2)

(* A loop, without or with an else.                                        *)
LoopStatement ==
  \E label \in {NoLabel} \cup (IF "else" \in Statements THEN {NextLabel}
                                                        ELSE {}) :
    \/ Statement("while", WithElse(WhileItems(label), label), 3,
                 IF label = NoLabel THEN 0 ELSE 1, 0)
    \/ ForInLoop(label)

(* The implicit return at the end of the function, and finalise.           *)
EndFunction ==
  /\ Doing("end")
  /\ \/ active \in terminated /\ UNCHANGED vars
     \/ MayTerminate({}) /\ Terminate({})
  /\ Only(Done)

DoFinalise == Doing("finalise") /\ Finalise /\ Only(Done)

Visitor ==
  \/ DoGoto \/ DoActivate \/ DoOpen \/ DoClose \/ DoTryActivate \/ DoBranch
  \/ DoAssign \/ DoUse \/ DoHold \/ DoKeep \/ DoUseHeld \/ DoRelease
  \/ DoLoop \/ DoExitLoop
  \/ ConditionOperand \/ ConditionOperator \/ DoVisit
  \/ EndBody \/ SimpleStatement \/ Conditional \/ LoopStatement
  \/ EndFunction \/ DoFinalise

(* The build is over: finished, or aborted by an error.  The program that  *)
(* was built may also stop at a return.                                    *)
Stopped == (finalised \/ fault # "none") /\ UNCHANGED <<vars, machine, visitor>>

FlowInit ==
  /\ Init
  /\ MachineInit
  /\ todo = <<Body, [do |-> "end"], [do |-> "finalise"]>>
  /\ held = <<>>
  /\ loops = <<>>
  /\ blockCount = 0
  /\ labelCount = 0
  /\ tempCount = 0
  /\ budget = MaxStatements

FlowNext ==
  \/ Visitor /\ UNCHANGED machine
  \/ Step /\ UNCHANGED <<machine, visitor>>
  \/ Execute /\ UNCHANGED visitor
  \/ Stopped

FlowSpec == FlowInit /\ [][FlowNext]_<<vars, machine, visitor>>

-----------------------------------------------------------------------------
(* Properties                                                              *)

(* No program makes the compiler blame itself: none of the InternalErrors  *)
(* of the SSA construction and of the blocks builder is raised.            *)
NoInternalError == fault = "none"

(* The errors other than the activation of a block that nothing jumps to.  *)
BlocksWellFormed == fault \in {"none", "no predecessors"}

(* A label that is jumped to is defined by the end of the function.        *)
LabelsAreFound ==
  finalised => \A b \in Labelled : preds[b] # <<>> => Activated(b)

(* A loop counter that a handler has kept since it opened the header is    *)
(* the value of the counter in the current iteration wherever it is used:  *)
(* in the header, in the body and, after any statements, in the footer; as *)
(* is the greatest item of a range that the loop computed before.          *)
CountersAreCurrent ==
  AtUse("held") /\ VarOf(NextOp.reg) \in Range(Temps)
    => NextOp.reg \in current

(* Blocks that control reaches without passing c.                          *)
ReachedWithout(c) ==
  LET within[k \in 0..Len(blocks)] ==
        IF k = 0 THEN {Entry} \ {c}
        ELSE LET B == within[k - 1]
             IN B \cup {d \in Range(blocks) \ {c} : Range(preds[d]) \cap B # {}}
  IN within[Len(blocks)]

(* What the way out of SSA form relies on (convert_to_cssa): a block with  *)
(* phis that control comes back to is jumped to from there, so that the    *)
(* copies for the phis are not executed on the way to another block.       *)
LoopHeadersAreJumpedTo ==
  finalised =>
    \A p \in phis : \A b \in Range(preds[p[1]]) :
      b \in ReachedWithout(p[1])
        \/ \A c \in Block : b \in Range(preds[c]) => c = p[1]

(* The handlers use the builder as its contract allows: they read, write   *)
(* and terminate only in an open block, activate no block twice, and use   *)
(* no register that the builder has removed.  What BraunSSA promises for   *)
(* any client holds for this one.                                          *)
ImplementsBraunSSA == Spec
=============================================================================
