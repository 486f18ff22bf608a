------------------------------ MODULE BraunSSA ------------------------------
(***************************************************************************)
(* On-the-fly construction of SSA form (puya/ir/ssa.py), driven through    *)
(* the block operations of puya/ir/builder/blocks.py.                      *)
(*                                                                         *)
(* read_variable, _add_phi_operands and _TrivialPhiRemover.try_remove are  *)
(* mutually recursive and mutate the graph between their recursive calls.  *)
(* The recursion is a stack of frames, "calls"; an action is one step of   *)
(* the frame on top.  The builder is single threaded, so a client          *)
(* operation starts only when the stack is empty, and the step of a        *)
(* non-empty stack is forced.                                              *)
(*                                                                         *)
(* The client of this module may call the block operations in any order:   *)
(* it can draw every control flow graph over Block, reducible or not.      *)
(* FlowControl restricts it to what the statement handlers really call.    *)
(*                                                                         *)
(* A definition F_Fault is F with a plausible mistake; it is used only to  *)
(* see that a property notices the mistake.                                *)
(***************************************************************************)
EXTENDS Integers, Sequences, FiniteSets, Functions

CONSTANTS
  Var,        \* source variables
  Param,      \* those that are parameters of the subroutine
  Block,      \* the BasicBlock objects the builder may create
  Entry,      \* the first of them, created by BlocksBuilder.__init__
  Labelled,   \* blocks with a user label, targets of goto statements
  NoReg,      \* "no register": KeyError in _current_def, None
  MaxOps,     \* bound: operations, and places of reads, of the subroutine
  MaxTargets, \* bound: distinct targets of a terminator
  MaxEdges    \* bound: edges of the graph

ASSUME ConstantsAssumption ==
  /\ Param \subseteq Var
  /\ Entry \in Block
  /\ Labelled \subseteq Block \ {Entry}
  /\ NoReg \notin Var \X Nat
  /\ MaxOps \in Nat
  /\ MaxTargets \in Nat
  /\ MaxEdges \in Nat

(* A Register is identified by its name and version; its type follows from *)
(* the name.                                                               *)
Reg == Var \X Nat
VarOf(r) == r[1]
VersionOf(r) == r[2]

(* A use of a register that the builder has read earlier and kept in a     *)
(* local variable of a handler is "held".                                  *)
Op == [kind : {"write", "read", "held"}, reg : Reg]

VARIABLES
  blocks,       \* BlocksBuilder._blocks: the activated blocks, in order
  preds,        \* BasicBlock._predecessors: insertion-ordered dict keys
  terminated,   \* blocks whose terminator is set
  ops,          \* BasicBlock.ops: the registers written and read
  reads,        \* history: the variables read, where and after which op
  sealed,       \* BraunSSA._sealed_blocks
  currentDef,   \* BraunSSA._current_def
  incomplete,   \* BraunSSA._incomplete_phis
  versions,     \* BraunSSA._variable_versions
  phis,         \* the phi nodes in the blocks: <<block, register>> pairs
  phiArgs,      \* their arguments
  undefinedRead,\* variables warned about: potentially used before assignment
  calls,        \* the call stack, the running frame first
  ret,          \* the register the last call returned
  removals,     \* trivial_replacements of the running _add_phi_operands
  fault,        \* the InternalError raised, or "none"
  finalised     \* BlocksBuilder.finalise has returned

cfgVars == <<blocks, preds, terminated, ops, reads>>
ssaVars == <<sealed, currentDef, incomplete, versions, phis, phiArgs,
             undefinedRead>>
callVars == <<calls, ret, removals>>
vars == <<cfgVars, ssaVars, callVars, fault, finalised>>

PhiArg == [phi : Reg, through : Block, value : Reg]
Removal == [phi : Reg, by : Reg]

Frame ==
       [at : {"read", "write"}, var : Var, block : Block]
  \cup [at : {"use"}]
  \cup [at : {"operands"}, phi : Reg, block : Block, todo : Seq(Block)]
  \cup [at : {"operand"}, phi : Reg, block : Block,
        todo : Seq(Block) \ {<<>>}]
  \cup [at : {"try", "result", "fixup"}, phi : Reg]
  \cup [at : {"users"}, users : SUBSET Reg]
  \cup [at : {"seal"}, block : Block]
  \cup [at : {"sealing"}, block : Block, todo : Seq(Reg)]
  \cup [at : {"finalise"}, blocks : SUBSET Block]

Faults == {"none", "sealed target", "not terminated", "no predecessors",
           "already sealed", "unterminated predecessor", "unsealed block",
           "incomplete phi", "removed incomplete phi", "tangled web"}

TypeOK ==
  /\ blocks \in Seq(Block) \ {<<>>}
  /\ preds \in [Block -> Seq(Block)]
  /\ terminated \subseteq Block
  /\ ops \in [Block -> Seq(Op)]
  /\ reads \subseteq Var \X Block \X Nat
  /\ sealed \subseteq Block
  /\ currentDef \in [Var \X Block -> Reg \cup {NoReg}]
  /\ incomplete \in [Block -> Seq(Reg)]
  /\ versions \in [Var -> Nat]
  /\ phis \subseteq Block \X Reg
  /\ phiArgs \subseteq PhiArg
  /\ undefinedRead \subseteq Var
  /\ calls \in Seq(Frame)
  /\ ret \in Reg \cup {NoReg}
  /\ removals \in Seq(Removal)
  /\ fault \in Faults
  /\ finalised \in BOOLEAN

-----------------------------------------------------------------------------
(* Queries                                                                 *)

PhiRegs == {p[2] : p \in phis}
ParamRegs == Param \X {0}
WrittenRegs == {o.reg : o \in {x \in UNION {Range(ops[b]) : b \in Block} :
                                 x.kind = "write"}}
DefinedRegs == PhiRegs \cup ParamRegs \cup WrittenRegs
active == blocks[Len(blocks)]
Activated(b) == b \in Range(blocks)

(* BasicBlock.add_predecessor on the dict's keys.                          *)
AddPred(ps, b) == IF b \in Range(ps) THEN ps ELSE Append(ps, b)

(* Phi.non_self_args, as the set of values try_remove builds from it.      *)
NonSelfArgs(p) == {a.value : a \in {x \in phiArgs : x.phi = p}} \ {p}

(* _TrivialPhiRemover: the phis that are still in a block and have the     *)
(* removed register among their arguments.                                 *)
UsersOf_Forgotten(p) == {}
UsersOf(p) == {a.phi : a \in {x \in phiArgs : x.value = p}}
              \cap (PhiRegs \ {p})

Replace(r, p, by) == IF r = p THEN by ELSE r

-----------------------------------------------------------------------------
(* The frames of a call                                                    *)

Push(fs) == calls' = fs \o calls
Return(r) == calls' = Tail(calls) /\ ret' = r
Become(fs) == calls' = fs \o Tail(calls)
Raise(f) == fault' = f /\ calls' = <<>>

Running(at) == calls # <<>> /\ Head(calls).at = at /\ fault = "none"
top == Head(calls)

ReadFrame(v, b) == [at |-> "read", var |-> v, block |-> b]
WriteFrame(v, b) == [at |-> "write", var |-> v, block |-> b]
OperandsFrame(p, b, ps) ==
  [at |-> "operands", phi |-> p, block |-> b, todo |-> ps]
OperandFrame(p, b, ps) ==
  [at |-> "operand", phi |-> p, block |-> b, todo |-> ps]
PhiFrame(at, p) == [at |-> at, phi |-> p]
UsersFrame(us) == [at |-> "users", users |-> us]
SealFrame(b) == [at |-> "seal", block |-> b]
SealingFrame(b, ps) == [at |-> "sealing", block |-> b, todo |-> ps]
FinaliseFrame(bs) == [at |-> "finalise", blocks |-> bs]
UseFrame == [at |-> "use"]

NewRegister(v) == <<v, versions[v]>>
(* new_register bumps the version; _new_phi adds the phi to its block.     *)
BumpVersion_Reused(v) == UNCHANGED versions
BumpVersion(v) == versions' = [versions EXCEPT ![v] = @ + 1]
NewPhi(v, b) ==
  /\ BumpVersion(v)
  /\ phis' = phis \cup {<<b, NewRegister(v)>>}

WriteVariable(v, b, r) == currentDef' = [currentDef EXCEPT ![<<v, b>>] = r]

-----------------------------------------------------------------------------
(* read_variable and _read_variable_recursive                              *)

Reading == Running("read")
Found_Always == TRUE
Found == currentDef[<<top.var, top.block>>] # NoReg
Missing == Reading /\ ~Found

ReadLocal ==
  /\ Reading
  /\ Found
  /\ Return(currentDef[<<top.var, top.block>>])
  /\ UNCHANGED <<cfgVars, ssaVars, removals, fault, finalised>>

(* The graph is incomplete here: remember an operandless phi.              *)
ReadUnsealed ==
  /\ Missing
  /\ top.block \notin sealed
  /\ LET p == NewRegister(top.var)
     IN /\ NewPhi(top.var, top.block)
        /\ incomplete' = [incomplete EXCEPT ![top.block] = Append(@, p)]
        /\ WriteVariable(top.var, top.block, p)
        /\ Return(p)
  /\ UNCHANGED <<cfgVars, sealed, phiArgs, undefinedRead, removals, fault,
                 finalised>>

OnePredecessor_Unsealed == Len(preds[top.block]) = 1
OnePredecessor == top.block \in sealed /\ Len(preds[top.block]) = 1

ReadSinglePredecessor ==
  /\ Missing
  /\ OnePredecessor
  /\ Become(<<ReadFrame(top.var, Head(preds[top.block])),
              WriteFrame(top.var, top.block)>>)
  /\ UNCHANGED <<cfgVars, ssaVars, ret, removals, fault, finalised>>

(* An operandless phi is written first, to break cycles.                   *)
ReadJoin ==
  /\ Missing
  /\ top.block \in sealed
  /\ Len(preds[top.block]) # 1
  /\ LET p == NewRegister(top.var)
     IN /\ NewPhi(top.var, top.block)
        /\ WriteVariable(top.var, top.block, p)
        /\ Become(<<OperandsFrame(p, top.block, preds[top.block]),
                    WriteFrame(top.var, top.block)>>)
  /\ UNCHANGED <<cfgVars, sealed, incomplete, phiArgs, undefinedRead, ret,
                 removals, fault, finalised>>

WriteBack ==
  /\ Running("write")
  /\ WriteVariable(top.var, top.block, ret)
  /\ Return(ret)
  /\ UNCHANGED <<cfgVars, sealed, incomplete, versions, phis, phiArgs,
                 undefinedRead, removals, fault, finalised>>

-----------------------------------------------------------------------------
(* _add_phi_operands                                                       *)

ReadOperand ==
  /\ Running("operands")
  /\ top.todo # <<>>
  /\ Become(<<ReadFrame(VarOf(top.phi), Head(top.todo)),
              OperandFrame(top.phi, top.block, top.todo)>>)
  /\ UNCHANGED <<cfgVars, ssaVars, ret, removals, fault, finalised>>

NextOperand_Eager == <<PhiFrame("try", top.phi),
                       OperandsFrame(top.phi, top.block, Tail(top.todo))>>
NextOperand == <<OperandsFrame(top.phi, top.block, Tail(top.todo))>>

AppendOperand ==
  /\ Running("operand")
  /\ phiArgs' = phiArgs \cup
       {[phi |-> top.phi, through |-> Head(top.todo), value |-> ret]}
  /\ Become(NextOperand)
  /\ UNCHANGED <<cfgVars, sealed, currentDef, incomplete, versions, phis,
                 undefinedRead, ret, removals, fault, finalised>>

OperandsComplete ==
  /\ Running("operands")
  /\ top.todo = <<>>
  /\ removals' = <<>>
  /\ Become(<<PhiFrame("try", top.phi), PhiFrame("result", top.phi)>>)
  /\ UNCHANGED <<cfgVars, ssaVars, ret, fault, finalised>>

(* The first replacement is the result, unless it is replaced itself.      *)
CollectResult ==
  /\ Running("result")
  /\ IF removals = <<>>
       THEN Return(top.phi)
       ELSE /\ ret' = removals[1].by
            /\ Become(<<PhiFrame("fixup", top.phi)>>)
  /\ UNCHANGED <<cfgVars, ssaVars, removals, fault, finalised>>

RemovedIncomplete(p) == \E b \in Block : p \in Range(incomplete[b])

ReplaceDefinitions_Skipped(v, p, by) == currentDef

ReplaceDefinitions(v, p, by) ==
  [d \in Var \X Block |-> IF d[1] = v THEN Replace(currentDef[d], p, by)
                                      ELSE currentDef[d]]

(* One iteration of the loop over trivial_replacements: the replacement is *)
(* recorded in the variable cache.                                         *)
FixupDefinitions ==
  /\ Running("fixup")
  /\ removals # <<>>
  /\ LET p == Head(removals).phi
         by == Head(removals).by
         v == VarOf(top.phi)
     IN \/ /\ RemovedIncomplete(p)
           /\ Raise("removed incomplete phi")
           /\ UNCHANGED <<currentDef, ret, removals>>
        \/ /\ ~RemovedIncomplete(p)
           /\ VarOf(by) # v
           /\ Raise("tangled web")
           /\ UNCHANGED <<currentDef, ret, removals>>
        \/ /\ ~RemovedIncomplete(p)
           /\ VarOf(by) = v
           /\ ret' = Replace(ret, p, by)
           /\ currentDef' = ReplaceDefinitions(v, p, by)
           /\ removals' = Tail(removals)
           /\ UNCHANGED <<calls, fault>>
  /\ UNCHANGED <<cfgVars, sealed, incomplete, versions, phis, phiArgs,
                 undefinedRead, finalised>>

FixupComplete ==
  /\ Running("fixup")
  /\ removals = <<>>
  /\ Return(ret)
  /\ UNCHANGED <<cfgVars, ssaVars, removals, fault, finalised>>

-----------------------------------------------------------------------------
(* _TrivialPhiRemover.try_remove                                           *)

Warn_Silent(v) == UNCHANGED undefinedRead
Warn(v) == undefinedRead' = undefinedRead \cup {v}

(* No argument but itself: the variable is read before any assignment.     *)
TryUndefined ==
  /\ Running("try")
  /\ NonSelfArgs(top.phi) = {}
  /\ Warn(VarOf(top.phi))
  /\ Return(ret)
  /\ UNCHANGED <<cfgVars, sealed, currentDef, incomplete, versions, phis,
                 phiArgs, removals, fault, finalised>>

TryNotTrivial ==
  /\ Running("try")
  /\ \E r1, r2 \in NonSelfArgs(top.phi) : r1 # r2
  /\ Return(ret)
  /\ UNCHANGED <<cfgVars, ssaVars, removals, fault, finalised>>

ReplaceInOps_Not(p, by) == UNCHANGED ops
ReplaceInOps(p, by) ==
  ops' = [b \in Block |-> [i \in DOMAIN ops[b] |->
            IF ops[b][i].kind = "write"
              THEN ops[b][i]
              ELSE [ops[b][i] EXCEPT !.reg = Replace(@, p, by)]]]

(* The replacer rewrites every use of the phi in the activated blocks and  *)
(* deletes it; the arguments of a phi that is in no block (the removed one *)
(* too) are out of its reach.                                              *)
ReplacePhi(p, by) ==
  /\ phis' = {q \in phis : q[2] # p}
  /\ phiArgs' = {IF a.phi \in PhiRegs \ {p}
                   THEN [a EXCEPT !.value = Replace(@, p, by)]
                   ELSE a : a \in phiArgs}
  /\ ReplaceInOps(p, by)

TryTrivial ==
  /\ Running("try")
  /\ \E by \in NonSelfArgs(top.phi) :
       /\ NonSelfArgs(top.phi) = {by}
       /\ ReplacePhi(top.phi, by)
       /\ removals' = Append(removals, [phi |-> top.phi, by |-> by])
  /\ Become(<<UsersFrame(UsersOf(top.phi))>>)
  /\ UNCHANGED <<blocks, preds, terminated, reads, sealed, currentDef,
                 incomplete, versions, undefinedRead, ret, fault, finalised>>

(* A user of the removed phi may have become trivial.  The order of the    *)
(* users is that of the blocks; here it is any.                            *)
TryUsers ==
  /\ Running("users")
  /\ \/ /\ top.users = {}
        /\ Return(ret)
     \/ \E u \in top.users :
          /\ Become(<<PhiFrame("try", u), UsersFrame(top.users \ {u})>>)
          /\ UNCHANGED ret
  /\ UNCHANGED <<cfgVars, ssaVars, removals, fault, finalised>>

-----------------------------------------------------------------------------
(* seal_block                                                              *)

TakeIncomplete_Kept(b) == UNCHANGED incomplete
TakeIncomplete(b) == incomplete' = [incomplete EXCEPT ![b] = <<>>]

StartSeal ==
  /\ Running("seal")
  /\ LET b == top.block
     IN \/ /\ b \in sealed
           /\ Raise("already sealed")
           /\ UNCHANGED incomplete
        \/ /\ b \notin sealed
           /\ ~(Range(preds[b]) \subseteq terminated)
           /\ Raise("unterminated predecessor")
           /\ UNCHANGED incomplete
        \/ /\ b \notin sealed
           /\ Range(preds[b]) \subseteq terminated
           /\ Become(<<SealingFrame(b, incomplete[b])>>)
           /\ TakeIncomplete(b)
           /\ UNCHANGED fault
  /\ UNCHANGED <<cfgVars, sealed, currentDef, versions, phis, phiArgs,
                 undefinedRead, ret, removals, finalised>>

OtherPhis_Again == top.todo
OtherPhis == Tail(top.todo)

(* The operands of the incomplete phis; the block stays unsealed meanwhile. *)
CompletePhi ==
  /\ Running("sealing")
  /\ top.todo # <<>>
  /\ Become(<<OperandsFrame(Head(top.todo), top.block, preds[top.block]),
              SealingFrame(top.block, OtherPhis)>>)
  /\ UNCHANGED <<cfgVars, ssaVars, ret, removals, fault, finalised>>

SealComplete ==
  /\ Running("sealing")
  /\ top.todo = <<>>
  /\ sealed' = sealed \cup {top.block}
  /\ Return(ret)
  /\ UNCHANGED <<cfgVars, currentDef, incomplete, versions, phis, phiArgs,
                 undefinedRead, removals, fault, finalised>>

-----------------------------------------------------------------------------
(* The block operations (puya/ir/builder/blocks.py)                        *)

Idle == calls = <<>> /\ fault = "none" /\ ~finalised
Open == Idle /\ active \notin terminated
NumEdges == Cardinality(UNION {{b} \X (1..Len(preds[b])) : b \in Block})
NumOps == Cardinality(UNION {{b} \X (1..Len(ops[b])) : b \in Block})

AddOp(o) == ops' = [ops EXCEPT ![active] = Append(@, o)]

NoteRead(v) == reads' = reads \cup {<<v, active, Len(ops[active])>>}

(* new_register, write_variable and BlocksBuilder.add of an Assignment.    *)
Assign(v) ==
  /\ Open
  /\ BumpVersion(v)
  /\ WriteVariable(v, active, NewRegister(v))
  /\ AddOp([kind |-> "write", reg |-> NewRegister(v)])
  /\ UNCHANGED <<blocks, preds, terminated, reads, sealed, incomplete, phis,
                 phiArgs, undefinedRead, callVars, fault, finalised>>

(* visit_var_expression: the register read is kept by the caller.          *)
ReadVariable(v) ==
  /\ Open
  /\ Push(<<ReadFrame(v, active)>>)
  /\ NoteRead(v)
  /\ UNCHANGED <<blocks, preds, terminated, ops, ssaVars, ret, removals, fault,
                 finalised>>

(* visit_var_expression, and an op that consumes the register read.        *)
UseVariable(v) ==
  /\ Open
  /\ Push(<<ReadFrame(v, active), UseFrame>>)
  /\ NoteRead(v)
  /\ UNCHANGED <<blocks, preds, terminated, ops, ssaVars, ret, removals, fault,
                 finalised>>

AddUse ==
  /\ Running("use")
  /\ AddOp([kind |-> "read", reg |-> ret])
  /\ Return(ret)
  /\ UNCHANGED <<blocks, preds, terminated, reads, ssaVars, removals, fault,
                 finalised>>

(* An op on a register that an earlier read returned; a register that has  *)
(* been removed since is not one the client may still use.                 *)
UseHeld(r) ==
  /\ Open
  /\ r \in DefinedRegs
  /\ AddOp([kind |-> "held", reg |-> r])
  /\ UNCHANGED <<blocks, preds, terminated, reads, ssaVars, callVars, fault,
                 finalised>>

SealedTarget_Ignored(ts) == FALSE
SealedTarget(ts) == ts \cap sealed # {}

(* maybe_terminate with a ControlOp that has the targets ts.  A block is a *)
(* successor of the blocks it is a predecessor of.                         *)
Terminate(ts) ==
  /\ Open
  /\ \/ /\ SealedTarget(ts)
        /\ Raise("sealed target")
        /\ UNCHANGED <<preds, terminated>>
     \/ /\ ~SealedTarget(ts)
        /\ preds' = [b \in Block |-> IF b \in ts
                                       THEN AddPred(preds[b], active)
                                       ELSE preds[b]]
        /\ terminated' = terminated \cup {active}
        /\ UNCHANGED <<calls, fault>>
  /\ UNCHANGED <<blocks, ops, reads, ssaVars, ret, removals, finalised>>

(* _activate_block, with the frames to run afterwards.                     *)
ActivateThen(b, fs) ==
  /\ Idle
  /\ ~Activated(b)
  /\ \/ /\ active \notin terminated
        /\ Raise("not terminated")
        /\ UNCHANGED blocks
     \/ /\ active \in terminated
        /\ preds[b] = <<>>
        /\ Raise("no predecessors")
        /\ UNCHANGED blocks
     \/ /\ active \in terminated
        /\ preds[b] # <<>>
        /\ blocks' = Append(blocks, b)
        /\ Push(fs)
        /\ UNCHANGED fault
  /\ UNCHANGED <<preds, terminated, ops, reads, ssaVars, ret, removals,
                 finalised>>

(* _seal_block_if_unlabelled                                               *)
SealIfUnlabelled(b) == IF b \in Labelled THEN <<>> ELSE <<SealFrame(b)>>

Activate(b) == ActivateThen(b, SealIfUnlabelled(b))

(* activate_open_block: entering, and leaving the context.                 *)
ActivateOpen(b) == ActivateThen(b, <<>>)
CloseOpen(b) ==
  /\ Idle
  /\ Activated(b)
  /\ Push(SealIfUnlabelled(b))
  /\ UNCHANGED <<cfgVars, ssaVars, ret, removals, fault, finalised>>

(* A label that was jumped to but never defined is only logged as an error; *)
(* the labelled blocks that exist are sealed, in the order of their        *)
(* creation (here any order).                                              *)
Finalise ==
  /\ Idle
  /\ active \in terminated
  /\ Push(<<FinaliseFrame(Labelled \cap Range(blocks))>>)
  /\ UNCHANGED <<cfgVars, ssaVars, ret, removals, fault, finalised>>

FinaliseSeal ==
  /\ Running("finalise")
  /\ \E b \in top.blocks :
       Become(<<SealFrame(b), FinaliseFrame(top.blocks \ {b})>>)
  /\ UNCHANGED <<cfgVars, ssaVars, ret, removals, fault, finalised>>

(* verify_complete                                                         *)
FinaliseComplete ==
  /\ Running("finalise")
  /\ top.blocks = {}
  /\ \/ /\ ~(Range(blocks) \subseteq sealed)
        /\ Raise("unsealed block")
        /\ UNCHANGED <<ret, finalised>>
     \/ /\ Range(blocks) \subseteq sealed
        /\ \E b \in Block : incomplete[b] # <<>>
        /\ Raise("incomplete phi")
        /\ UNCHANGED <<ret, finalised>>
     \/ /\ Range(blocks) \subseteq sealed
        /\ \A b \in Block : incomplete[b] = <<>>
        /\ finalised' = TRUE
        /\ Return(ret)
        /\ UNCHANGED fault
  /\ UNCHANGED <<cfgVars, ssaVars, removals>>

-----------------------------------------------------------------------------
Init ==
  /\ blocks = <<Entry>>
  /\ preds = [b \in Block |-> <<>>]
  /\ terminated = {}
  /\ ops = [b \in Block |-> <<>>]
  /\ reads = {}
  /\ sealed = {Entry}
  /\ currentDef = [d \in Var \X Block |->
       IF d[1] \in Param /\ d[2] = Entry THEN <<d[1], 0>> ELSE NoReg]
  /\ incomplete = [b \in Block |-> <<>>]
  /\ versions = [v \in Var |-> IF v \in Param THEN 1 ELSE 0]
  /\ phis = {}
  /\ phiArgs = {}
  /\ undefinedRead = {}
  /\ calls = <<>>
  /\ ret = NoReg
  /\ removals = <<>>
  /\ fault = "none"
  /\ finalised = FALSE

(* A step of the call in progress.                                         *)
Step ==
  \/ ReadLocal \/ ReadUnsealed \/ ReadSinglePredecessor \/ ReadJoin
  \/ WriteBack
  \/ ReadOperand \/ AppendOperand \/ OperandsComplete
  \/ CollectResult \/ FixupDefinitions \/ FixupComplete
  \/ TryUndefined \/ TryNotTrivial \/ TryTrivial \/ TryUsers
  \/ StartSeal \/ CompletePhi \/ SealComplete
  \/ AddUse \/ FinaliseSeal \/ FinaliseComplete

Client ==
  \/ NumOps < MaxOps /\ \E v \in Var : Assign(v) \/ UseVariable(v)
  \/ NumOps < MaxOps /\ \E r \in DefinedRegs : UseHeld(r)
  \/ Cardinality(reads) < MaxOps /\ \E v \in Var : ReadVariable(v)
  \/ \E ts \in SUBSET Block :
       /\ Cardinality(ts) <= MaxTargets
       /\ Terminate(ts)
       /\ NumEdges + Cardinality(ts) <= MaxEdges
  \/ \E b \in Block : Activate(b) \/ ActivateOpen(b) \/ CloseOpen(b)
  \/ Finalise

Next == Client \/ Step

Spec == Init /\ [][Next]_vars

-----------------------------------------------------------------------------
(* Properties                                                              *)

(* A frame that uses the result of a call, and a frame that ends without   *)
(* giving one.  The first is never right below the second, and when it     *)
(* runs there is a result: no operation takes the absence of a register    *)
(* for a register.                                                         *)
Consumers == {"write", "operand", "use", "fixup"}
Silent == {"try", "users", "seal", "sealing", "finalise"}
ResultsAreGiven ==
  /\ \A i \in 1..(Len(calls) - 1) :
       calls[i].at \in Silent => calls[i + 1].at \notin Consumers
  /\ calls # <<>> /\ Head(calls).at \in Consumers => ret \in Reg

(* The SSA constraint (Subroutine.validate_with_ssa): no register is       *)
(* assigned by two phis, by two ops, by a phi and an op, or by either when *)
(* it is a parameter; at every moment of the construction.                 *)
SingleAssignment ==
  /\ \A p, q \in phis : p[2] = q[2] => p = q
  /\ \A b, c \in Block : \A i \in DOMAIN ops[b], j \in DOMAIN ops[c] :
       ops[b][i].kind = "write" /\ ops[c][j] = ops[b][i]
         => <<b, i>> = <<c, j>>
  /\ PhiRegs \cap WrittenRegs = {}
  /\ (PhiRegs \cup WrittenRegs) \cap ParamRegs = {}

(* What makes it so: a version is used only when the variable's counter    *)
(* has passed it.                                                          *)
VersionsIssued == \A r \in DefinedRegs : VersionOf(r) < versions[VarOf(r)]

(* The caches that outlive a call never name a removed phi: between two    *)
(* operations of the builder every current definition is a register that   *)
(* is still defined (the fix-up in _add_phi_operands).                     *)
CacheIsLive ==
  Idle => Range(currentDef) \subseteq DefinedRegs \cup {NoReg}

(* "The following variables are used but never defined" is never raised    *)
(* (Subroutine._check_blocks): each op and each argument of a phi reads a  *)
(* defined register, even in the middle of a removal of trivial phis.      *)
UsesAreDefined ==
  /\ \A b \in Block : \A o \in Range(ops[b]) : o.reg \in DefinedRegs
  /\ \A a \in phiArgs : a.phi \in PhiRegs => a.value \in DefinedRegs

Through(p) == {a.through : a \in {x \in phiArgs : x.phi = p}}
PhiComplete(p) == Through(p[2]) = Range(preds[p[1]])

(* Each phi of a finished subroutine has one argument for each predecessor *)
(* of its block ("mismatch between phi predecessors and block              *)
(* predecessors" is never raised).                                         *)
PhisMatchPredecessors ==
  finalised => /\ \A p \in phis : PhiComplete(p)
               /\ \A a, c \in phiArgs :
                    /\ a.phi \in PhiRegs
                    /\ a.phi = c.phi
                    /\ a.through = c.through
                    => a = c

(* A phi is judged trivial only when it has all its operands: the removal  *)
(* of one phi, which retries its users, never meets a user that an outer   *)
(* _add_phi_operands has filled halfway or not at all.                     *)
OnlyCompletePhisTried ==
  Running("try") => \A p \in phis : p[2] = top.phi => PhiComplete(p)

(* No trivial phi survives: the removal of one makes its users be looked   *)
(* at again, whatever the graph (Braun et al., section 3.1).               *)
NoTrivialPhiLeft ==
  Idle => \A p \in phis :
            PhiComplete(p) /\ p[1] \in sealed
              => Cardinality(NonSelfArgs(p[2])) # 1

(* The errors that mean "a bug in this algorithm itself" never happen,     *)
(* however the block operations are called.                                *)
AlgorithmFaults == {"incomplete phi", "removed incomplete phi",
                    "tangled web"}
NoAlgorithmFault == fault \notin AlgorithmFaults

(* The mutual recursion of read_variable, _add_phi_operands and try_remove *)
(* ends, in cyclic graphs too: each operation of the builder returns.      *)
CallsReturn == calls # <<>> ~> calls = <<>>

(* Blocks that control can reach with v not yet assigned: the least set    *)
(* that has the entry and is closed under the edges that leave blocks      *)
(* without an assignment to v.                                             *)
Writes(v, b) == \E o \in Range(ops[b]) :
                  o.kind = "write" /\ VarOf(o.reg) = v
ReachUnassigned(v) ==
  {b \in Block : \A S \in SUBSET Block :
     /\ Entry \in S
     /\ \A c, d \in Block :
          c \in S /\ ~Writes(v, c) /\ c \in Range(preds[d]) => d \in S
     => b \in S}
ReadsUnassigned(v) ==
  \E r \in reads :
    /\ r[1] = v
    /\ r[2] \in ReachUnassigned(v)
    /\ \A j \in 1..r[3] : LET o == ops[r[2]][j]
                         IN ~(o.kind = "write" /\ VarOf(o.reg) = v)

(* "Variable potentially used before assignment" is warned about in a      *)
(* finished subroutine exactly when some path from the entry reaches a     *)
(* read of the variable with no assignment before it.                      *)
WarnedWhenUnassigned ==
  finalised => \A v \in Var \ Param : v \in undefinedRead <=> ReadsUnassigned(v)
=============================================================================
