---------------------------- MODULE SSAExecution ----------------------------
(***************************************************************************)
(* The meaning of the SSA form that BraunSSA builds: once the builder has  *)
(* finalised a subroutine, control walks its blocks along any path, and    *)
(* each register holds some value.  Which value does not matter, only      *)
(* whether it is the one that the source program's variable has at that    *)
(* moment, so the state of the machine is the set of registers that hold   *)
(* the current value of their variable.                                    *)
(*                                                                         *)
(* The semantics is the one puya/ir/models.py gives to its ops: an         *)
(* assignment writes its target register, and the phis of a block execute  *)
(* in parallel when the block is entered, each taking the argument that    *)
(* came through the predecessor.                                           *)
(*                                                                         *)
(* A definition F_Fault is F with a plausible mistake; it is used only to  *)
(* see that a property notices the mistake.                                *)
(***************************************************************************)
EXTENDS BraunSSA

VARIABLES
  at,         \* the block and the index of the op that runs next
  current,    \* registers that hold the current value of their variable
  written,    \* registers that hold a value
  unassigned  \* variables that no op has assigned on the path taken

machine == <<at, current, written, unassigned>>

NextOp == ops[at.block][at.op]
AtOp == finalised /\ at.op \in DOMAIN ops[at.block]
AtUse(kind) == AtOp /\ NextOp.kind = kind

ExecWrite ==
  /\ AtUse("write")
  /\ LET r == NextOp.reg
     IN /\ current' = {q \in current : VarOf(q) # VarOf(r)} \cup {r}
        /\ written' = written \cup {r}
        /\ unassigned' = unassigned \ {VarOf(r)}
  /\ at' = [at EXCEPT !.op = @ + 1]
  /\ UNCHANGED vars

(* A read or held use only consumes its register.                          *)
ExecUse ==
  /\ AtUse("read") \/ AtUse("held")
  /\ at' = [at EXCEPT !.op = @ + 1]
  /\ UNCHANGED <<vars, current, written, unassigned>>

PhisOf(b) == {p[2] : p \in {q \in phis : q[1] = b}}

(* The phis of c that take a register of S when c is entered from b.       *)
Taken(b, c, S) ==
  {p \in PhisOf(c) : \E a \in phiArgs :
     a.phi = p /\ a.through = b /\ a.value \in S}

(* The terminator: a jump to any successor, whose phis run in parallel.    *)
ExecJump(c) ==
  /\ finalised
  /\ ~AtOp
  /\ at.block \in Range(preds[c])
  /\ Activated(c)
  /\ at' = [block |-> c, op |-> 1]
  /\ current' = (current \ PhisOf(c)) \cup Taken(at.block, c, current)
  /\ written' = (written \ PhisOf(c)) \cup Taken(at.block, c, written)
  /\ UNCHANGED <<vars, unassigned>>

Execute == ExecWrite \/ ExecUse \/ \E c \in Block : ExecJump(c)

MachineInit ==
  /\ at = [block |-> Entry, op |-> 1]
  /\ current = ParamRegs
  /\ written = ParamRegs
  /\ unassigned = Var \ Param

ExecInit == Init /\ MachineInit
ExecNext == (Next /\ UNCHANGED machine) \/ Execute
ExecSpec == ExecInit /\ [][ExecNext]_<<vars, machine>>

(* The builder is single threaded: a call that has begun runs to its end.  *)
(* Nothing else need ever happen.                                          *)
FairExecSpec == ExecSpec /\ WF_vars(Step)

-----------------------------------------------------------------------------
(* Properties                                                              *)

(* The SSA form computes what the source program computes: on every path,  *)
(* each read of a variable finds, in the register the builder chose for    *)
(* it, the value most recently assigned to the variable.                   *)
ReadsAreCurrent ==
  AtUse("read") => \/ NextOp.reg \in current
                   \/ VarOf(NextOp.reg) \in unassigned

(* Each use of a register, the kept ones too, comes after the register was *)
(* written (definitions dominate their uses), unless the variable was      *)
(* warned about as potentially used before assignment.                     *)
UsesAreDominated ==
  AtUse("read") \/ AtUse("held") => \/ NextOp.reg \in written
                                    \/ VarOf(NextOp.reg) \in undefinedRead
=============================================================================
