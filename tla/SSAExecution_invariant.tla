----------------------- MODULE SSAExecution_invariant -----------------------
(***************************************************************************)
(* Why the SSA form means what the program means: the invariant of the     *)
(* construction that ReadsAreCurrent and WarnedWhenUnassigned rest on.  It *)
(* has a witness, a set E of pairs of a register and a block: wherever     *)
(* control comes from, the register holds the value of its variable on     *)
(* entry to the block.                                                     *)
(***************************************************************************)
EXTENDS BraunSSA_invariant, SSAExecution

Assigns(o, v) == o.kind = "write" /\ VarOf(o.reg) = v

(* The register r holds the value of its variable before op i of b, and at *)
(* the end of b; s is the ops of b.                                        *)
ReachesIn(s, E, r, b, i) ==
  \/ \E j \in 1..(i - 1) :
       /\ s[j].kind = "write" /\ s[j].reg = r
       /\ \A k \in (j + 1)..(i - 1) : ~Assigns(s[k], VarOf(r))
  \/ /\ \A j \in 1..(i - 1) : ~Assigns(s[j], VarOf(r))
     /\ <<r, b>> \in E
Reaches(E, r, b, i) == ReachesIn(ops[b], E, r, b, i)
Leaves(E, r, b) == Reaches(E, r, b, Len(ops[b]) + 1)

NoWrite(v, b) == \A j \in DOMAIN ops[b] : ~Assigns(ops[b][j], v)

IsSealing(b) == \E f \in Frames : f.at = "sealing" /\ f.block = b

-----------------------------------------------------------------------------
(* The graph                                                               *)

(* Nothing jumps to the entry, and no parameter is looked up there.        *)
EntryOK ==
  /\ Entry \in sealed
  /\ preds[Entry] = <<>>
  /\ \A v \in Param : currentDef[<<v, Entry>>] # NoReg
  /\ \A p \in phis : p[1] = Entry => VarOf(p[2]) \notin Param

PredecessorsTerminated == \A b \in Block : Range(preds[b]) \subseteq terminated

(* The registers that hold no value on entry but by a phi of the block:    *)
(* every predecessor hands them over.                                      *)
Inherited(E) ==
  \A r \in DefinedRegs, b \in Block :
    <<r, b>> \in E /\ <<b, r>> \notin phis =>
      /\ \A q \in Range(preds[b]) : Leaves(E, r, q)
      /\ b = Entry => r \in ParamRegs
      /\ b \in sealed \/ IsSealing(b) \/ fault # "none"

EntriesOK(E) ==
  /\ \A e \in E : IsIssued(e[1], versions)
  /\ \A p \in phis : <<p[2], p[1]>> \in E
  /\ Inherited(E)

-----------------------------------------------------------------------------
(* What the builder knows                                                  *)

ArgsLeave(E) ==
  \A a \in phiArgs : a.phi \in PhiRegs => Leaves(E, a.value, a.through)

CacheLeaves(E) ==
  \A v \in Var, b \in Block :
    IF currentDef[<<v, b>>] = NoReg
    THEN NoWrite(v, b)
    ELSE Leaves(E, currentDef[<<v, b>>], b)

ReadsReach(E) ==
  \A b \in Block : \A i \in DOMAIN ops[b] :
    ops[b][i].kind = "read" => Reaches(E, ops[b][i].reg, b, i)

(* A removed phi is known to hold a value only where what replaces it does.*)
ReplacementsHold(E) ==
  \A x \in Range(removals) :
    /\ NonSelfArgs(x.phi) \subseteq {x.by}
    /\ \A b \in Block : <<x.phi, b>> \in E => <<x.by, b>> \in E

-----------------------------------------------------------------------------
(* The calls                                                               *)

(* Where the value of a read is read that the frame g waits for.           *)
ReadsFrom(g, b) ==
  /\ g.at = "write" => g.block \in sealed /\ preds[g.block] = <<b>>
  /\ g.at = "operand" => b = Head(g.todo)
  /\ g.at = "use" => b = active

CallsLinked ==
  \A i \in 1..(Len(calls) - 1) :
    calls[i].at \in {"read", "write"} => ReadsFrom(calls[i + 1], calls[i].block)

WritersAreMissing ==
  \A f \in Frames : f.at = "write" => NoWrite(f.var, f.block)

(* A phi that a read has created is in the block that is read.             *)
PhisOfReads(E) ==
  \A i \in 1..(Len(calls) - 1) :
    calls[i].at \in Marks /\ calls[i + 1].at = "write"
      => <<calls[i].phi, calls[i + 1].block>> \in E

(* The removals are those of one call, and the first phi that is removed   *)
(* is the one that was completed.                                          *)
FirstIsCompleted ==
  /\ removals # <<>> =>
       /\ Removing
       /\ \A f \in Frames : f.at = "result" => removals[1].phi = f.phi
  /\ removals = <<>> =>
       \A f \in Frames :
         /\ f.at # "users"
         /\ f.at = "try" =>
              \A g \in Frames : g.at = "result" => g.phi = f.phi

ResultHolds(E) ==
  calls # <<>> =>
    /\ top.at = "write" =>
         \/ <<ret, top.block>> \in E
         \/ /\ top.block \in sealed
            /\ \E q \in Block : preds[top.block] = <<q>> /\ Leaves(E, ret, q)
    /\ top.at = "operand" => Leaves(E, ret, Head(top.todo))
    /\ top.at = "use" => Leaves(E, ret, active)
    /\ top.at = "fixup" /\ Len(calls) > 1 =>
         (calls[2].at = "write" => <<ret, calls[2].block>> \in E)

-----------------------------------------------------------------------------
Graph == EntryOK /\ PredecessorsTerminated
Stack == CallsLinked /\ WritersAreMissing /\ FirstIsCompleted
Meaning(E) ==
  /\ EntriesOK(E)
  /\ ArgsLeave(E)
  /\ CacheLeaves(E)
  /\ ReadsReach(E)
  /\ ReplacementsHold(E)
  /\ PhisOfReads(E)
  /\ ResultHolds(E)

HasMeaning == \E E \in SUBSET (Reg \X Block) : Meaning(E)

-----------------------------------------------------------------------------
(* What is warned about                                                    *)

(* Where control gets to from b before v is assigned.                      *)
IsClosed(v, S) ==
  \A c, d \in Block :
    c \in S /\ ~Writes(v, c) /\ c \in Range(preds[d]) => d \in S
Follows(v, b) ==
  {c \in Block : \A S \in SUBSET Block : b \in S /\ IsClosed(v, S) => c \in S}

(* The read r comes before any assignment to its variable in its block.    *)
IsFirst(r) == \A j \in 1..r[3] : ~Assigns(ops[r[2]][j], r[1])

(* On some path from b a read asks for the value v has on entry to b.      *)
IsAsked(v, b) ==
  \E r \in reads : r[1] = v /\ r[2] \in Follows(v, b) /\ IsFirst(r)

(* Every block that is activated can be reached.                           *)
BlocksAreReached ==
  \A b \in Range(blocks) : \A S \in SUBSET Block :
    /\ Entry \in S
    /\ \A c, d \in Block : c \in S /\ c \in Range(preds[d]) => d \in S
    => b \in S

(* Only what a read asks for is looked up.                                 *)
OnlyAskedFor ==
  /\ \A p \in phis : IsAsked(VarOf(p[2]), p[1])
  /\ \A f \in Frames :
       f.at = "read" /\ NoWrite(f.var, f.block) => IsAsked(f.var, f.block)
  /\ \A v \in undefinedRead : IsAsked(v, Entry)

(* What is asked for at the entry, by a phi without operands, is warned of.*)
EntryIsWarned ==
  \A p \in phis : p[1] = Entry =>
    \/ VarOf(p[2]) \in undefinedRead
    \/ fault # "none"
    \/ \E f \in Frames : f.at \in {"operands", "try"} /\ f.phi = p[2]

Warnings ==
  /\ \A r \in reads : r[3] <= Len(ops[r[2]])
  /\ \A p \in phis : p[1] \in Range(blocks)
  /\ BlocksAreReached
  /\ OnlyAskedFor
  /\ EntryIsWarned
  /\ \A x \in Range(removals) : NonSelfArgs(x.phi) # {}
  /\ finalised => fault = "none"

(* A read that asks for the value on entry to its block has found it.      *)
ReadsFind(E) ==
  \A r \in reads : IsFirst(r) =>
    \/ fault # "none"
    \/ \E q \in DefinedRegs : VarOf(q) = r[1] /\ <<q, r[2]>> \in E
    \/ /\ NoWrite(r[1], r[2])
       /\ \E f \in Frames :
            f.at \in {"read", "write"} /\ f.var = r[1] /\ f.block = r[2]

-----------------------------------------------------------------------------
(* The machine                                                             *)

(* Until the subroutine is finished, the machine has not begun; then the   *)
(* registers that reach the next op have the current value.                *)
MachineOK ==
  /\ at \in [block : Block, op : Nat \ {0}]
  /\ at.op <= Len(ops[at.block]) + 1
  /\ current \subseteq Reg
  /\ ~finalised => MachineInit
  /\ finalised => \E E \in SUBSET (Reg \X Block) :
       /\ Meaning(E)
       /\ \A r \in DefinedRegs :
            Reaches(E, r, at.block, at.op)
              => r \in current \/ VarOf(r) \in unassigned
=============================================================================
