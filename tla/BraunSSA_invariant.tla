------------------------ MODULE BraunSSA_invariant ------------------------
(***************************************************************************)
(* Why the construction of BraunSSA is right: the inductive invariant that *)
(* its safety properties rest on, in layers.  Each layer is preserved by   *)
(* every step of a state that satisfies it and the layers before it.       *)
(***************************************************************************)
EXTENDS BraunSSA

Frames == Range(calls)
Below == Range(Tail(calls))

Tries == {"try", "users"}
Removes == Tries \cup {"result", "fixup"}
Gathers == {"operands", "operand"}
Marks == Gathers \cup {"result", "fixup"}
Base == {"use", "seal", "sealing", "finalise"}

Removing == calls # <<>> /\ calls[1].at \in Removes

-----------------------------------------------------------------------------
(* The shape of the call stack                                             *)

(* Which frame may be right below which: who calls whom.                   *)
MayCall(g, f) ==
  /\ f.at \in {"read", "write"} => g.at \in {"write", "operand", "use"}
  /\ f.at \in Marks => g.at \in {"write", "sealing"}
  /\ f.at \in Tries => g.at \in {"users", "result"}
  /\ f.at \in {"seal", "sealing"} => g.at = "finalise"
  /\ f.at \notin {"use", "finalise"}

(* A removal of trivial phis is on top of the stack, and ends in the frame *)
(* of the _add_phi_operands that began it.                                 *)
Shape ==
  /\ \A i \in 1..(Len(calls) - 1) : MayCall(calls[i + 1], calls[i])
  /\ \A i, j \in DOMAIN calls :
       i < j /\ calls[j].at \in Removes => calls[i].at \in Tries
  /\ \A i \in DOMAIN calls : calls[i].at \in Tries =>
       \E k \in DOMAIN calls : i < k /\ calls[k].at = "result"
  /\ finalised => calls = <<>>

-----------------------------------------------------------------------------
(* The variable a call is about                                            *)

VarsOf(f) ==
  CASE f.at \in {"read", "write"} -> {f.var}
    [] f.at \in Marks \cup {"try"} -> {VarOf(f.phi)}
    [] f.at = "users" -> {VarOf(u) : u \in f.users}
    [] OTHER -> {}

(* Everything a read sets in motion is about the variable read.  When it   *)
(* was a phi of a block being sealed that set it in motion, the block has  *)
(* a definition of that variable: nothing is read above it.                *)
IsAbout(v) ==
  /\ \A f \in Frames :
       /\ VarsOf(f) \subseteq {v}
       /\ f.at = "sealing" => currentDef[<<v, f.block>>] # NoReg
  /\ top.at \in {"write", "operand", "fixup"} => VarOf(ret) = v
  /\ Removing =>
       \A r \in Range(removals) : VarOf(r.phi) = v /\ VarOf(r.by) = v

OneVariable ==
  calls # <<>> /\ top.at \notin Base => \E v \in Var : IsAbout(v)

SameVariable ==
  /\ \A a \in phiArgs : VarOf(a.value) = VarOf(a.phi)
  /\ \A v \in Var, b \in Block :
       currentDef[<<v, b>>] # NoReg => VarOf(currentDef[<<v, b>>]) = v

(* A phi that waits for its operands is the definition of its variable.    *)
WaitingAreCached ==
  /\ \A b \in Block : \A x \in Range(incomplete[b]) :
       currentDef[<<VarOf(x), b>>] # NoReg
  /\ \A f \in Frames : f.at = "sealing" =>
       \A x \in Range(f.todo) : currentDef[<<VarOf(x), f.block>>] # NoReg

(* No register is mentioned anywhere before it exists.                     *)
IsIssued(r, vs) == VersionOf(r) < vs[VarOf(r)]
Issued ==
  /\ \A a \in phiArgs : IsIssued(a.phi, versions) /\ IsIssued(a.value, versions)
  /\ \A d \in Var \X Block : currentDef[d] # NoReg => IsIssued(currentDef[d], versions)
  /\ ret # NoReg => IsIssued(ret, versions)
  /\ \A r \in Range(removals) : IsIssued(r.by, versions)
  /\ \A b \in Block : \A x \in Range(incomplete[b]) : IsIssued(x, versions)
  /\ \A f \in Frames :
       /\ f.at \in Marks => IsIssued(f.phi, versions)
       /\ f.at = "sealing" => \A x \in Range(f.todo) : IsIssued(x, versions)

Webs == OneVariable /\ SameVariable /\ WaitingAreCached /\ Issued

-----------------------------------------------------------------------------
(* The age of the phis                                                     *)

(* The phis whose operands are being gathered: the inner, the younger.     *)
InnerIsYounger ==
  \A i, j \in DOMAIN calls :
    i < j /\ calls[i].at \in Marks /\ calls[j].at \in Marks
      => VersionOf(calls[j].phi) < VersionOf(calls[i].phi)

(* What is older than q depends on nothing that is as young as q.          *)
Separates(q) ==
  \A a \in phiArgs :
    VarOf(a.phi) = VarOf(q) /\ VersionOf(a.phi) < VersionOf(q)
      => VersionOf(a.value) < VersionOf(q)

(* So it is for the phis that a read has created; not for those that wait  *)
(* until their block is sealed.                                            *)
YoungSeparate ==
  \A i \in 1..(Len(calls) - 1) :
    calls[i].at \in Marks /\ calls[i + 1].at = "write"
      => Separates(calls[i].phi)

IsTried(f, x) == \/ f.at = "try" /\ f.phi = x
                 \/ f.at = "users" /\ x \in f.users

(* So a removal stays among the phis as young as the one it began with.    *)
TriedAreYoung ==
  \A x \in Reg : \A f \in Frames : \A k \in 1..(Len(calls) - 1) :
    IsTried(f, x) /\ calls[k].at = "result" /\ calls[k + 1].at = "write"
      => VersionOf(calls[k].phi) <= VersionOf(x)

Ages == InnerIsYounger /\ YoungSeparate /\ TriedAreYoung

-----------------------------------------------------------------------------
(* The phis and their operands                                             *)

Distinct(s) == \A i, j \in DOMAIN s : s[i] = s[j] => i = j

(* The phis that have no operands yet, and those that have some.           *)
IsWaiting(x) ==
  \/ \E b \in Block : x \in Range(incomplete[b])
  \/ \E f \in Frames : f.at = "sealing" /\ x \in Range(f.todo)
IsFilling(x) == \E f \in Frames : f.at \in Gathers /\ f.phi = x

PredecessorsActivated ==
  /\ \A b \in Block : Distinct(preds[b]) /\ Range(preds[b]) \subseteq Range(blocks)
  /\ \A f \in Frames : f.at = "read" => f.block \in Range(blocks)

WaitingOK ==
  /\ \A b \in Block :
       /\ Distinct(incomplete[b])
       /\ \A x \in Range(incomplete[b]) : <<b, x>> \in phis
       /\ incomplete[b] # <<>> => b \notin sealed /\ b \in Range(blocks)
  /\ \A f \in Frames : f.at = "sealing" =>
       /\ Distinct(f.todo)
       /\ \A x \in Range(f.todo) : <<f.block, x>> \in phis
       /\ f.block \notin sealed
       /\ incomplete[f.block] = <<>>
  /\ \A a \in phiArgs : ~IsWaiting(a.phi)
  /\ \A f \in Frames, x \in Reg : IsTried(f, x) => ~IsWaiting(x)

FillingOK ==
  \A f \in Frames : f.at \in Gathers =>
    /\ <<f.block, f.phi>> \in phis
    /\ ~IsWaiting(f.phi)
    /\ Distinct(f.todo)
    /\ Range(f.todo) \subseteq Range(preds[f.block])
    /\ Through(f.phi) = Range(preds[f.block]) \ Range(f.todo)

(* The other phis have their operands, and have them for good: no edge is  *)
(* added to a sealed block.                                                *)
OthersComplete ==
  /\ \A p \in phis : ~IsWaiting(p[2]) /\ ~IsFilling(p[2]) => PhiComplete(p)
  /\ \A p \in phis : ~IsWaiting(p[2]) =>
       \/ p[1] \in sealed
       \/ \E f \in Frames : f.at = "sealing" /\ f.block = p[1]

OneArgument ==
  \A a, c \in phiArgs : a.phi = c.phi /\ a.through = c.through => a = c

Finished == finalised => \A b \in Block : incomplete[b] = <<>>

Operands == /\ PredecessorsActivated /\ WaitingOK /\ FillingOK
            /\ OthersComplete /\ OneArgument /\ Finished

-----------------------------------------------------------------------------
(* What is read is defined                                                 *)

Removed == {r.phi : r \in Range(removals)}

(* The register x is replaced by the remaining removals, the first of them *)
(* that is about it, by one that is defined or is replaced later on.       *)
Resolves(N, x) ==
  \E i \in DOMAIN removals :
    /\ removals[i].phi = x
    /\ \A k \in 1..(i - 1) : removals[k].phi # x
    /\ \/ removals[i].by \in DefinedRegs
       \/ /\ removals[i].by \in N
          /\ \A k \in 1..i : removals[k].phi # removals[i].by

Pending(N) ==
  /\ Range(currentDef) \subseteq DefinedRegs \cup {NoReg} \cup N
  /\ \A x \in N : Resolves(N, x)
  /\ top.at = "fixup" => ret \in DefinedRegs \cup N
  /\ top.at # "fixup" /\ removals # <<>> => removals[1].phi \in N

Live ==
  /\ ~Removing => Range(currentDef) \subseteq DefinedRegs \cup {NoReg}
  /\ calls # <<>> /\ top.at \in {"write", "operand", "use"}
       => ret \in DefinedRegs
  /\ Removing =>
       /\ \E N \in SUBSET Removed : Pending(N)
       /\ Removed \cap DefinedRegs = {}
       /\ \A f \in Frames :
            /\ \A x \in Reg : IsTried(f, x) => x \in PhiRegs \cup Removed
            /\ f.at = "result" /\ removals = <<>> => f.phi \in PhiRegs

Definitions == UsesAreDefined /\ Live

-----------------------------------------------------------------------------
(* No trivial phi is forgotten                                             *)

Trivial(p) == \E by \in Reg : NonSelfArgs(p) = {by}
TrivialAreTried ==
  /\ IsFiniteSet(phiArgs)
  /\ \A p \in phis :
       ~IsWaiting(p[2]) /\ ~IsFilling(p[2]) /\ Trivial(p[2])
         => \E f \in Frames : IsTried(f, p[2])

-----------------------------------------------------------------------------
(* The inductive invariant, with InductiveSSA of BraunSSA_proofs.          *)
Construction ==
  /\ Shape
  /\ Webs
  /\ Ages
  /\ Operands
  /\ Definitions
  /\ TrivialAreTried
  /\ NoAlgorithmFault
=============================================================================
