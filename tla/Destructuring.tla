--------------------------- MODULE Destructuring ---------------------------
(***************************************************************************)
(* The way out of SSA form (puya/ir/destructure): critical edges are       *)
(* split, each argument of a phi is copied at the end of the predecessor   *)
(* it comes through, the copies are given the name of the phi, and         *)
(* registers are coalesced.  The parallel copies that result are taken as  *)
(* single steps, which is what ParallelCopy shows of their sequences.      *)
(*                                                                         *)
(* When the passes are done, control walks the blocks of the subroutine    *)
(* along any path, in the SSA form and in the code that was made of it, in *)
(* step.  Values do not matter, only which of them are the same, so the    *)
(* state of the machine says for each local of the code which registers of *)
(* the SSA form have the value it holds.                                   *)
(*                                                                         *)
(* A definition F_Fault is F with a plausible mistake; it is used only to  *)
(* see that a property notices the mistake.                                *)
(***************************************************************************)
EXTENDS Coalescing, LiveVariables

CONSTANTS
  Param,     \* registers that are parameters
  NumBlocks, \* blocks of the subroutine
  MaxSplits  \* bound: critical edges

ASSUME DestructuringAssumption ==
  /\ Reg \subseteq Nat
  /\ Param \subseteq Reg
  /\ NumBlocks \in Nat \ {0}
  /\ MaxSplits \in Nat

Entry == 1
Block == 1..(NumBlocks + MaxSplits)

(* A program is a record of functions of its blocks: succ, the successors; *)
(* phis, for each register defined by a phi its argument through each      *)
(* predecessor; ops; and term, the registers that the terminator uses.     *)
(* An op is a copy of registers, in parallel, or any other, which has      *)
(* targets and uses.                                                       *)
Copy(pairs) == [kind |-> "copy", pairs |-> pairs]
Compute(targets, uses) == [kind |-> "op", targets |-> targets, uses |-> uses]

VARIABLES
  optimise,    \* optimization_level > 0
  allowParams, \* allow_params
  ssa,         \* the program in SSA form
  code,        \* the program as it is now
  body,        \* its blocks, in order
  phase,       \* the pass that runs next
  at,          \* the block and the index of the op that runs next
  holds        \* the registers of the SSA form that have a local's value

options == <<optimise, allowParams, keyOf>>
program == <<ssa, code, body>>
machine == <<at, holds>>
dvars == <<options, program, phase, machine, liveAt, waiting, groups>>

-----------------------------------------------------------------------------
(* Programs                                                                *)

Preds(P, c) == {b \in DOMAIN P.succ : c \in P.succ[b]}

Targets(o) == IF o.kind = "copy" THEN {p[1] : p \in Range(o.pairs)}
                                 ELSE Range(o.targets)
Uses(o) == IF o.kind = "copy" THEN {p[2] : p \in Range(o.pairs)}
                              ELSE Range(o.uses)

(* The phis of c take these registers at the end of b.                     *)
ArgsThrough(P, b, c) == {P.phis[c][r][b] : r \in DOMAIN P.phis[c]}

(* The graph of the ops of a program: node 0 of a block is its phis, the   *)
(* last node its terminator, at which the phis that follow take their      *)
(* arguments.                                                              *)
LastNode(P, b) == Len(P.ops[b]) + 1
OpNodes(P) == UNION {{b} \X (0..LastNode(P, b)) : b \in DOMAIN P.succ}
IsOp(P, n) == n[2] \in 1..Len(P.ops[n[1]])
OpGraph(P) ==
  [succ |-> [n \in OpNodes(P) |->
               IF n[2] = LastNode(P, n[1])
               THEN {<<c, 0>> : c \in P.succ[n[1]]}
               ELSE {<<n[1], n[2] + 1>>}],
   used |-> [n \in OpNodes(P) |->
               IF IsOp(P, n) THEN Uses(P.ops[n[1]][n[2]])
               ELSE IF n[2] = 0 THEN {}
               ELSE Range(P.term[n[1]]) \cup
                    UNION {ArgsThrough(P, n[1], c) : c \in P.succ[n[1]]}],
   defined |-> [n \in OpNodes(P) |->
               IF IsOp(P, n) THEN Targets(P.ops[n[1]][n[2]])
               ELSE IF n[2] = 0 THEN DOMAIN P.phis[n[1]] ELSE {}]]

(* Blocks that control reaches without passing c.                          *)
ReachedWithout(P, c) ==
  LET within[k \in Nat] ==
        IF k = 0 THEN {Entry} \ {c}
        ELSE LET B == within[k - 1]
             IN B \cup (UNION {P.succ[b] : b \in B} \ {c})
  IN within[Cardinality(DOMAIN P.succ)]
Dominates(P, c, b) == b \notin ReachedWithout(P, c)

(* A block with phis that control comes back to is jumped to from there:   *)
(* the copies for its phis would be executed on the way to other blocks    *)
(* too.  A critical edge that is split is such a jump.                     *)
LoopHeadersAreJumpedTo(P) ==
  \A c \in DOMAIN P.succ : \A b \in Preds(P, c) :
    DOMAIN P.phis[c] # {} /\ Dominates(P, c, b) =>
      \/ Cardinality(P.succ[b]) = 1
      \/ optimise /\ b # c

(* A program in SSA form: each register has one definition, which is       *)
(* passed on every path to a use, and each phi has an argument for each    *)
(* predecessor (Subroutine.validate_with_ssa).                             *)
PhisMatch(P) ==
  \A c \in DOMAIN P.succ : \A r \in DOMAIN P.phis[c] :
    DOMAIN P.phis[c][r] = Preds(P, c)
DefinitionsReach(P) == LiveIn(OpGraph(P))[<<Entry, 0>>] \subseteq Param
IsSSA(P) ==
  LET G == OpGraph(P)
  IN /\ \A n \in Nodes(G) :
          /\ G.defined[n] \cap Param = {}
          /\ \A m \in Nodes(G) \ {n} : G.defined[m] \cap G.defined[n] = {}
     /\ PhisMatch(P)
     /\ DefinitionsReach(P)

-----------------------------------------------------------------------------
(* Critical edges                                                          *)

CriticalEdge(P, b, c) ==
  /\ c \in P.succ[b]
  /\ Cardinality(P.succ[b]) > 1
  /\ Cardinality(Preds(P, c)) > 1
  /\ b # c

(* replace_predecessor: the arguments of the phis come through the new     *)
(* block.                                                                  *)
Through(args, old, new) ==
  [b \in (DOMAIN args \ {old}) \cup {new} |->
     IF b = new THEN args[old] ELSE args[b]]

SplitBlock(P, b, c, new) ==
  [succ |-> [d \in DOMAIN P.succ \cup {new} |->
               IF d = new THEN {c}
               ELSE IF d = b THEN (P.succ[b] \ {c}) \cup {new}
               ELSE P.succ[d]],
   phis |-> [d \in DOMAIN P.succ \cup {new} |->
               IF d = new THEN [r \in {} |-> r]
               ELSE IF d = c
               THEN [r \in DOMAIN P.phis[c] |->
                       Through(P.phis[c][r], b, new)]
               ELSE P.phis[d]],
   ops |-> [d \in DOMAIN P.succ \cup {new} |->
               IF d = new THEN <<>> ELSE P.ops[d]],
   term |-> [d \in DOMAIN P.succ \cup {new} |->
               IF d = new THEN <<>> ELSE P.term[d]]]

PositionOf(b) == CHOOSE i \in DOMAIN body : body[i] = b

SplitCriticalEdge(b, c) ==
  /\ phase = "split"
  /\ optimise
  /\ {b, c} \subseteq DOMAIN code.succ
  /\ CriticalEdge(code, b, c)
  /\ LET new == Cardinality(DOMAIN code.succ) + 1
     IN /\ new \in Block
        /\ code' = SplitBlock(code, b, c, new)
        /\ body' = InsertAt(body, PositionOf(b) + 1, new)
  /\ ssa' = code'
  /\ UNCHANGED <<options, phase, machine, liveAt, waiting, groups>>

Unsplit == {e \in Block \X Block :
              /\ {e[1], e[2]} \subseteq DOMAIN code.succ
              /\ CriticalEdge(code, e[1], e[2])}

EdgesSplit ==
  /\ phase = "split"
  /\ optimise => Unsplit = {}
  /\ phase' = "isolate"
  /\ UNCHANGED <<options, program, machine, liveAt, waiting, groups>>

-----------------------------------------------------------------------------
(* Phis                                                                    *)

(* make_prime: a new register for the argument of the phi of r through b.  *)
Prime(r, b) == 1 + Max(Reg) + Cardinality(Block) * r + b

PairsThrough(P, b, c) ==
  LET regs == SetToSeq(DOMAIN P.phis[c])
  IN [i \in DOMAIN regs |-> <<Prime(regs[i], b), P.phis[c][regs[i]][b]>>]

ExitPairs(P, b) ==
  FlattenSeq([i \in DOMAIN body |->
                IF body[i] \in P.succ[b] THEN PairsThrough(P, b, body[i])
                                         ELSE <<>>])

WithExitCopy(ops, pairs) ==
  IF pairs = <<>> THEN ops ELSE Append(ops, Copy(pairs))

(* convert_to_cssa                                                         *)
IsolateArguments ==
  /\ phase = "isolate"
  /\ code' = [code EXCEPT
       !.phis = [c \in DOMAIN @ |->
                   [r \in DOMAIN @[c] |->
                      [b \in DOMAIN @[c][r] |-> Prime(r, b)]]],
       !.ops = [b \in DOMAIN @ |-> WithExitCopy(@[b], ExitPairs(code, b))]]
  /\ phase' = "rename"
  /\ UNCHANGED <<options, ssa, body, machine, liveAt, waiting, groups>>

(* MemoryReplacer, with f for the replacements                             *)
Renamed(x, f) == IF x \in DOMAIN f THEN f[x] ELSE x
RenamedAll(s, f) == [i \in DOMAIN s |-> Renamed(s[i], f)]
RenamedOp(o, f) ==
  IF o.kind = "copy"
  THEN Copy([i \in DOMAIN o.pairs |-> RenamedAll(o.pairs[i], f)])
  ELSE Compute(RenamedAll(o.targets, f), RenamedAll(o.uses, f))

(* What the phis were made from is given the name of the phi.              *)
NamesOfPhis ==
  [p \in {Prime(r, b) : r \in Reg, b \in Block} |->
     CHOOSE r \in Reg : \E b \in Block : Prime(r, b) = p]

(* destructure_cssa                                                        *)
RemovePhis ==
  /\ phase = "rename"
  /\ code' = [code EXCEPT
       !.phis = [c \in DOMAIN @ |-> [r \in {} |-> r]],
       !.ops = [b \in DOMAIN @ |->
                  [i \in DOMAIN @[b] |-> RenamedOp(@[b][i], NamesOfPhis)]]]
  /\ phase' = "analyse"
  /\ UNCHANGED <<options, ssa, body, machine, liveAt, waiting, groups>>

-----------------------------------------------------------------------------
(* Coalescing                                                              *)

Unique(s) ==
  FoldLeft(LAMBDA seen, x : IF x \in Range(seen) THEN seen
                            ELSE Append(seen, x), <<>>, s)

TargetsInOrder(o) ==
  IF o.kind = "copy" THEN [i \in DOMAIN o.pairs |-> o.pairs[i][1]]
                     ELSE o.targets

DefinedInOrder ==
  Unique(FlattenSeq([i \in DOMAIN body |->
    FlattenSeq([j \in DOMAIN code.ops[body[i]] |->
      TargetsInOrder(code.ops[body[i]][j])])]))

ParamsInOrder == SetToSortSeq(Param, LAMBDA r, s : r < s)

(* All that is live after some definition of r: parameters are defined,    *)
(* together, when the subroutine is entered.                               *)
DefinitionsOf(G, r) == {n \in Nodes(G) : r \in G.defined[n]}
LiveAfter_First(G, out, r) ==
  IF DefinitionsOf(G, r) = {} THEN {}
                              ELSE out[CHOOSE n \in DefinitionsOf(G, r) : TRUE]
LiveAfter(G, out, r) ==
  UNION {out[n] : n \in DefinitionsOf(G, r)}
    \cup (IF allowParams /\ r \in Param THEN Param ELSE {})

Analyse ==
  /\ phase = "analyse"
  /\ LET G == OpGraph(code)
         out == LiveOut(G)
     IN liveAt' = [r \in Reg |-> LiveAfter(G, out, r)]
  /\ waiting' = (IF allowParams THEN ParamsInOrder ELSE <<>>) \o DefinedInOrder
  /\ phase' = "group"
  /\ UNCHANGED <<options, program, machine, groups>>

PlaceRegister ==
  /\ phase = "group"
  /\ Place
  /\ UNCHANGED <<optimise, allowParams, program, phase, machine>>

(* determine_group_replacement: the parameter of the group if it has one,  *)
(* otherwise a register of the lowest version.                             *)
Replacement(g) ==
  IF g.members \cap Param # {} THEN CHOOSE r \in g.members \cap Param : TRUE
  ELSE CHOOSE r \in g.members : \A s \in g.members : r <= s

Replacements ==
  LET replaced == UNION {groups[i].members : i \in DOMAIN groups}
  IN [r \in replaced |->
        Replacement(groups[CHOOSE i \in DOMAIN groups :
                             r \in groups[i].members])]

(* _assignment_eliminated: copies of a register to itself are dropped.  An *)
(* assignment that is eliminated stays here as a copy of nothing.          *)
Reduced(o) ==
  IF o.kind = "copy"
  THEN Copy(SelectSeq(o.pairs, LAMBDA p : p[1] # p[2]))
  ELSE o

ReplaceRegisters ==
  /\ phase = "group"
  /\ Grouped
  /\ code' = [code EXCEPT
       !.ops = [b \in DOMAIN @ |->
                  [i \in DOMAIN @[b] |->
                     Reduced(RenamedOp(@[b][i], Replacements))]],
       !.term = [b \in DOMAIN @ |-> RenamedAll(@[b], Replacements)]]
  /\ phase' = "run"
  /\ UNCHANGED <<options, ssa, body, machine, liveAt, waiting, groups>>

-----------------------------------------------------------------------------
(* The two programs, run in step                                           *)

(* Where x takes its value from in a parallel copy.                        *)
SourceIn(pairs, x) ==
  LET last == {i \in DOMAIN pairs :
                 /\ pairs[i][1] = x
                 /\ \A j \in DOMAIN pairs : pairs[j][1] = x => j <= i}
  IN IF last = {} THEN x ELSE pairs[CHOOSE i \in last : TRUE][2]

OpsOf(P) == P.ops[at.block]
Advance == at' = [at EXCEPT !.op = @ + 1]

RunCopy ==
  /\ phase = "run"
  /\ at.op \in DOMAIN OpsOf(ssa)
  /\ OpsOf(ssa)[at.op].kind = "copy"
  /\ LET was == OpsOf(ssa)[at.op].pairs
         is == OpsOf(code)[at.op].pairs
     IN holds' = [l \in Reg |-> {r \in Reg :
                    SourceIn(was, r) \in holds[SourceIn(is, l)]}]
  /\ Advance
  /\ UNCHANGED <<options, program, phase, liveAt, waiting, groups>>

RunOp ==
  /\ phase = "run"
  /\ at.op \in DOMAIN OpsOf(ssa)
  /\ OpsOf(ssa)[at.op].kind = "op"
  /\ LET was == OpsOf(ssa)[at.op].targets
         is == OpsOf(code)[at.op].targets
     IN holds' = [l \in Reg |->
                    IF l \in Range(is)
                    THEN {was[i] : i \in {j \in DOMAIN is : is[j] = l}}
                    ELSE holds[l] \ Range(was)]
  /\ Advance
  /\ UNCHANGED <<options, program, phase, liveAt, waiting, groups>>

(* The copies for the phis of the successors.                              *)
RunExitCopy ==
  /\ phase = "run"
  /\ at.op = Len(OpsOf(ssa)) + 1
  /\ at.op \in DOMAIN OpsOf(code)
  /\ LET is == OpsOf(code)[at.op].pairs
     IN holds' = [l \in Reg |-> holds[SourceIn(is, l)]]
  /\ Advance
  /\ UNCHANGED <<options, program, phase, liveAt, waiting, groups>>

AtTerminator == phase = "run" /\ at.op = Len(OpsOf(code)) + 1

(* A jump: in the SSA form the phis of the target execute, in parallel.    *)
RunJump(c) ==
  /\ AtTerminator
  /\ c \in code.succ[at.block]
  /\ LET taken(r) == IF r \in DOMAIN ssa.phis[c]
                     THEN ssa.phis[c][r][at.block] ELSE r
     IN holds' = [l \in Reg |-> {r \in Reg : taken(r) \in holds[l]}]
  /\ at' = [block |-> c, op |-> 1]
  /\ UNCHANGED <<options, program, phase, liveAt, waiting, groups>>

DestructuringInit ==
  /\ optimise \in BOOLEAN
  /\ allowParams \in BOOLEAN
  /\ keyOf \in [Reg -> Key]
  /\ IsSSA(ssa)
  /\ LoopHeadersAreJumpedTo(ssa)
  /\ code = ssa
  /\ body = [i \in 1..NumBlocks |-> i]
  /\ phase = "split"
  /\ at = [block |-> Entry, op |-> 1]
  /\ holds = [l \in Reg |-> {l} \cap Param]
  /\ liveAt = [r \in Reg |-> {}]
  /\ waiting = <<>>
  /\ groups = <<>>

DestructuringNext ==
  \/ \E b, c \in Block : SplitCriticalEdge(b, c)
  \/ EdgesSplit
  \/ IsolateArguments
  \/ RemovePhis
  \/ Analyse
  \/ PlaceRegister
  \/ ReplaceRegisters
  \/ RunCopy
  \/ RunOp
  \/ RunExitCopy
  \/ \E c \in Block : RunJump(c)

-----------------------------------------------------------------------------
(* Properties                                                              *)

(* The locals that the code reads instead of registers hold the values of  *)
(* the registers.                                                          *)
Agree(was, is) == \A i \in DOMAIN was : was[i] \in holds[is[i]]

(* Coming out of SSA changes no value: on every path, what an op or a      *)
(* terminator reads is what it reads in the SSA form, although the phis    *)
(* have become copies in other blocks (the lost copy and swap problems)    *)
(* and registers share locals.                                             *)
UsesKeepTheirValues ==
  phase = "run" =>
    /\ at.op \in DOMAIN OpsOf(ssa) /\ OpsOf(ssa)[at.op].kind = "op" =>
         Agree(OpsOf(ssa)[at.op].uses, OpsOf(code)[at.op].uses)
    /\ AtTerminator => Agree(ssa.term[at.block], code.term[at.block])
=============================================================================
