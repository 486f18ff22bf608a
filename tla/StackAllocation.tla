-------------------------- MODULE StackAllocation --------------------------
(***************************************************************************)
(* Global stack allocation (puya/mir/stack_allocation): the loads and      *)
(* stores of a subroutine's locals become operations on the stack, in      *)
(* passes over all blocks, each of which is one action.  Values that are   *)
(* used again in their block are kept on the l-stack, those that go from   *)
(* block to block on the x-stack, and the rest get a slot of the f-stack.  *)
(*                                                                         *)
(* A definition F_Fault is F with a plausible mistake; it is used only to  *)
(* see that a property notices the mistake.                                *)
(***************************************************************************)
EXTENDS StackOps, LiveVariables

CONSTANTS
  Local,    \* the locals, numbered in the order of their names
  NumBlocks \* bound: blocks of the subroutine

ASSUME StackAssumption ==
  /\ Local \subseteq Nat \ {0}
  /\ NumBlocks \in Nat \ {0}

Entry == 1

VARIABLES
  optimise, \* optimization_level > 0
  succ,     \* the successors of each block; the first is the entry
  term,     \* what its terminator consumes, and whether it ends the program
  source,   \* its ops before the allocation
  code,     \* its mem_ops
  pass,     \* the pass that runs next
  layout,   \* x_stack_in, x_stack_out, f_stack_in, f_stack_out, fx_height
  failed    \* an assertion or an InternalError

program == <<optimise, succ, term, source>>
vars == <<program, code, pass, layout, failed>>

Block == DOMAIN succ
Preds(c) == {b \in Block : c \in succ[b]}

-----------------------------------------------------------------------------
(* Liveness, a block at a time: only abstract loads and stores count.      *)

IsAccess(o) == o.kind \in {"load", "store"}
Accesses(ops) == SelectSeq(ops, IsAccess)
Stores(b) == {o.local : o \in {p \in Range(code[b]) : p.kind = "store"}}
Loads(b) == {o.local : o \in {p \in Range(code[b]) : p.kind = "load"}}

(* Whether the first access to v is a load, or there is none and v is in   *)
(* live.                                                                   *)
NeededIn(ops, v, live) ==
  LET mine == SelectSeq(ops, LAMBDA o : IsAccess(o) /\ o.local = v)
  IN IF mine = <<>> THEN v \in live ELSE Head(mine).kind = "load"

BlockGraph(ops) ==
  [succ |-> succ,
   used |-> [b \in Block |-> {v \in Local : NeededIn(ops[b], v, {})}],
   defined |-> [b \in Block |-> {o.local : o \in Range(Accesses(ops[b]))}]]

(* The ids of the dead stores of each block.                               *)
DeadStores(ops) ==
  LET out == LiveOut(BlockGraph(ops))
  IN [b \in Block |->
        {ops[b][i].id : i \in {j \in DOMAIN ops[b] :
           /\ ops[b][j].kind = "store"
           /\ ~NeededIn(SubSeq(ops[b], j + 1, Len(ops[b])), ops[b][j].local, out[b])}}]

-----------------------------------------------------------------------------
(* The l-stack.  A pair is a definition or use of a local and the use that *)
(* follows it in the block; the closest pairs come first.                  *)

IsUsagePair(ops, i, j) ==
  /\ i < j
  /\ IsAccess(ops[i])
  /\ ops[j].kind = "load"
  /\ ops[i].local = ops[j].local
  /\ \A k \in (i + 1)..(j - 1) : ~(IsAccess(ops[k]) /\ ops[k].local = ops[i].local)

Closer(p, q) ==
  LET far(r) == r[2] - r[1]
  IN \/ far(p) < far(q)
     \/ far(p) = far(q) /\ p[1] < q[1]

UsagePairs(ops) ==
  SetToSortSeq({p \in (DOMAIN ops) \X (DOMAIN ops) : IsUsagePair(ops, p[1], p[2])}, Closer)

(* _LStackHeight                                                           *)
Rise(o) == IF o.kind = "lload" THEN (IF o.copy THEN 1 ELSE 0)
                               ELSE Len(o.produces) - o.consumes
HeightAfter(h, o) ==
  [depth |-> h.depth + Rise(o),
   ok |-> h.ok /\ (o.kind # "lload" => h.depth >= o.consumes)]

PositionOf(ops, id) == CHOOSE k \in DOMAIN ops : ops[k].id = id

(* The height of the l-stack is counted on from the last insertion, unless *)
(* this one is below it.                                                   *)
Restart_Never(at, last) == FALSE
Restart(at, last) == at <= last

(* One pair: the value is copied to the bottom of the l-stack where it is  *)
(* defined or used, and its next use takes it from there.                  *)
CopyPair(acc, pair) ==
  LET a == PositionOf(acc.ops, pair[1])
      at == IF acc.ops[a].kind = "store" THEN a - 1 ELSE a
      v == acc.ops[a].local
      again == Restart(at, acc.last)
      height == FoldLeft(HeightAfter,
                         [depth |-> IF again THEN 0 ELSE acc.depth, ok |-> acc.ok],
                         SubSeq(acc.ops, (IF again THEN 0 ELSE acc.last) + 1, at))
      ops == InsertAt(acc.ops, at + 1, StoreLStack(v, height.depth - 1))
  IN [ops |-> ReplaceAt(ops, PositionOf(ops, pair[2]), LoadLStack(pair[2], v)),
      last |-> at, depth |-> height.depth, ok |-> height.ok]

CopyUsagePairs(ops) ==
  FoldLeft(CopyPair, [ops |-> ops, last |-> 0, depth |-> 0, ok |-> TRUE],
           UsagePairs(ops))

(* A copy for a store that is dead, or from a value that was only moved to *)
(* be copied, is not needed.                                               *)
MovedFrom(o) == [o EXCEPT !.copy = FALSE, !.produces = <<>>]
CopiedFrom(o) == [o EXCEPT !.copy = TRUE, !.produces = <<CopyOf(o.local)>>]

RECURSIVE RemoveDeadStores(_, _)
RemoveDeadStores(ops, dead) ==
  IF Len(ops) < 2 THEN ops
  ELSE LET a == ops[1]
           b == ops[2]
           rest == SubSeq(ops, 3, Len(ops))
       IN IF a.kind = "lstore" /\ a.copy /\ b.kind = "store" /\ b.id \in dead
          THEN <<MovedFrom(a)>> \o RemoveDeadStores(rest, dead)
          ELSE IF /\ a.kind = "lload" /\ ~a.copy
                  /\ b.kind = "lstore" /\ b.copy /\ a.local = b.local
          THEN <<CopiedFrom(a)>> \o RemoveDeadStores(rest, dead)
          ELSE <<a>> \o RemoveDeadStores(Tail(ops), dead)

(* Values that are stored on the l-stack in the order in which they were   *)
(* produced are there already.                                             *)
IsMove(o) == o.kind = "lstore" /\ ~o.copy
Implicit(a, stores) ==
  /\ \A i \in DOMAIN stores : IsMove(stores[i])
  /\ Reverse([i \in DOMAIN stores |-> stores[i].local]) = a.produces

RECURSIVE RemoveImplicitStores(_)
RemoveImplicitStores(ops) ==
  IF ops = <<>> THEN ops
  ELSE LET a == Head(ops)
           n == Len(a.produces)
           kept == IF n > 0 /\ n < Len(ops) /\ Implicit(a, SubSeq(ops, 2, n + 1))
                   THEN n + 2 ELSE 2
       IN <<a>> \o RemoveImplicitStores(SubSeq(ops, kept, Len(ops)))

(* _calculate_load_depths: loads look for the name of their local.         *)
LoadDepth(acc, o) ==
  LET i == IndexOf(acc.st.l, o.local)
  IN [ops |-> Append(acc.ops, IF o.kind = "lload"
                              THEN [o EXCEPT !.depth = Len(acc.st.l) - i] ELSE o),
      st |-> Visit(acc.st, o)]

CalculateLoadDepths(ops) ==
  FoldLeft(LoadDepth, [ops |-> <<>>, st |-> BeginBlock(<<>>, <<>>)], ops)

LStackAllocation ==
  /\ pass = "lstack"
  /\ LET copied == [b \in Block |-> CopyUsagePairs(code[b])]
         copies == [b \in Block |-> copied[b].ops]
         dead == DeadStores(copies)
         moved == [b \in Block |-> RemoveDeadStores(copies[b], dead[b])]
         loads == [b \in Block |-> CalculateLoadDepths(
                     IF optimise THEN RemoveImplicitStores(moved[b]) ELSE moved[b])]
     IN /\ code' = [b \in Block |-> loads[b].ops]
        /\ failed' = \E b \in Block : ~copied[b].ok \/ ~loads[b].st.ok
  /\ pass' = IF optimise THEN "lstack.opt" ELSE "fstack"
  /\ UNCHANGED <<program, layout>>

-----------------------------------------------------------------------------
(* Peephole optimisation.  optimize_pair gives the ops that replace a pair *)
(* of ops, or the pair.                                                    *)

IsStoreTo(o) == o.kind \in {"lstore", "xstore", "fstore", "finsert"}

(* The op only renames the top of the stack.                               *)
IsAlias(o) == o.kind \in {"lstore", "lload"} /\ o.depth = 0 /\ ~o.copy

SamePlace(a, b) ==
  \/ a.kind = "xload" /\ ~a.copy /\ b.kind = "xstore" /\ a.depth = b.depth
  \/ a.kind = "fload" /\ b.kind \in {"fstore", "finsert"}
  \/ a.kind = "load" /\ b.kind = "store"

OptimizePair(a, b, dead) ==
  LET top == IF a.produces = <<>> THEN 0 ELSE Last(a.produces)
  IN IF IsStoreTo(b) /\ a.produces # <<>> /\ top # b.local
     THEN <<[a EXCEPT !.produces = Append(Front(@), b.local)], b>>
     ELSE IF a.produces # <<>> /\ IsAlias(b) /\ top = b.local THEN <<a>>
     ELSE IF b.kind = "store" /\ b.id \in dead THEN <<a, Pop(1)>>
     ELSE IF SamePlace(a, b) /\ a.local = b.local THEN <<>>
     ELSE <<a, b>>

RECURSIVE Peephole(_, _)
Peephole(ops, dead) ==
  IF Len(ops) < 2 THEN ops
  ELSE LET pair == <<ops[1], ops[2]>>
           result == OptimizePair(ops[1], ops[2], dead)
       IN IF result = pair THEN <<ops[1]>> \o Peephole(Tail(ops), dead)
          ELSE Peephole(result \o SubSeq(ops, 3, Len(ops)), dead)

PeepholeOptimization ==
  /\ pass \in {"lstack.opt", "xstack.opt", "fstack.opt"}
  /\ LET dead == DeadStores(code)
     IN code' = [b \in Block |-> Peephole(code[b], dead[b])]
  /\ pass' = CASE pass = "lstack.opt" -> "xstack"
               [] pass = "xstack.opt" -> "fstack"
               [] pass = "fstack.opt" -> "done"
  /\ UNCHANGED <<program, layout, failed>>

-----------------------------------------------------------------------------
(* The x-stack.  An edge set is a connected component of the edges when    *)
(* the end of a block and the start of a block are different nodes; it is  *)
(* named by the set of its out blocks.                                     *)

OutPeers(B) == {b \in Block : \E c \in B : succ[b] \cap succ[c] # {}}
EdgeSetOf(b) ==
  LET peers[k \in 0..NumBlocks] == IF k = 0 THEN {b} ELSE OutPeers(peers[k - 1]) \cup peers[k - 1]
  IN peers[NumBlocks]
EdgeSets == {EdgeSetOf(b) : b \in {c \in Block : succ[c] # {}}}
InBlocks(E) == UNION {succ[b] : b \in E}

(* Live at the end of every out block and, but for one, at the start of    *)
(* every in block.                                                         *)
Candidates(E, in, out) ==
  {v \in Local : /\ \A b \in E : v \in out[b]
                 /\ Cardinality({c \in InBlocks(E) : v \notin in[c]}) <= 1}

(* The candidates for x_stack_in and x_stack_out of each block, of the     *)
(* edge set in which it is an in block or an out block.                    *)
InCandidates(in, out) ==
  [c \in Block |->
     UNION {Candidates(E, in, out) : E \in {F \in EdgeSets : c \in InBlocks(F)}}]
OutCandidates(in, out) ==
  [b \in Block |-> IF succ[b] = {} THEN {} ELSE Candidates(EdgeSetOf(b), in, out)]

Unschedulable(b, xin, xout) == (Stores(b) \ xout) \cup (Loads(b) \ xin)

(* What comes in and is neither consumed nor dropped must go out.          *)
TransitMismatches(b, xin, xout, live) ==
  LET consumed == Loads(b) \ ((xin \cap xout) \ Stores(b))
      through == xin \ (consumed \cup (xin \ (xout \cup live)))
      expected == xout \ Stores(b)
  IN (through \ expected) \cup (expected \ through)

Excluded(xin, xout, in) ==
  UNION {Unschedulable(b, xin[b], xout[b]) \cup
         TransitMismatches(b, xin[b], xout[b], in[b]) : b \in Block}

(* An op is added to the block, and the virtual stack follows.             *)
Emit(acc, o) == [st |-> Visit(acc.st, o), ops |-> Append(acc.ops, o)]

LoadFromX(acc, v, copy) ==
  LET i == IndexOf(acc.st.x, v)
  IN IF i = 0 THEN [acc EXCEPT !.st.ok = FALSE]
     ELSE Emit(acc, LoadXStack(v, XDepth(acc.st, i), copy))

Drop(acc, v) == Emit(LoadFromX(acc, v, FALSE), Pop(1))

(* The store goes below the first local that must end up above it, or that *)
(* it replaces.                                                            *)
StorePosition(x, xout, v) ==
  LET above == SelectInSeq(x, LAMBDA w : IndexOf(xout, w) >= IndexOf(xout, v))
  IN IF above = 0 THEN Len(x) + 1 ELSE above

(* What is dropped on entry.  A terminator that ends the program drops all *)
(* that is left, so only what is above a load is dropped.                  *)
Drops(b, xin, xout, live) ==
  LET loaded == {i \in DOMAIN xin : xin[i] \in Loads(b)}
  IN IF ~term[b].ends THEN Range(xin) \ (Range(xout) \cup live)
     ELSE {xin[i] : i \in {j \in DOMAIN xin : xin[j] \notin live
                             /\ \E k \in loaded : k < j /\ \A l \in loaded : k <= l}}
Transit(b, xin, xout, drops) ==
  IF ~term[b].ends THEN Range(xin) \cap Range(xout) ELSE Range(xin) \ (Loads(b) \cup drops)

(* A local that goes through the block is copied, unless it is replaced.   *)
CopyEligible_Transit(b, transit) == transit
CopyEligible(b, transit) == transit \ Stores(b)

AddXStackOp(acc, o, xin, xout, copied) ==
  IF o.kind = "store" /\ o.local \in Range(xout)
  THEN Emit(acc, StoreXStack(o.local, XDepth(acc.st, StorePosition(acc.st.x, xout, o.local))))
  ELSE IF o.kind = "load" /\ o.local \in Range(xin)
  THEN LoadFromX(acc, o.local, o.local \in copied)
  ELSE Emit(acc, o)

(* _reorder_x_stack: each local is moved to its place, from the bottom up. *)
MoveTo(acc, v, target) ==
  IF IndexOf(acc.st.x, v) = target THEN acc
  ELSE LET loaded == LoadFromX(acc, v, FALSE)
       IN Emit(loaded, StoreXStack(v, XDepth(loaded.st, target)))
Reorder(acc, xout) ==
  LET moved == FoldLeftDomain(LAMBDA a, i : MoveTo(a, xout[i], i), acc, xout)
  IN [moved EXCEPT !.st.ok = @ /\ moved.st.x = xout]

AddXStackOps(b, xin, xout, live) ==
  LET drops == Drops(b, xin, xout, live)
      transit == Transit(b, xin, xout, drops)
      copied == CopyEligible(b, transit)
      dropped == FoldLeft(Drop, [st |-> BeginBlock(<<>>, xin), ops |-> <<>>],
                          Reverse(SelectSeq(xin, LAMBDA v : v \in drops)))
      added == FoldLeft(LAMBDA acc, o : AddXStackOp(acc, o, xin, xout, copied),
                        dropped, code[b])
      unmatched == \/ Range(xout) \ (Stores(b) \cup transit) # {}
                   \/ Range(xin) \ (copied \cup Loads(b) \cup transit \cup drops) # {}
      ordered == IF ~term[b].ends /\ added.st.x # xout THEN Reorder(added, xout) ELSE added
  IN [ops |-> ordered.ops, ok |-> ordered.st.ok /\ ~unmatched]

AccessedOnce(b) ==
  \A kind \in {"load", "store"} :
    LET mine == SelectSeq(code[b], LAMBDA o : o.kind = kind)
    IN \A i, j \in DOMAIN mine : mine[i].local = mine[j].local => i = j

(* _schedule_edge_sets, _add_x_stack_ops.  Which locals transit at too     *)
(* high a cost, and the ranking of the others, are heuristics: any set of  *)
(* locals is left out, and any order used.  It is the order of all edge    *)
(* sets: those of a subroutine without unreachable blocks are one group.   *)
XStackAllocation ==
  /\ pass = "xstack"
  /\ LET in == LiveIn(BlockGraph(code))
         out == LiveOut(BlockGraph(code))
         xin == InCandidates(in, out)
         xout == OutCandidates(in, out)
         fit == UNION {xout[b] : b \in Block} \ Excluded(xin, xout, in)
     IN \E expensive \in SUBSET fit : \E ranked \in SetToSeqs(fit \ expensive) :
          LET Among(S) == SelectSeq(ranked, LAMBDA v : v \in S)
              added == [b \in Block |->
                          AddXStackOps(b, Among(xin[b]), Among(xout[b]), in[b])]
          IN /\ layout' = [layout EXCEPT
                  !.xin = [b \in Block |-> Among(xin[b])],
                  !.xout = [b \in Block |-> Among(xout[b])]]
             /\ code' = [b \in Block |-> added[b].ops]
             /\ failed' = (failed \/ \E b \in Block : ~AccessedOnce(b) \/ ~added[b].ok)
  /\ pass' = "xstack.opt"
  /\ UNCHANGED program

-----------------------------------------------------------------------------
(* The f-stack.  A local whose first store is in the entry gets its slot   *)
(* there, unless the entry is executed again; the others before it.        *)

FirstStores(ops) ==
  SelectSeq([i \in DOMAIN ops |-> i],
            LAMBDA i : /\ ops[i].kind = "store"
                       /\ \A j \in 1..(i - 1) : ops[j].kind = "store" => ops[j].local # ops[i].local)
Lazy_Always == FirstStores(code[Entry])
Lazy == IF Preds(Entry) # {} THEN <<>> ELSE FirstStores(code[Entry])

FSlots ==
  LET lazy == [i \in DOMAIN Lazy |-> code[Entry][Lazy[i]].local]
      all == UNION {Stores(b) \cup Loads(b) : b \in Block}
      before == SetToSortSeq(all \ Range(lazy), <)
  IN [before |-> before, after |-> before \o lazy]

AddFStackOp(b, acc, i) ==
  LET o == code[b][i]
      insert == b = Entry /\ i \in Range(Lazy)
      slot == IndexOf(acc.st.f, o.local)
      depth == IF insert THEN XLHeight(acc.st) - 1 ELSE FDepth(acc.st, slot)
      frame == FXLHeight(acc.st) - depth - 1
      known == [acc EXCEPT !.st.ok = @ /\ (slot # 0 \/ insert)]
  IN CASE o.kind = "store" -> Emit(known, StoreFStack(o.local, depth, frame, insert))
       [] o.kind = "load" -> Emit(known, LoadFStack(o.local, depth, frame))
       [] OTHER -> Emit(acc, o)

AddFStackOps(b, fin, xin) ==
  FoldLeftDomain(LAMBDA acc, i : AddFStackOp(b, acc, i),
                 [st |-> BeginBlock(fin, xin), ops |-> <<>>], code[b])

FStackAllocation ==
  /\ pass = "fstack"
  /\ LET slots == FSlots
         fin == [b \in Block |-> IF b = Entry THEN slots.before ELSE slots.after]
         added == [b \in Block |-> AddFStackOps(b, fin[b], layout.xin[b])]
     IN /\ code' = [b \in Block |-> added[b].ops]
        /\ layout' = [layout EXCEPT
             !.fin = fin,
             !.fout = [b \in Block |-> slots.after],
             !.fx = [b \in Block |-> Len(added[b].st.f) + Len(added[b].st.x)]]
        /\ failed' = (failed \/ \E b \in Block : ~added[b].st.ok)
  /\ pass' = IF optimise THEN "fstack.opt" ELSE "done"
  /\ UNCHANGED program

Next == LStackAllocation \/ PeepholeOptimization \/ XStackAllocation \/ FStackAllocation

-----------------------------------------------------------------------------
(* Execution of a block, from its start to its terminator.  At the start   *)
(* each of the given locals has its value where the block finds it: in its *)
(* slot of the x-stack or the f-stack, or else in memory.                  *)

Given(v) == Result(-1, v)
Junk == Result(-2, 0)
Home(fs, xs, v) == IF v \in Range(xs) THEN Len(fs) + IndexOf(xs, v) ELSE IndexOf(fs, v)

Run(ops, fs, xs, given) ==
  LET slots == fs \o xs
      Value(v) == IF v \in given THEN Given(v) ELSE Junk
  IN FoldLeft(Exec,
       [stack |-> [i \in DOMAIN slots |->
                     IF Home(fs, xs, slots[i]) = i THEN Value(slots[i]) ELSE Junk],
        memory |-> [v \in Local |-> IF v \in Range(slots) THEN Junk ELSE Value(v)],
        operands |-> <<>>, ok |-> TRUE],
       ops)

(* What the source means, and what the code does.                          *)
Meant(b) == Run(source[b], <<>>, <<>>, Local)
Done(b, given) == Run(code[b], layout.fin[b], layout.xin[b], given)

(* The values that the terminator takes; those that are returned are taken *)
(* from the base of the frame, over fx values that are left there.         *)
Taken(b, m, fx) ==
  IF term[b].returns THEN Returned(m.stack, term[b].consumes, fx)
                     ELSE TopOf(m.stack, term[b].consumes)

(* The locals whose values at the start of a block are needed: they reach  *)
(* an operand of an op or a terminator, there or in a later block.         *)
Operands(b, m) ==
  UNION {Range(o[2]) : o \in Range(m.operands)} \cup Range(Taken(b, m, 0))
NeededBy(b, used) ==
  LET m == Meant(b)
      operands == Operands(b, m)
      later == {w \in Local : \E c \in succ[b] : <<c, w>> \in used}
  IN {v \in Local : Given(v) \in operands \/ \E w \in later : m.memory[w] = Given(v)}
Needed ==
  LET within[k \in 0..(NumBlocks * Cardinality(Local))] ==
        IF k = 0 THEN {}
        ELSE LET later == within[k - 1]
             IN UNION {{b} \X NeededBy(b, later) : b \in Block}
  IN within[NumBlocks * Cardinality(Local)]
NeededAt(needed, b) == {v \in Local : <<b, v>> \in needed}

-----------------------------------------------------------------------------
(* Properties                                                              *)

(* Each op and each terminator is given the values that the loads and      *)
(* stores of the source say, and a subroutine returns its values and not   *)
(* what it leaves on the f-stack and the x-stack.                          *)
OperandsAreKept ==
  pass = "done" =>
    LET needed == Needed
    IN \A b \in Block :
         LET meant == Meant(b)
             done == Done(b, NeededAt(needed, b))
         IN /\ done.ok
            /\ done.operands = meant.operands
            /\ term[b].returns => Len(done.stack) = layout.fx[b] + term[b].consumes
            /\ Taken(b, done, layout.fx[b]) = Taken(b, meant, 0)

(* The blocks agree about the stack on each edge, and where a block ends   *)
(* the locals whose values are needed have them where the next block looks *)
(* for them.                                                               *)
LocalsAreHandedOver ==
  pass = "done" =>
    LET needed == Needed
    IN \A b \in Block : succ[b] # {} =>
         LET meant == Meant(b)
             done == Done(b, NeededAt(needed, b))
             fs == layout.fout[b]
             xs == layout.xout[b]
         IN /\ \A c \in succ[b] : fs = layout.fin[c] /\ xs = layout.xin[c]
            /\ Len(done.stack) = Len(fs) + Len(xs) + term[b].consumes
            /\ \A v \in UNION {NeededAt(needed, c) : c \in succ[b]} :
                 LET place == Home(fs, xs, v)
                 IN meant.memory[v] = IF place = 0 THEN done.memory[v] ELSE done.stack[place]

(* No assertion of a pass or of the virtual stack fails, no local is       *)
(* looked for where it is not, and the x-stack can be brought in order.    *)
AllocationSucceeds == ~failed

(* "local_ids on x-stack on entry to a block" (models.py, x_stack_in): when *)
(* the subroutine is entered there is nothing on the x-stack.              *)
EntryHasNoTransfers == layout.xin[Entry] = <<>>
=============================================================================
