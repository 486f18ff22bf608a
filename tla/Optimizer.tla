----------------------------- MODULE Optimizer -----------------------------
(***************************************************************************)
(* The control flow and copy passes of the IR optimiser (puya/ir/optimize, *)
(* and puya/ir/destructure/optimize.py for what is repeated after SSA).    *)
(* A pass is an action; the passes run in the order of the pipeline, some  *)
(* again and again by themselves, and the pipeline again until no pass     *)
(* modifies anything.  When that is done the subroutine as it was and as   *)
(* it is now are executed side by side, from one observable event to the   *)
(* next.                                                                   *)
(*                                                                         *)
(* A definition F_Fault is F with a plausible mistake; it is used only to  *)
(* see that a property notices the mistake.                                *)
(***************************************************************************)
EXTENDS IRPrograms

CONSTANTS
  Temps,    \* registers whose name marks them as temporary
  NotOf,    \* for each register the one that is named after its negation
  MaxRounds, \* bound: rounds of the pipeline (MAX_PASSES)
  MaxTimes   \* bound: times that a pass runs again by itself

ASSUME OptimizerAssumption ==
  /\ \A r \in DOMAIN NotOf : r > MaxConst /\ NotOf[r] > MaxConst
  /\ MaxRounds \in Nat
  /\ MaxTimes \in Nat

VARIABLES
  source,   \* the subroutine as it was built
  code,     \* the subroutine now
  pass,     \* the pass that runs next
  modified, \* program_modified
  round,    \* pass_num
  times,    \* how often the pass has run again by itself
  seen      \* the next event of each of the two

vars == <<source, code, pass, modified, round, times, seen>>

-----------------------------------------------------------------------------
(* Copies and constants                                                    *)

MapOps(P, F(_)) ==
  [P EXCEPT !.ops = [b \in DOMAIN @ |->
                       IF b \in Blocks(P)
                       THEN FlattenSeq([i \in DOMAIN @[b] |-> F(@[b][i])])
                       ELSE @[b]]]

(* _split_parallel_copies                                                  *)
Sequential(o) ==
  IF o.kind = "copy" /\ Len(o.targets) > 1
  THEN [i \in DOMAIN o.targets |-> Copy(<<o.targets[i]>>, <<o.args[i]>>)]
  ELSE <<o>>
SplitParallelCopies(P) ==
  [MapOps(P, Sequential) EXCEPT
     !.error = @ \/ \E p \in Places(P) :
                      LET o == OpAt(P, p)
                      IN /\ o.kind = "copy"
                         /\ Len(o.targets) > 1
                         /\ Targets(o) \cap Range(o.args) # {}]

(* Reads of registers, other than by phis, become reads of the values f    *)
(* gives for them.                                                         *)
Subst(f, x) == IF x \in DOMAIN f THEN f[x] ELSE x
SubstAll(f, s) == [i \in DOMAIN s |-> Subst(f, s[i])]
ReadsReplaced(P, f) ==
  LET Replaced(o) == <<[o EXCEPT !.args = SubstAll(f, @)]>>
  IN [MapOps(P, Replaced) EXCEPT
        !.term = [b \in DOMAIN @ |-> [@[b] EXCEPT !.args = SubstAll(f, @)]]]

(* constant_replacer: a copy of a constant is one, and a phi all of whose  *)
(* arguments are the same one.                                             *)
ConstantPhi(phi, known) ==
  /\ Range(phi) \subseteq DOMAIN known
  /\ Cardinality({known[r] : r \in Range(phi)}) = 1
Constants(P) ==
  LET copies == {o \in {OpAt(P, p) : p \in Places(P)} : o.kind = "copy"}
      phiRegs == UNION {{b} \X DOMAIN P.phis[b] : b \in Blocks(P)}
      more(known) ==
        [r \in {o.targets[1] : o \in {c \in copies : ~IsReg(Subst(known, c.args[1]))}}
               \cup {d[2] : d \in {e \in phiRegs : ConstantPhi(P.phis[e[1]][e[2]], known)}} |->
           IF \E o \in copies : o.targets[1] = r
           THEN Subst(known, (CHOOSE o \in copies : o.targets[1] = r).args[1])
           ELSE LET d == CHOOSE e \in phiRegs : e[2] = r
                    a == CHOOSE x \in Range(P.phis[d[1]][r]) : x \in DOMAIN known
                IN known[a]]
      after[k \in Nat] == IF k = 0 THEN [r \in {} |-> 0] ELSE more(after[k - 1])
  IN after[Cardinality(copies) + Cardinality(phiRegs)]
ConstantReplacer(P) == ReadsReplaced(P, Constants(P))

-----------------------------------------------------------------------------
(* copy_propagation                                                        *)

IsCopy(o) == o.kind = "copy" /\ Len(o.targets) = 1 /\ IsReg(o.args[1])
Copies(P) ==
  FlattenSeq([i \in DOMAIN P.body |-> SelectSeq(P.ops[P.body[i]], IsCopy)])

(* set_lookup and all_equivalence_sets, after one more copy                *)
Joined(acc, o) ==
  LET new == o.args[1] \notin DOMAIN acc.lookup
      i == IF new THEN Len(acc.sets) + 1 ELSE acc.lookup[o.args[1]]
  IN [lookup |-> [r \in DOMAIN acc.lookup \cup Registers(o.args) \cup Targets(o) |->
                    IF r \in Targets(o) \/ (new /\ r = o.args[1]) THEN i
                    ELSE acc.lookup[r]],
      sets |-> IF new THEN Append(acc.sets, o.args \o o.targets)
               ELSE [acc.sets EXCEPT ![i] = @ \o o.targets]]
Equivalences(P) ==
  FoldLeft(Joined, [lookup |-> [r \in {} |-> 0], sets |-> <<>>], Copies(P))

(* The parameter, if there is one, otherwise the first that is no          *)
(* temporary, otherwise the first.                                         *)
Representative(set) ==
  LET params == {i \in DOMAIN set : set[i] \in Param}
      named == {i \in DOMAIN set : set[i] \notin Temps}
  IN set[IF params # {} THEN Min(params)
         ELSE IF named # {} THEN Min(named) ELSE 1]
WithRepresentative(f, set) ==
  [r \in DOMAIN f \cup (Range(set) \ {Representative(set)}) |->
     IF r \in Range(set) /\ r # Representative(set) THEN Representative(set)
                                                    ELSE f[r]]

(* A phi whose arguments have become the same register is that register.   *)
PhiReplaced(acc, d) ==
  LET args == {Subst(acc.f, a) : a \in Range(acc.P.phis[d[1]][d[2]])}
      single == CHOOSE a \in args : TRUE
  IN IF d[2] \in acc.copied \/ Cardinality(args) # 1 THEN acc
     ELSE [acc EXCEPT
             !.f = [r \in DOMAIN @ \cup {d[2]} |-> IF r = d[2] THEN single ELSE @[r]],
             !.P.phis[d[1]] = Restrict(@, DOMAIN @ \ {d[2]}),
             !.P.error = @ \/ single \in DOMAIN acc.f]

PhisInOrder(P) ==
  FlattenSeq([i \in DOMAIN P.body |->
    LET regs == Sorted(DOMAIN P.phis[P.body[i]])
    IN [j \in DOMAIN regs |-> <<P.body[i], regs[j]>>]])

(* MemoryReplacer                                                          *)
Renamed(P, f) ==
  LET renamedOp(o) == <<[o EXCEPT !.targets = SubstAll(f, @)]>>
      renamedPhis(phis) ==
        [r \in {Subst(f, s) : s \in DOMAIN phis} |->
           LET was == CHOOSE s \in DOMAIN phis : Subst(f, s) = r
           IN [b \in DOMAIN phis[was] |-> Subst(f, phis[was][b])]]
  IN [MapOps(ReadsReplaced(P, f), renamedOp) EXCEPT
        !.phis = [b \in DOMAIN @ |-> renamedPhis(@[b])],
        !.error = @ \/ \E r \in DOMAIN f : f[r] \in DOMAIN f
                                           /\ r \in AllUsed(P) \cup Range(AllDefinitions(P))]

CopyPropagation(P) ==
  LET equal == Equivalences(P)
      others(o) == IF IsCopy(o) THEN <<>> ELSE <<o>>
      merged ==
        FoldLeft(PhiReplaced,
                 [P |-> MapOps(P, others),
                  copied |-> DOMAIN equal.lookup,
                  f |-> FoldLeft(WithRepresentative, [r \in {} |-> 0], equal.sets)],
                 PhisInOrder(P))
      twoParams == \E set \in Range(equal.sets) : Cardinality(Range(set) \cap Param) > 1
  IN [Renamed(merged.P, merged.f) EXCEPT !.error = @ \/ twoParams]

-----------------------------------------------------------------------------
(* Dead code and simplification of ops                                     *)

(* remove_unused_variables: an argument of a phi is a use of it, and only  *)
(* what has no effects is removed.                                         *)
IsPure(o) == o.kind \in {"copy", "not"}
RemoveUnusedVariables(P) ==
  LET used == AllUsed(P)
      kept(o) == IF IsPure(o) /\ Targets(o) \cap used = {} THEN <<>> ELSE <<o>>
  IN [MapOps(P, kept) EXCEPT
        !.phis = [b \in DOMAIN @ |-> IF b \in Blocks(P)
                                     THEN Restrict(@[b], DOMAIN @[b] \cap used)
                                     ELSE @[b]]]

(* intrinsic_simplifier, as far as it is about negations and assertions of *)
(* constants: negations are evaluated, and their readers get the values.   *)
Negation(v) == IF v = 0 THEN 1 ELSE 0
Negations(P) == {o \in {OpAt(P, p) : p \in Places(P)} : o.kind = "not"}
Evaluated(P) ==
  LET nots == Negations(P)
      more(known) ==
        [r \in {o.targets[1] : o \in {n \in nots : ~IsReg(Subst(known, n.args[1]))}} |->
           Negation(Subst(known, (CHOOSE o \in nots : o.targets[1] = r).args[1]))]
      after[k \in Nat] == IF k = 0 THEN [r \in {} |-> 0] ELSE more(after[k - 1])
  IN after[Cardinality(nots)]
IntrinsicSimplifier(P) ==
  LET known == Evaluated(P)
      simplified(o) ==
        IF o.kind = "not" /\ o.targets[1] \in DOMAIN known
        THEN <<Copy(o.targets, <<known[o.targets[1]]>>)>>
        ELSE IF o.kind = "assert" /\ o.args[1] \in Const \ {0} THEN <<>> ELSE <<o>>
  IN MapOps(ReadsReplaced(P, known), simplified)

-----------------------------------------------------------------------------
(* simplify_control_ops                                                    *)

IsErr(P, c) == P.phis[c] = NoPhis /\ P.ops[c] = <<>> /\ P.term[c] = Fail

(* A new terminator for b, which leaves those of its targets that the new  *)
(* one does not have.                                                      *)
Retired(P, b, gone) ==
  FoldLeft(LAMBDA Q, c : RemovePredecessor(Q, c, b), P, Sorted(gone))
Terminated(P, b, ops, t) ==
  LET changed == [P EXCEPT !.ops[b] = @ \o ops, !.term[b] = t]
  IN Retired(changed, b, Successors(P, b) \ Range(t.targets))

(* A branch to an error is an assertion of the opposite.  Its negation has *)
(* a name of its own; wherever that is defined, it is not defined again.   *)
AssertNot(P, x) ==
  IF NotOf[x] \in Range(AllDefinitions(P)) THEN <<AssertThat(NotOf[x])>>
  ELSE <<Not(NotOf[x], x), AssertThat(NotOf[x])>>

IsNegated(P, x) == \E o \in Negations(P) : o.targets[1] = x
NegatedBy_Fault(P, x) == x
NegatedBy(P, x) == (CHOOSE o \in Negations(P) : o.targets[1] = x).args[1]

Swapped(t) == <<t.targets[2], t.targets[1]>>

(* _can_simplify_switch: less than half of the cases are the default one.  *)
IsDense(t) ==
  LET total == Max(Range(t.cases))
  IN 2 * (total - Len(t.cases)) < total
NthTargets(t) ==
  [i \in 1..(Max(Range(t.cases)) + 1) |-> TargetFor(t, i - 1)]

SimplifyBlock(P, b) ==
  LET t == P.term[b]
      x == t.args[1]
  IN CASE t.kind = "exit" /\ x = 0 -> Terminated(P, b, <<>>, Fail)
       [] t.kind = "branch" /\ ~IsReg(x) ->
            Terminated(P, b, <<>>, Goto(TargetFor(t, x)))
       [] t.kind = "branch" /\ IsReg(x) /\ IsErr(P, t.targets[1]) ->
            Terminated(P, b, <<AssertThat(x)>>, Goto(t.targets[2]))
       [] t.kind = "branch" /\ IsReg(x) /\ ~IsErr(P, t.targets[1])
             /\ IsErr(P, t.targets[2]) ->
            Terminated(P, b, AssertNot(P, x), Goto(t.targets[1]))
       [] t.kind = "branch" /\ IsReg(x) /\ ~IsErr(P, t.targets[1])
             /\ ~IsErr(P, t.targets[2]) /\ IsNegated(P, x) ->
            Terminated(P, b, <<>>, Jump("branch", <<NegatedBy(P, x)>>, <<0>>, Swapped(t)))
       [] t.kind = "switch" /\ IsDense(t) ->
            Terminated(P, b, <<>>,
                       GotoNth(x, Append(NthTargets(t), Last(t.targets))))
       [] t.kind = "nth" /\ ~IsReg(x) ->
            Terminated(P, b, <<>>, Goto(TargetFor(t, x)))
       [] t.kind = "nth" /\ IsReg(x) /\ Len(t.cases) = 1 ->
            Terminated(P, b, <<>>, Branch(x, t.targets[1], t.targets[2]))
       [] OTHER ->
            IF Cardinality(Range(t.targets)) = 1
            THEN Terminated(P, b, <<>>, Goto(Head(t.targets))) ELSE P

SimplifyControlOps(P) == FoldLeft(SimplifyBlock, P, P.body)

-----------------------------------------------------------------------------
(* Blocks                                                                  *)

(* merge_blocks                                                            *)
CanMerge(P, b) ==
  \E p \in P.preds[b] :
    P.preds[b] = {p} /\ P.term[p].kind = "goto" /\ P.phis[b] = NoPhis
MergeBlock(P, b) ==
  IF b = Entry(P) \/ ~CanMerge(P, b) THEN P
  ELSE LET p == CHOOSE q \in P.preds[b] : TRUE
           merged == [P EXCEPT !.ops[p] = @ \o P.ops[b],
                               !.term[p] = P.term[b],
                               !.body = SelectSeq(@, LAMBDA c : c # b)]
       IN FoldLeft(LAMBDA Q, c : ReplacePredecessor(Q, c, b, p), merged,
                   Sorted(Successors(P, b)))
MergeBlocks(P) == FoldLeft(MergeBlock, P, P.body)

(* retarget_and_simplify                                                   *)
OnlyTarget(t) ==
  IF Cardinality(Range(t.targets)) = 1 THEN Goto(Head(t.targets)) ELSE t
Retarget(P, old, new) ==
  [P EXCEPT
     !.term = [b \in DOMAIN @ |->
                 IF b \in P.preds[old]
                 THEN OnlyTarget([@[b] EXCEPT !.targets =
                        [i \in DOMAIN @ |-> IF @[i] = old THEN new ELSE @[i]]])
                 ELSE @[b]],
     !.preds[new] = @ \cup P.preds[old]]

(* remove_linear_jumps: jumps[b] is where the empty block b goes.          *)
IsLinearJump(P, b) ==
  /\ P.phis[b] = NoPhis /\ P.ops[b] = <<>> /\ P.term[b].kind = "goto"
  /\ LET target == P.term[b].targets[1]
     IN target # b /\ P.phis[target] = NoPhis

RemoveLinearJumps(P) ==
  LET isJump(b) == IsLinearJump(P, b)
      removed == SelectSeq(P.body, isJump)
      jumps == [b \in Range(removed) |-> P.term[b].targets[1]]
      chain(b) ==
        LET next[k \in Nat] == IF k = 0 THEN jumps[b] ELSE Subst(jumps, next[k - 1])
        IN [k \in 1..(Len(removed) + 1) |-> next[k - 1]]
      remove(Q, b) ==
        LET to == chain(b)
        IN Retarget([Q EXCEPT !.preds = [c \in DOMAIN @ |->
                                           IF c \in Range(to) THEN @[c] \ {b} ELSE @[c]],
                              !.error = @ \/ Last(to) \in DOMAIN jumps],
                    b, Last(to))
  IN [FoldLeft(remove, P, removed) EXCEPT
        !.body = SelectSeq(@, LAMBDA b : b \notin DOMAIN jumps)]

(* remove_unreachable_blocks                                               *)
RemoveUnreachableBlocks(P) ==
  LET reached == Reached(P)
      isLost(b) == b \notin reached
      leave(Q, b) ==
        FoldLeft(LAMBDA R, c : [RemovePredecessor(R, c, b) EXCEPT
                                  !.error = @ \/ b \notin R.preds[c]],
                 Q, Sorted(Successors(Q, b) \cap reached))
  IN [FoldLeft(leave, P, SelectSeq(P.body, isLost)) EXCEPT
        !.body = SelectSeq(@, LAMBDA b : b \in reached)]

(* repeated_expression_elimination: the negations and assertions that a    *)
(* dominating place, or an earlier one of the block, has already made.     *)
Comes_Fault(dom, p, q) == IF p[1] = q[1] THEN p[2] < q[2] ELSE p[1] < q[1]
Comes(dom, p, q) == Before(dom, p, q)
EliminateRepeated(P) ==
  LET dom == Dominators(P)
      mine == {p \in Places(P) : OpAt(P, p).kind \in {"not", "assert"}}
      same(p) == {q \in mine : /\ OpAt(P, q).kind = OpAt(P, p).kind
                               /\ OpAt(P, q).args = OpAt(P, p).args
                               /\ Comes(dom, q, p)}
      first(p) == CHOOSE q \in same(p) : same(q) = {}
      reduced(p) ==
        LET o == OpAt(P, p)
        IN IF p \notin mine \/ same(p) = {} THEN <<o>>
           ELSE IF o.kind = "assert" THEN <<>>
           ELSE <<Copy(o.targets, OpAt(P, first(p)).targets)>>
  IN [P EXCEPT !.ops = [b \in DOMAIN @ |->
        IF b \in Blocks(P)
        THEN FlattenSeq([i \in DOMAIN @[b] |-> reduced(<<b, i>>)]) ELSE @[b]]]
RepeatedExpressionElimination(P) ==
  LET reduced == EliminateRepeated(P)
  IN IF reduced = P THEN P ELSE CopyPropagation(reduced)

(* _block_deduplication                                                    *)
Deduplicate(acc, b) ==
  LET P == acc.P
      key == <<P.phis[b], P.ops[b], P.term[b]>>
      first == {k \in DOMAIN acc.seen : k = key}
  IN IF first = {}
     THEN [acc EXCEPT !.seen = [k \in DOMAIN @ \cup {key} |-> IF k = key THEN b ELSE @[k]]]
     ELSE LET to == acc.seen[key]
              left == FoldLeft(LAMBDA Q, c : ReplacePredecessor(Q, c, b, to), P,
                               Sorted(Successors(P, b)))
          IN [acc EXCEPT !.P = [Retarget(left, b, to) EXCEPT
                                  !.body = SelectSeq(@, LAMBDA c : c # b)]]
BlockDeduplication(P) ==
  FoldLeft(Deduplicate, [P |-> P, seen |-> [k \in {} |-> 0]], P.body).P

-----------------------------------------------------------------------------
(* The pipeline                                                            *)

(* A pass: what it makes of the code, and where it goes on from there; one *)
(* with a loop comes again as long as it modifies the code.                *)
RunPass(name, new, loop, next) ==
  /\ pass = name
  /\ ~code.error
  /\ code' = new
  /\ modified' = (modified \/ new # code)
  /\ IF loop /\ new # code THEN /\ times <= MaxTimes
                                /\ times' = times + 1
                                /\ pass' = name
                           ELSE /\ times' = 0
                                /\ pass' = next
  /\ UNCHANGED <<source, round, seen>>

Split ==
  RunPass("split copies", SplitParallelCopies(code), FALSE, "constants")
ReplaceConstants ==
  RunPass("constants", ConstantReplacer(code), FALSE, "copies")
PropagateCopies ==
  RunPass("copies", CopyPropagation(code), FALSE, "unused")
RemoveUnused ==
  RunPass("unused", RemoveUnusedVariables(code), TRUE, "intrinsics")
SimplifyIntrinsics ==
  RunPass("intrinsics", IntrinsicSimplifier(code), FALSE, "control")
SimplifyControl ==
  RunPass("control", SimplifyControlOps(code), TRUE, "merge")
Merge ==
  RunPass("merge", MergeBlocks(code), FALSE, "jumps")
RemoveJumps ==
  RunPass("jumps", RemoveLinearJumps(code), FALSE, "unreachable")
RemoveUnreachable ==
  RunPass("unreachable", RemoveUnreachableBlocks(code), FALSE, "repeated")
EliminateExpressions ==
  RunPass("repeated", RepeatedExpressionElimination(code), TRUE, "validate")

(* The end of a round: validate_with_ssa, and another round if anything    *)
(* was modified.                                                           *)
EndRound ==
  /\ pass = "validate"
  /\ ~code.error
  /\ code' = [code EXCEPT !.error = ~Valid(code)]
  /\ modified' = FALSE
  /\ IF modified THEN /\ round <= MaxRounds
                      /\ round' = round + 1
                      /\ pass' = "split copies"
                 ELSE /\ round' = round
                      /\ pass' = "post"
  /\ UNCHANGED <<source, times, seen>>

(* post_ssa_optimizer, where there are no phis and the way out of SSA has  *)
(* nothing else to do; blocks are deduplicated at optimization_level 2.     *)
InSSAOnly(P) == \E b \in Blocks(P) : P.phis[b] # NoPhis
PostOptimize(deduplicate) ==
  /\ pass = "post"
  /\ ~code.error
  /\ code' = IF InSSAOnly(code) THEN code
             ELSE LET fewer == RemoveLinearJumps(code)
                  IN IF deduplicate THEN BlockDeduplication(fewer) ELSE fewer
  /\ pass' = "start"
  /\ UNCHANGED <<source, modified, round, times, seen>>

-----------------------------------------------------------------------------
(* The two subroutines, side by side                                       *)

Fuel == 30
Both(was, is) ==
  [was |-> NextEvent(source, was.block, was.op, was.env, Fuel),
   is |-> NextEvent(code, is.block, is.op, is.env, Fuel)]
AtEntry(P, env) == Event("start", <<>>, Entry(P), 1, env)

Start ==
  /\ pass = "start"
  /\ ~code.error
  /\ \E env \in [Param -> Const] :
       seen' = Both(AtEntry(source, env), AtEntry(code, env))
  /\ pass' = "run"
  /\ UNCHANGED <<source, code, modified, round, times>>

(* A call returns any value.                                               *)
After(P, e, v) ==
  LET targets == P.ops[e.block][e.op].targets
  IN [e EXCEPT !.op = @ + 1,
               !.env = Assign(@, targets, [i \in DOMAIN targets |-> v])]
SameEvent(e, f) == e.what = f.what /\ e.values = f.values

GoOn ==
  /\ pass = "run"
  /\ seen.was.block # 0
  /\ SameEvent(seen.was, seen.is)
  /\ \E v \in Const :
       seen' = Both(After(source, seen.was, v), After(code, seen.is, v))
  /\ UNCHANGED <<source, code, pass, modified, round, times>>

Init ==
  /\ Valid(source) /\ UsesComeAfter(source, Dominators(source)) /\ ~source.error
  /\ code = source
  /\ pass = "split copies"
  /\ modified = FALSE
  /\ round = 1
  /\ times = 0
  /\ seen = [was |-> Stop("nothing", <<>>), is |-> Stop("nothing", <<>>)]

Optimize ==
  \/ Split \/ ReplaceConstants \/ PropagateCopies \/ RemoveUnused
  \/ SimplifyIntrinsics \/ SimplifyControl \/ Merge \/ RemoveJumps
  \/ RemoveUnreachable \/ EliminateExpressions \/ EndRound
  \/ \E deduplicate \in BOOLEAN : PostOptimize(deduplicate)
Next == Optimize \/ Start \/ GoOn

Spec == Init /\ [][Next]_vars

-----------------------------------------------------------------------------
(* Properties                                                              *)

(* Optimisation changes nothing that can be observed: the same calls with  *)
(* the same arguments in the same order, and the same end, whatever the    *)
(* calls return.                                                           *)
SameObservations == pass = "run" => SameEvent(seen.was, seen.is)

(* No pass meets an assertion or an InternalError, and what each round of  *)
(* them leaves is valid.                                                   *)
OptimizerSucceeds == ~code.error

(* The passes stop modifying the subroutine: one that runs again by itself *)
(* does so a few times only, and so does the pipeline.                     *)
FixedPointReached == round <= MaxRounds /\ times <= MaxTimes
=============================================================================
