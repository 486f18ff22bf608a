----------------------------- MODULE IRPrograms -----------------------------
(***************************************************************************)
(* Subroutines of the IR (puya/ir/models.py) as values: blocks in order,   *)
(* with phis, ops, a terminator and a list of predecessors that whoever    *)
(* changes a terminator has to keep up to date; the operations on that     *)
(* list, what validate_with_ssa accepts, and what a subroutine does when   *)
(* it is executed.                                                         *)
(*                                                                         *)
(* A definition F_Fault is F with a plausible mistake; it is used only to  *)
(* see that a property notices the mistake.                                *)
(***************************************************************************)
EXTENDS Integers, SequencesExt

CONSTANTS
  MaxConst, \* constants are the numbers up to it, registers are larger ones
  Param     \* the registers that are parameters

ASSUME ProgramAssumption ==
  /\ MaxConst \in Nat
  /\ Param \subseteq Nat \ (0..MaxConst)

Const == 0..MaxConst
IsReg(x) == x \notin Const

(* The assignment of values to targets, where a copy of several values is  *)
(* parallel; the negation of a value; an assertion; and anything else,     *)
(* which has effects that can be observed and is named by its kind.        *)
Op(kind, targets, args) == [kind |-> kind, targets |-> targets, args |-> args]
Copy(targets, args) == Op("copy", targets, args)
Not(target, arg) == Op("not", <<target>>, <<arg>>)
AssertThat(arg) == Op("assert", <<>>, <<arg>>)
IsCall(o) == o.kind \notin {"copy", "not", "assert"}

(* A terminator jumps to the target that stands where its argument stands  *)
(* among the cases, otherwise to the last one, or ends the subroutine.     *)
Jump(kind, args, cases, targets) ==
  [kind |-> kind, args |-> args, cases |-> cases, targets |-> targets]
Goto(b) == Jump("goto", <<>>, <<>>, <<b>>)
Branch(arg, zero, nonZero) == Jump("branch", <<arg>>, <<0>>, <<zero, nonZero>>)
GotoNth(arg, targets) ==
  Jump("nth", <<arg>>, [i \in 1..(Len(targets) - 1) |-> i - 1], targets)
Switch(arg, cases, targets) == Jump("switch", <<arg>>, cases, targets)
Fail == Jump("fail", <<>>, <<>>, <<>>)
Exit(arg) == Jump("exit", <<arg>>, <<>>, <<>>)
Return(args) == Jump("return", args, <<>>, <<>>)

(* A program P is a record: body, the blocks in order; phis, for each      *)
(* register defined by a phi of a block its argument through each          *)
(* predecessor; ops; term; preds; and error, whether an assertion or an    *)
(* InternalError has been met.                                             *)
NoPhis == [r \in {} |-> r]
Entry(P) == Head(P.body)
Blocks(P) == Range(P.body)
Successors(P, b) == Range(P.term[b].targets)
Targets(o) == Range(o.targets)
Registers(s) == {x \in Range(s) : IsReg(x)}

-----------------------------------------------------------------------------
(* Predecessors                                                            *)

Sorted(S) == SetToSortSeq(S, LAMBDA x, y : x < y)

(* Phis that are left with one argument become one parallel copy.          *)
Collapsed(P, c) ==
  LET regs == Sorted(DOMAIN P.phis[c])
      only == CHOOSE b \in P.preds[c] : TRUE
      args == [i \in DOMAIN regs |-> P.phis[c][regs[i]][only]]
  IN [P EXCEPT !.phis[c] = NoPhis,
               !.ops[c] = <<Copy(regs, args)>> \o @,
               !.error = @ \/ Range(regs) \cap Range(args) # {}]

WithoutArgs_Fault(phis, b) == phis
WithoutArgs(phis, b) ==
  [r \in DOMAIN phis |-> Restrict(phis[r], DOMAIN phis[r] \ {b})]

RemovePredecessor(P, c, b) ==
  IF b \notin P.preds[c] THEN P
  ELSE LET removed ==
             [P EXCEPT !.preds[c] = @ \ {b},
                       !.phis[c] = WithoutArgs(@, b),
                       !.error = @ \/ \E r \in DOMAIN P.phis[c] :
                                        b \notin DOMAIN P.phis[c][r]]
       IN IF P.phis[c] # NoPhis /\ Cardinality(removed.preds[c]) = 1
          THEN Collapsed(removed, c) ELSE removed

ReplacePredecessor(P, c, old, new) ==
  [P EXCEPT
     !.preds[c] = (@ \ {old}) \cup {new},
     !.phis[c] = [r \in DOMAIN @ |->
                    [b \in (DOMAIN @[r] \ {old}) \cup {new} |->
                       IF b = new THEN @[r][old] ELSE @[r][b]]],
     !.error = @ \/ old \notin P.preds[c]]

-----------------------------------------------------------------------------
(* What validate_with_ssa accepts                                          *)

DefinitionsIn(P, b) ==
  Sorted(DOMAIN P.phis[b]) \o
  FlattenSeq([i \in DOMAIN P.ops[b] |-> P.ops[b][i].targets])
AllDefinitions(P) ==
  FlattenSeq([i \in DOMAIN P.body |-> DefinitionsIn(P, P.body[i])])

PhiArgs(P, b) == UNION {Range(P.phis[b][r]) : r \in DOMAIN P.phis[b]}
UsedIn(P, b) ==
  PhiArgs(P, b) \cup Registers(P.term[b].args)
    \cup UNION {Registers(o.args) : o \in Range(P.ops[b])}
AllUsed(P) == UNION {UsedIn(P, b) : b \in Blocks(P)}

Valid(P) ==
  /\ IsInjective(AllDefinitions(P))
  /\ AllUsed(P) \subseteq Param \cup Range(AllDefinitions(P))
  /\ \A b \in Blocks(P) :
       /\ Successors(P, b) \cup P.preds[b] \subseteq Blocks(P)
       /\ \A c \in Successors(P, b) : b \in P.preds[c]
       /\ \A r \in DOMAIN P.phis[b] : DOMAIN P.phis[b][r] = P.preds[b]

-----------------------------------------------------------------------------
(* Paths                                                                   *)

(* Blocks that control reaches from the entry without passing c.           *)
ReachedWithout(P, c) ==
  LET within[k \in Nat] ==
        IF k = 0 THEN {Entry(P)} \ {c}
        ELSE LET B == within[k - 1]
             IN B \cup (UNION {Successors(P, b) : b \in B} \ {c})
  IN within[Len(P.body)]
Reached(P) == ReachedWithout(P, 0)
Dominators(P) ==
  [b \in Reached(P) |-> {c \in Blocks(P) : b \notin ReachedWithout(P, c)}]

(* A place is the index of an op in a block; phis have 0, the terminator   *)
(* the index after the last.                                               *)
Before(dom, p, q) ==
  IF p[1] = q[1] THEN p[2] < q[2] ELSE p[1] \in dom[q[1]]
Places(P) == UNION {{b} \X DOMAIN P.ops[b] : b \in Blocks(P)}
OpAt(P, p) == P.ops[p[1]][p[2]]

Definitions(P) ==
  [p \in UNION {{b} \X (0..Len(P.ops[b])) : b \in Blocks(P)} |->
     IF p[2] = 0 THEN DOMAIN P.phis[p[1]] ELSE Targets(OpAt(P, p))]
Uses(P) ==
  [p \in UNION {{b} \X (1..(Len(P.ops[b]) + 1)) : b \in Blocks(P)} |->
     IF p[2] <= Len(P.ops[p[1]]) THEN Registers(OpAt(P, p).args)
     ELSE Registers(P.term[p[1]].args)
            \cup UNION {{P.phis[c][r][p[1]] : r \in DOMAIN P.phis[c]} :
                          c \in Successors(P, p[1])}]

(* Every use comes after the definition, on every path.                    *)
UsesComeAfter(P, dom) ==
  LET defs == Definitions(P)
      uses == Uses(P)
  IN \A p \in DOMAIN uses : \A r \in uses[p] \ Param :
       \E d \in DOMAIN defs : r \in defs[d] /\ Before(dom, d, p)

-----------------------------------------------------------------------------
(* Execution, up to the next thing that can be observed                    *)

Known(env, s) == \A x \in Registers(s) : x \in DOMAIN env
Values(env, s) == [i \in DOMAIN s |-> IF IsReg(s[i]) THEN env[s[i]] ELSE s[i]]
Assign(env, targets, values) ==
  [r \in DOMAIN env \cup Range(targets) |->
     IF r \in Range(targets)
     THEN values[CHOOSE i \in DOMAIN targets : targets[i] = r] ELSE env[r]]

(* All phis of a block execute in parallel when it is entered.             *)
Enter(P, b, c, env) ==
  LET regs == Sorted({r \in DOMAIN P.phis[c] : P.phis[c][r][b] \in DOMAIN env})
      args == [i \in DOMAIN regs |-> P.phis[c][regs[i]][b]]
      others == Restrict(env, DOMAIN env \ DOMAIN P.phis[c])
  IN Assign(others, regs, Values(env, args))

TargetFor(t, v) ==
  LET match == {i \in DOMAIN t.cases : t.cases[i] = v}
  IN IF match = {} THEN Last(t.targets) ELSE t.targets[CHOOSE i \in match : TRUE]

(* An event: what is seen of it, and where execution goes on, if it does.  *)
Event(what, values, block, op, env) ==
  [what |-> what, values |-> values, block |-> block, op |-> op, env |-> env]
Stop(what, values) == Event(what, values, 0, 0, [r \in {} |-> r])

(* The next event of P from op i of block b.  A register without a value   *)
(* is an event, and so is it to go on without end; "fuel" is more steps    *)
(* than there are before a state comes again.                              *)
RECURSIVE NextEvent(_, _, _, _, _)
NextEvent(P, b, i, env, fuel) ==
  LET atTerm == i > Len(P.ops[b])
      o == IF atTerm THEN P.term[b] ELSE P.ops[b][i]
      values == Values(env, o.args)
      goOn(e) == NextEvent(P, b, i + 1, e, fuel - 1)
  IN CASE fuel = 0 -> Stop("endless", <<>>)
       [] ~Known(env, o.args) -> Stop("undefined", <<>>)
       [] o.kind = "copy" -> goOn(Assign(env, o.targets, values))
       [] o.kind = "not" ->
            goOn(Assign(env, o.targets, IF values[1] = 0 THEN <<1>> ELSE <<0>>))
       [] o.kind = "assert" ->
            IF values[1] = 0 THEN Stop("fail", <<>>) ELSE goOn(env)
       [] atTerm /\ o.targets = <<>> ->
            IF o.kind = "exit" /\ values[1] = 0 THEN Stop("fail", <<>>)
                                                ELSE Stop(o.kind, values)
       [] atTerm ->
            LET c == TargetFor(o, IF values = <<>> THEN 0 ELSE values[1])
            IN NextEvent(P, c, 1, Enter(P, b, c, env), fuel - 1)
       [] OTHER -> Event(o.kind, values, b, i, env)
=============================================================================
