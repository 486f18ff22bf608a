---------------------------- MODULE MCOptimizer ----------------------------
EXTENDS Optimizer

CONSTANTS
  Shapes,       \* shapes of the control flow
  EntryObserves \* whether the subroutine begins with a call

(* Register 3 is a parameter, 4 is defined by an op, 5 by an op or a phi,  *)
(* and 6 by a phi of two values or by a call, the first thing that is done *)
(* but for another call, without a result, if EntryObserves.               *)
MCParam == {3}
MCTemps == {5}
MCNotOf == [r \in 3..100 |-> r + 50]

PredsIn(term, c) == {b \in DOMAIN term : c \in Range(term[b].targets)}
Joins(term, most) ==
  {c \in DOMAIN term : Cardinality(PredsIn(term, c)) \in 2..most}

(* The terminators of the blocks, for a condition x and another value y.   *)
If(x, y) == <<Branch(x, 3, 2), Goto(3), Return(<<y>>)>>
IfElse(x, y) == <<Branch(x, 3, 2), Goto(4), Goto(4), Return(<<y>>)>>
And(x, y) == <<Branch(3, 4, 2), Branch(x, 4, 3), Goto(4), Return(<<y>>)>>
Nth(x, y) == <<GotoNth(x, <<2, 3>>), Goto(4), Return(<<x>>), Return(<<y>>)>>
Cases(x, y) == <<Switch(x, <<1>>, <<2, 3>>), Goto(3), Return(<<y>>)>>
Sparse(x, y) == <<Switch(x, <<2>>, <<2, 3>>), Goto(3), Exit(y)>>
Break(x, y) == <<Goto(2), Branch(x, 5, 3), Branch(y, 4, 5), Goto(2), Return(<<y>>)>>
Errors(x, y) == <<Branch(x, 2, 3), Fail, Branch(y, 5, 4), Fail, Return(<<y>>)>>
TermsOf(shape, x, y) ==
  CASE shape = "if" -> If(x, y)
    [] shape = "else" -> IfElse(x, y)
    [] shape = "and" -> And(x, y)
    [] shape = "nth" -> Nth(x, y)
    [] shape = "switch" -> Cases(x, y)
    [] shape = "sparse" -> Sparse(x, y)
    [] shape = "break" -> Break(x, y)
    [] shape = "errors" -> Errors(x, y)

Pure(r, args) == {Copy(<<r>>, <<s>>) : s \in {0, 1} \cup args}
                   \cup {Not(r, s) : s \in args}
Effects(r, args) == {Op("f", <<r>>, <<s>>) : s \in args}
Any4(term) == [block : DOMAIN term, op : Pure(4, {3, 6})]
Any5(term) == [block : DOMAIN term, op : Pure(5, {3, 4, 6}) \cup Effects(5, {4})]
First6 == [block : {1}, op : Effects(6, {3})]
PhisIn(term, most) ==
  UNION {[join : {c}, args : [PredsIn(term, c) -> 4..6]] : c \in Joins(term, most)}

ProgramOf(term, defs) ==
  LET opsAt(b) ==
        FlattenSeq([i \in 1..3 |->
          LET d == defs[<<3, 1, 2>>[i]]
          IN IF "op" \in DOMAIN d /\ d.block = b THEN <<d.op>> ELSE <<>>])
      phisAt(b) == {i \in 1..3 : "args" \in DOMAIN defs[i] /\ defs[i].join = b}
  IN [body |-> [b \in DOMAIN term |-> b],
      phis |-> [b \in DOMAIN term |-> [r \in {3 + i : i \in phisAt(b)} |-> defs[r - 3].args]],
      ops |-> [b \in DOMAIN term |->
                 (IF b = 1 /\ EntryObserves THEN <<Op("g", <<>>, <<>>)>> ELSE <<>>) \o opsAt(b)],
      term |-> term,
      preds |-> [b \in DOMAIN term |-> PredsIn(term, b)],
      error |-> FALSE]

DominatorsOf ==
  [shape \in Shapes |->
     LET term == TermsOf(shape, 4, 4)
         nothing == [block |-> 0, op |-> Copy(<<>>, <<>>)]
     IN Dominators(ProgramOf(term, <<nothing, nothing, nothing>>))]

(* Nothing is computed in vain, other than by a call.                      *)
ArgsOf(d) == Range(IF "op" \in DOMAIN d THEN d.op.args ELSE d.args)
NothingUnused(x, y, o, p, q) ==
  /\ 4 \in {x, y} \cup ArgsOf(p) \cup ArgsOf(q)
  /\ IF "op" \in DOMAIN p THEN o.block <= p.block
     ELSE "args" \in DOMAIN q => p.join = q.join
  /\ 5 \in {x, y} \cup ArgsOf(o) \cup ArgsOf(q)
       \/ ("op" \in DOMAIN p /\ IsCall(p.op))
  /\ 6 \in {x, y} \cup ArgsOf(o) \cup ArgsOf(p) \/ "op" \in DOMAIN q

MCInit ==
  /\ \E shape \in Shapes, x \in 4..6, y \in 4..6 :
       LET term == TermsOf(shape, x, y)
           sixes == First6 \cup PhisIn(term, 2)
       IN \E o \in Any4(term), p \in Any5(term) \cup PhisIn(term, 3) :
          \E q \in {d \in sixes : NothingUnused(x, y, o, p, d)} :
            /\ source = ProgramOf(term, <<o, p, q>>)
            /\ UsesComeAfter(source, DominatorsOf[shape])
            /\ Valid(source)
  /\ code = source
  /\ pass = "split copies"
  /\ modified = FALSE
  /\ round = 1
  /\ times = 0
  /\ seen = [was |-> Stop("nothing", <<>>), is |-> Stop("nothing", <<>>)]

MCSpec == MCInit /\ [][Next]_vars
=============================================================================
