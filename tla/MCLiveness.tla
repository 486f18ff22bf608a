----------------------------- MODULE MCLiveness -----------------------------
EXTENDS Liveness

CONSTANTS x, y

(* What an op uses and what it defines: the loads and the stores of two    *)
(* locals, a copy of one to the other, and an op that touches neither.     *)
Uses == {{}, {x}, {y}}
Effects == (Uses \X {{}}) \cup ({{}} \X Uses) \cup {<<{y}, {x}>>}

FewSuccessors == {T \in SUBSET Op : Cardinality(T) <= MaxSuccessors}

MCInit ==
  /\ \E successors \in [Op -> FewSuccessors], effect \in [Op -> Effects] :
       graph = [succ |-> successors,
                used |-> [n \in Op |-> effect[n][1]],
                defined |-> [n \in Op |-> effect[n][2]]]
  /\ liveIn = Nothing
  /\ liveOut = Nothing
  /\ round = AllReversed
  /\ changed = <<>>

MCSpec == MCInit /\ [][Next]_vars /\ WF_vars(Next)
=============================================================================
