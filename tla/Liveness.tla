------------------------------ MODULE Liveness ------------------------------
(***************************************************************************)
(* The variable lifetime analysis (puya/ir/vla.py, and puya/mir/vla.py,    *)
(* whose loop is the same), one action for each visit of an op: the sets   *)
(* of an op are computed from those of its successors, and when they       *)
(* change its predecessors are visited again in the next round.            *)
(*                                                                         *)
(* The graph of the ops is any; the list of the predecessors of an op may  *)
(* have any order.                                                         *)
(*                                                                         *)
(* A definition F_Fault is F with a plausible mistake; it is used only to  *)
(* see that a property notices the mistake.                                *)
(***************************************************************************)
EXTENDS LiveVariables, SequencesExt

CONSTANTS
  NumOps,       \* ops of the subroutine
  Local,        \* its local variables, or registers
  MaxSuccessors \* bound: successors of an op

ASSUME LivenessAssumption ==
  /\ NumOps \in Nat
  /\ MaxSuccessors \in Nat

Op == 1..NumOps

VARIABLES
  graph,   \* the ops: their successors, and what they use and define
  liveIn,  \* live_in
  liveOut, \* live_out
  round,   \* what is left of orig_changed
  changed  \* changed

vars == <<graph, liveIn, liveOut, round, changed>>

IsGraph(G) ==
  /\ G = [succ |-> G.succ, used |-> G.used, defined |-> G.defined]
  /\ G.succ \in [Op -> SUBSET Op]
  /\ G.used \in [Op -> SUBSET Local]
  /\ G.defined \in [Op -> SUBSET Local]

LivenessTypeOK ==
  /\ IsGraph(graph)
  /\ liveIn \in [Op -> SUBSET Local]
  /\ liveOut \in [Op -> SUBSET Local]
  /\ round \in Seq(Op)
  /\ changed \in Seq(Op)

-----------------------------------------------------------------------------
(* list(reversed(...))                                                     *)
AllReversed_NotLast == [i \in 1..(NumOps - 1) |-> NumOps - i]
AllReversed == [i \in Op |-> NumOps + 1 - i]

Revisited_Successors(n) == graph.succ[n]
Revisited(n) == {p \in Op : n \in graph.succ[p]}

SameSets_In(n, in, out) == in = liveIn[n]
SameSets_Identity(n, in, out) == FALSE
SameSets(n, in, out) == in = liveIn[n] /\ out = liveOut[n]

Visit ==
  /\ round # <<>>
  /\ LET n == Head(round)
         out == OutOf(graph, liveIn, n)
         in == InFrom(graph, out, n)
     IN \/ /\ SameSets(n, in, out)
           /\ UNCHANGED <<liveIn, liveOut, changed>>
        \/ /\ ~SameSets(n, in, out)
           /\ liveIn' = [liveIn EXCEPT ![n] = in]
           /\ liveOut' = [liveOut EXCEPT ![n] = out]
           /\ \E predecessors \in SetToSeqs(Revisited(n)) :
                changed' = changed \o predecessors
  /\ round' = Tail(round)
  /\ UNCHANGED graph

NextRound ==
  /\ round = <<>>
  /\ changed # <<>>
  /\ round' = changed
  /\ changed' = <<>>
  /\ UNCHANGED <<graph, liveIn, liveOut>>

Analysed == round = <<>> /\ changed = <<>>

Nothing == [n \in Op |-> {}]

Init ==
  /\ IsGraph(graph)
  /\ liveIn = Nothing
  /\ liveOut = Nothing
  /\ round = AllReversed
  /\ changed = <<>>

Next == Visit \/ NextRound
Spec == Init /\ [][Next]_vars

(* The analysis is a loop of one thread, which runs to its end.            *)
FairSpec == Spec /\ WF_vars(Next)

-----------------------------------------------------------------------------
(* Properties                                                              *)

(* An op whose sets may be out of date is still to be visited: the sets of *)
(* any other satisfy the equations, which is what allows the loop to stop. *)
PendingCoverChanges ==
  \A n \in Op \ (Range(round) \cup Range(changed)) :
    /\ liveOut[n] = OutOf(graph, liveIn, n)
    /\ liveIn[n] = InFrom(graph, liveOut[n], n)

(* Sets that are large enough for the equations.                           *)
Sufficient(I) ==
  \A n \in Op : InFrom(graph, OutOf(graph, I, n), n) \subseteq I[n]

(* The result satisfies the equations, and no smaller sets do: a local is  *)
(* not kept because it was found live in a loop that needs it nowhere.     *)
LeastSolution ==
  Analysed =>
    /\ \A n \in Op : /\ liveOut[n] = OutOf(graph, liveIn, n)
                     /\ liveIn[n] = InFrom(graph, liveOut[n], n)
    /\ \A I \in [Op -> SUBSET Local] :
         Sufficient(I) => \A n \in Op : liveIn[n] \subseteq I[n]

(* The result is what the passes that come out of SSA and that allocate    *)
(* the stack rely on: a local is live where control may reach a use of it  *)
(* before a definition, and nowhere else.                                  *)
LiveOnSomePath ==
  Analysed => liveIn = LiveIn(graph) /\ liveOut = LiveOut(graph)

(* The rounds end, on cyclic graphs too.                                   *)
AnalysisEnds == <>Analysed
=============================================================================
