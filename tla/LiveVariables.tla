--------------------------- MODULE LiveVariables ---------------------------
(***************************************************************************)
(* What it means for a local variable to be live (puya/ir/vla.py and       *)
(* puya/mir/vla.py, which are the same analysis of two representations):   *)
(* it is live at a node when control may go from there to a use of it      *)
(* without passing a definition.  The analysis itself is Liveness.         *)
(*                                                                         *)
(* A graph G of ops is a record of three functions of its nodes: succ, the *)
(* set of the successors, used and defined, the sets of the locals that    *)
(* the op reads and writes.  An op reads before it writes.                 *)
(***************************************************************************)
EXTENDS Integers, FiniteSets

Nodes(G) == DOMAIN G.succ

(* The equations of the analysis, with I for the locals live on entry.     *)
OutOf(G, I, n) == UNION {I[s] : s \in G.succ[n]}
InFrom(G, out, n) == (out \ G.defined[n]) \cup G.used[n]

(* Live on entry: some path of the graph ends in a use of the local, and   *)
(* has no definition of it before.  Such a path need not meet a node       *)
(* twice, so that "within" as many nodes as there are is any path.         *)
LiveIn(G) ==
  LET within[k \in 0..Cardinality(Nodes(G))] ==
        IF k = 0 THEN [n \in Nodes(G) |-> {}]
        ELSE LET shorter == within[k - 1]
             IN [n \in Nodes(G) |-> InFrom(G, OutOf(G, shorter, n), n)]
  IN within[Cardinality(Nodes(G))]

LiveOut(G) ==
  LET in == LiveIn(G) IN [n \in Nodes(G) |-> OutOf(G, in, n)]
=============================================================================
