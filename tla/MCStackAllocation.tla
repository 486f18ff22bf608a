------------------------- MODULE MCStackAllocation -------------------------
EXTENDS StackAllocation, FiniteSetsExt

CONSTANTS
  MaxStatements, \* bound: statements of a subroutine of several blocks
  MaxInBlock     \* bound: statements of a subroutine of one block

Straight == {<<{}>>}
(* A branch, a diamond, a loop, edges that cross, and a loop through the   *)
(* entry with two exits.                                                   *)
Branching ==
  {<<{2, 3}, {3}, {}>>, <<{2, 3}, {4}, {4}, {}>>, <<{2}, {3, 4}, {2}, {}>>,
   <<{2, 3}, {3, 2}, {}>>, <<{2, 3}, {1, 4}, {}, {}>>}

(* Statements, as the ops that the builder of the memory IR makes of them. *)
Define(v) == <<Opaque(NoId, 0, <<v>>), AbstractStore(NoId, v)>>
Update(v, u) == <<AbstractLoad(NoId, u), Opaque(NoId, 1, <<v>>), AbstractStore(NoId, v)>>
Assign(v, u) == <<AbstractLoad(NoId, u), AbstractStore(NoId, v)>>
Use(u) == <<AbstractLoad(NoId, u), Opaque(NoId, 1, <<>>)>>
UseBoth(u, w) == <<AbstractLoad(NoId, u), AbstractLoad(NoId, w), Opaque(NoId, 2, <<>>)>>
Call(v, w) == <<Opaque(NoId, 0, <<v, w>>), AbstractStore(NoId, w), AbstractStore(NoId, v)>>
Discard(u) == <<AbstractLoad(NoId, u), Opaque(NoId, 1, <<Anonymous>>), Pop(1)>>

Pairs == {p \in Local \X Local : p[1] # p[2]}
Simple == {Define(v) : v \in Local} \cup {Use(v) : v \in Local}
            \cup {Assign(p[1], p[2]) : p \in Pairs} \cup {Update(Min(Local), Min(Local))}
Statement ==
  Simple \cup {Discard(v) : v \in Local} \cup {Call(p[1], p[2]) : p \in Pairs}
    \cup {Update(p[1], p[2]) : p \in Local \X Local}
    \cup {UseBoth(p[1], p[2]) : p \in Local \X Local}

(* Terminators, each with the ops that load what it consumes.              *)
Terminator(n, ends, returns) == [consumes |-> n, ends |-> ends, returns |-> returns]
Returns(vs) == <<[i \in DOMAIN vs |-> AbstractLoad(NoId, vs[i])], Terminator(Len(vs), TRUE, TRUE)>>
Goto == <<<<>>, Terminator(0, FALSE, FALSE)>>
Branch == <<<<Opaque(NoId, 0, <<Anonymous>>)>>, Terminator(1, FALSE, FALSE)>>
BranchOn(v) == <<<<AbstractLoad(NoId, v)>>, Terminator(1, FALSE, FALSE)>>
Fail == <<<<>>, Terminator(0, TRUE, FALSE)>>

Endings(n) ==
  CASE n = 0 -> {Fail, Returns(<<Min(Local)>>), Returns(<<Max(Local), Min(Local)>>)}
    [] n = 1 -> {Goto}
    [] n = 2 -> {Branch, BranchOn(Max(Local))}

(* The statements of each block, given the block of each statement.        *)
Placements(n, blocks) ==
  {w \in [1..n -> blocks] : \A i \in 1..(n - 1) : w[i] <= w[i + 1]}
BodyOf(b, statements, where) ==
  FlattenSeq([i \in DOMAIN where |-> IF where[i] = b THEN statements[i] ELSE <<>>])
Numbered(ops) == [i \in DOMAIN ops |-> [ops[i] EXCEPT !.id = i]]

(* Each local has a value wherever it is used, and the first op is about   *)
(* the first local: the names of locals matter for their order only.       *)
FirstLocal ==
  \A b \in Block : \A i \in DOMAIN source[b] :
    (\A c \in 1..(b - 1) : Accesses(source[c]) = <<>>) /\ Accesses(source[b]) # <<>>
      => Head(Accesses(source[b])).local = Min(Local)
DefinedBeforeUse == LiveIn(BlockGraph(source))[Entry] = {}

EndingsOf(graph) ==
  {end \in [DOMAIN graph -> UNION {Endings(i) : i \in 0..2}] :
     \A b \in DOMAIN graph : end[b] \in Endings(Cardinality(graph[b]))}

Programs(graphs, statements, n) ==
  /\ succ \in graphs
  /\ \E end \in EndingsOf(succ), k \in 0..n :
       /\ term = [b \in Block |-> end[b][2]]
       /\ \E where \in Placements(k, Block), body \in [1..k -> statements] :
            source = [b \in Block |-> Numbered(BodyOf(b, body, where) \o end[b][1])]
  /\ FirstLocal
  /\ DefinedBeforeUse

MCInit ==
  /\ \/ Programs(Branching, Simple, MaxStatements)
     \/ Programs(Straight, Statement, MaxInBlock)
  /\ code = source
  /\ pass = "lstack"
  /\ layout = [xin |-> [b \in Block |-> <<>>], xout |-> [b \in Block |-> <<>>],
               fin |-> [b \in Block |-> <<>>], fout |-> [b \in Block |-> <<>>],
               fx |-> [b \in Block |-> 0]]
  /\ failed = FALSE
  /\ optimise \in BOOLEAN

MCSpec == MCInit /\ [][Next]_vars
=============================================================================
