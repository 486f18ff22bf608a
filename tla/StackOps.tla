------------------------------ MODULE StackOps ------------------------------
(***************************************************************************)
(* The ops of the memory IR (puya/mir/models.py) and two readings of them: *)
(* the virtual stack with which the allocation passes keep count of the    *)
(* names of what is on the stack (puya/mir/stack.py), and what the TEAL    *)
(* made of the ops does to the stack of the AVM (puya/teal/builder.py).    *)
(*                                                                         *)
(* The stack of a subroutine is the f-stack, which has a slot for a local  *)
(* until the end; above it the x-stack, which carries locals from block to *)
(* block; and on top the l-stack of the block.                             *)
(*                                                                         *)
(* A local is a number v > 0.  On the virtual stack the name of a copy of  *)
(* it is -v, and that of a value that has no local is 0.                   *)
(***************************************************************************)
EXTENDS Integers, SequencesExt

CopyOf(v) == -v
Anonymous == 0
NoDepth == -1
NoId == 0

(* An op: consumes is the number of values it takes from the l-stack, and  *)
(* produces the names of those it puts there.  The id tells the ops of a   *)
(* block apart.                                                            *)
Op(kind, id, v, consumes, produces) ==
  [kind |-> kind, id |-> id, local |-> v, consumes |-> consumes,
   produces |-> produces, depth |-> NoDepth, frame |-> NoDepth,
   copy |-> FALSE]

Opaque(id, consumes, produces) == Op("op", id, 0, consumes, produces)
AbstractStore(id, v) == Op("store", id, v, 1, <<>>)
AbstractLoad(id, v) == Op("load", id, v, 0, <<v>>)
StoreLStack(v, depth) ==
  [Op("lstore", NoId, v, 0, <<CopyOf(v)>>) EXCEPT !.depth = depth, !.copy = TRUE]
LoadLStack(id, v) == Op("lload", id, v, 0, <<v>>)
StoreXStack(v, depth) == [Op("xstore", NoId, v, 1, <<>>) EXCEPT !.depth = depth]
LoadXStack(v, depth, copy) ==
  [Op("xload", NoId, v, 0, <<IF copy THEN CopyOf(v) ELSE v>>)
     EXCEPT !.depth = depth, !.copy = copy]
StoreFStack(v, depth, frame, insert) ==
  [Op(IF insert THEN "finsert" ELSE "fstore", NoId, v, 1, <<>>)
     EXCEPT !.depth = depth, !.frame = frame]
LoadFStack(v, depth, frame) ==
  [Op("fload", NoId, v, 0, <<CopyOf(v)>>) EXCEPT !.depth = depth, !.frame = frame]
Pop(n) == Op("pop", NoId, 0, n, <<>>)

(* The index of v in s, which starts from 1, or 0.                         *)
IndexOf(s, v) == SelectInSeq(s, LAMBDA e : e = v)
TopOf(s, n) == SubSeq(s, Len(s) - n + 1, Len(s))
Without(s, n) == SubSeq(s, 1, Len(s) - n)

-----------------------------------------------------------------------------
(* The virtual stack.  ok is FALSE when an assertion has failed, or an     *)
(* index was not found.                                                    *)

BeginBlock(f, x) == [f |-> f, x |-> x, l |-> <<>>, ok |-> TRUE]
XLHeight(st) == Len(st.l) + Len(st.x)
FXLHeight(st) == Len(st.f) + XLHeight(st)

(* The depth of what has the index i of the x-stack, or of the f-stack.    *)
XDepth(st, i) == XLHeight(st) - i
FDepth(st, i) == FXLHeight(st) - i

Effects(st, o) ==
  [st EXCEPT !.ok = @ /\ Len(st.l) >= o.consumes,
             !.l = Without(@, o.consumes) \o o.produces]

VisitStoreLStack(st, o) ==
  IF o.depth >= Len(st.l) THEN [st EXCEPT !.ok = FALSE]
  ELSE Effects([st EXCEPT !.l = InsertAt(Front(@), Len(@) - o.depth, o.local)], o)

VisitLoadLStack(st, o) ==
  LET i == IF o.depth = NoDepth THEN IndexOf(st.l, o.local) ELSE Len(st.l) - o.depth
  IN IF i \notin 1..Len(st.l) THEN [st EXCEPT !.ok = FALSE]
     ELSE Effects([st EXCEPT !.l = IF o.copy THEN @ ELSE RemoveAt(@, i)], o)

VisitStoreXStack(st, o) ==
  IF o.depth \in (Len(st.l) - 1)..(XLHeight(st) - 1) /\ st.l # <<>>
  THEN Effects([st EXCEPT !.x = InsertAt(@, XDepth(st, o.depth), o.local)], o)
  ELSE [st EXCEPT !.ok = FALSE]

VisitLoadXStack(st, o) ==
  LET i == IndexOf(st.x, o.local)
  IN IF i = 0 \/ o.depth # XDepth(st, i) THEN [st EXCEPT !.ok = FALSE]
     ELSE Effects([st EXCEPT !.x = IF o.copy THEN @ ELSE RemoveAt(@, i)], o)

VisitInsertFStack(st, o) ==
  IF st.l # <<>> /\ IndexOf(st.f, o.local) = 0 /\ o.depth = XLHeight(st) - 1
  THEN Effects([st EXCEPT !.f = Append(@, o.local)], o)
  ELSE [st EXCEPT !.ok = FALSE]

VisitFStack(st, o) ==
  LET i == IndexOf(st.f, o.local)
  IN [Effects(st, o) EXCEPT !.ok = @ /\ i # 0 /\ o.depth = FDepth(st, i)
                                     /\ (o.kind = "fstore" => st.l # <<>>)]

Visit(st, o) ==
  CASE ~st.ok -> st
    [] o.kind = "lstore" -> VisitStoreLStack(st, o)
    [] o.kind = "lload" -> VisitLoadLStack(st, o)
    [] o.kind = "xstore" -> VisitStoreXStack(st, o)
    [] o.kind = "xload" -> VisitLoadXStack(st, o)
    [] o.kind = "finsert" -> VisitInsertFStack(st, o)
    [] o.kind \in {"fstore", "fload"} -> VisitFStack(st, o)
    [] OTHER -> Effects(st, o)

-----------------------------------------------------------------------------
(* Execution.  A machine has the stack of the subroutine, the memory of    *)
(* the locals that are not on it, and the operands of each op executed so  *)
(* far.  Results are named after the op that gives them.  A machine whose  *)
(* ok is FALSE has reached below its stack.                                *)

Result(id, i) == <<id, i>>

Cover(s, n) == InsertAt(Front(s), Len(s) - n, Last(s))
Uncover(s, n) == Append(RemoveAt(s, Len(s) - n), s[Len(s) - n])
Dig(s, n) == Append(s, s[Len(s) - n])
Bury(s, n) == Front([s EXCEPT ![Len(s) - n] = Last(s)])

(* What the ops of each kind reach down to.                                *)
Reaches(o) ==
  CASE o.kind \in {"op", "pop", "store"} -> o.consumes
    [] o.kind = "load" -> 0
    [] OTHER -> o.depth + 1

ExecOp(m, o) ==
  [m EXCEPT !.operands = Append(@, <<o.id, TopOf(m.stack, o.consumes)>>),
            !.stack = Without(@, o.consumes) \o
                      [i \in DOMAIN o.produces |-> Result(o.id, i)]]

ExecStoreLStack(s, o) ==
  IF o.copy THEN Cover(Append(s, Last(s)), o.depth + 1) ELSE Cover(s, o.depth)

(* Slots of the f-stack are also addressed from the base of the frame.     *)
FrameAgrees(s, o) ==
  o.kind \in {"fstore", "fload", "finsert"} => o.frame + 1 = Len(s) - o.depth

Exec(m, o) ==
  CASE ~m.ok \/ Len(m.stack) < Reaches(o) \/ ~FrameAgrees(m.stack, o) ->
         [m EXCEPT !.ok = FALSE]
    [] o.kind = "op" -> ExecOp(m, o)
    [] o.kind = "pop" -> [m EXCEPT !.stack = Without(@, o.consumes)]
    [] o.kind = "store" -> [m EXCEPT !.memory[o.local] = Last(m.stack),
                                     !.stack = Front(@)]
    [] o.kind = "load" -> [m EXCEPT !.stack = Append(@, m.memory[o.local])]
    [] o.kind = "lstore" -> [m EXCEPT !.stack = ExecStoreLStack(@, o)]
    [] o.kind \in {"lload", "xload"} ->
         [m EXCEPT !.stack = IF o.copy THEN Dig(@, o.depth) ELSE Uncover(@, o.depth)]
    [] o.kind \in {"xstore", "finsert"} -> [m EXCEPT !.stack = Cover(@, o.depth)]
    [] o.kind = "fstore" -> [m EXCEPT !.stack = Bury(@, o.depth)]
    [] o.kind = "fload" -> [m EXCEPT !.stack = Dig(@, o.depth)]

(* The end of a subroutine that returns n values, over fx others: retsub   *)
(* takes them from the base of the frame.                                  *)
Returned(s, n, fx) ==
  LET moved[k \in 0..n] == IF k = 0 THEN s ELSE Bury(moved[k - 1], Len(moved[k - 1]) - (n - k) - 1)
      under[k \in 0..fx] == IF k = 0 THEN s ELSE Uncover(under[k - 1], n + fx - 1)
  IN SubSeq(IF n < fx THEN moved[n] ELSE under[fx], 1, n)
=============================================================================
