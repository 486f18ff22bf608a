------------------------- MODULE ParallelAssignment -------------------------
(***************************************************************************)
(* What the tuple assignments of the IR mean (an Assignment whose source   *)
(* is a ValueTuple): all the sources are read, then all the targets are    *)
(* written; when a target occurs more than once the last pair counts.      *)
(***************************************************************************)
EXTENDS Integers, Sequences

CONSTANTS
  Value,   \* the values an assignment may read: registers and constants
  Target,  \* those that it may write: registers
  MaxPairs \* bound: pairs of an assignment

VARIABLES
  requested, \* the pairs of target and source, in the order of the tuples
  pending,   \* whether the assignment has still to happen
  memory     \* what each value holds

IsRequest(s) == \E n \in 1..MaxPairs : s \in [1..n -> Target \X Value]

Targets(s) == {s[i][1] : i \in DOMAIN s}

(* The source of a target: that of its last pair.                          *)
SourceOf(s, d) ==
  LET last == CHOOSE i \in DOMAIN s :
                /\ s[i][1] = d
                /\ \A j \in DOMAIN s : s[j][1] = d => j <= i
  IN s[last][2]

Assigned(s, m) ==
  [x \in Value |-> IF x \in Targets(s) THEN m[SourceOf(s, x)] ELSE m[x]]

(* Initially all values differ: each is named by its holder.               *)
ParallelInit ==
  /\ IsRequest(requested)
  /\ pending = TRUE
  /\ memory = [x \in Value |-> x]

(* The whole assignment is one step.                                       *)
Assign ==
  /\ pending
  /\ pending' = FALSE
  /\ memory' = Assigned(requested, memory)
  /\ UNCHANGED requested

Request ==
  /\ ~pending
  /\ pending' = TRUE
  /\ IsRequest(requested')
  /\ UNCHANGED memory

ParallelSpec ==
  ParallelInit /\ [][Assign \/ Request]_<<requested, pending, memory>>
=============================================================================
