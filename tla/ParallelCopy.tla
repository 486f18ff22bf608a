---------------------------- MODULE ParallelCopy ----------------------------
(***************************************************************************)
(* Parallel copies made sequential (puya/ir/destructure/parcopy.py): the   *)
(* algorithm of _sequentialize, one action per iteration of its loops, and *)
(* the effect on the registers of the copies it emits.  The outer loop     *)
(* over the ops of a subroutine is the sequence of assignments; the names  *)
(* of the temporaries are never reused from one to the next.               *)
(*                                                                         *)
(* A definition F_Fault is F with a plausible mistake; it is used only to  *)
(* see that a property notices the mistake.                                *)
(***************************************************************************)
EXTENDS Integers, FiniteSets, SequencesExt

CONSTANTS
  Value,    \* registers and constants
  Target,   \* registers that assignments write
  Temp,     \* the registers make_temp returns
  MaxPairs, \* bound: pairs of an assignment, and of two in a row
  MaxAssign,\* bound: assignments
  None      \* no location

ASSUME CopyAssumption ==
  /\ Target \subseteq Value
  /\ Temp \cap Value = {}
  /\ None \notin Value \cup Temp
  /\ MaxPairs \in Nat \ {0}
  /\ MaxAssign \in Nat

Place == Value \cup Temp

VARIABLES
  requested, \* the pairs of the assignment
  before,    \* what the values held when the assignment began
  memory,    \* what each place holds after the copies emitted so far
  pc,        \* "dict", "ready", "copy", "done"
  next,      \* pairs that dict(), or targets that the last loop has read
  pred,      \* the source of each target
  toDo,      \* to_do
  ready,     \* ready
  loc,       \* where the initial value of a source is now
  used,      \* temporaries made
  fresh,     \* those made for this assignment
  count      \* assignments completed

vars == <<requested, before, memory, pc, next, pred, toDo, ready, loc, used,
          fresh, count>>

IsRequestUpTo(max, s) == \E n \in 1..max : s \in [1..n -> Target \X Value]
IsRequest(s) == IsRequestUpTo(MaxPairs, s)
Targets == DOMAIN pred
Sources == {pred[b] : b \in Targets}

TypeOK ==
  /\ IsRequest(requested)
  /\ before \in [Value -> Value]
  /\ memory \in [Place -> Value \cup {None}]
  /\ pc \in {"dict", "ready", "copy", "done"}
  /\ next \in 0..Len(requested)
  /\ Targets \subseteq Target
  /\ Sources \subseteq Value
  /\ toDo \in Seq(Targets)
  /\ ready \in Seq(Targets \cup Sources)
  /\ loc \in [Value -> Place \cup {None}]
  /\ used \subseteq Temp
  /\ fresh \subseteq used
  /\ count \in 0..MaxAssign

(* list.remove: to_do has no duplicates.                                   *)
Without(s, x) ==
  IF x \in Range(s)
  THEN RemoveAt(s, CHOOSE i \in DOMAIN s : s[i] = x)
  ELSE s

-----------------------------------------------------------------------------
(* dict(copies): a repeated target keeps its place and takes the last      *)
(* source.                                                                 *)
ReadPair ==
  /\ pc = "dict"
  /\ next < Len(requested)
  /\ LET b == requested[next + 1][1]
         a == requested[next + 1][2]
     IN /\ pred' = [d \in Targets \cup {b} |-> IF d = b THEN a ELSE pred[d]]
        /\ toDo' = IF b \in Targets THEN toDo ELSE Append(toDo, b)
  /\ next' = next + 1
  /\ UNCHANGED <<requested, before, memory, pc, ready, loc, used, fresh,
                 count>>

(* The loops that fill loc, pred and to_do: every source is in its place.  *)
PairsRead ==
  /\ pc = "dict"
  /\ next = Len(requested)
  /\ loc' = [x \in Value |-> IF x \in Sources THEN x ELSE None]
  /\ next' = 0
  /\ pc' = "ready"
  /\ UNCHANGED <<requested, before, memory, pred, toDo, ready, used, fresh,
                 count>>

IsFree_Any(b) == TRUE
IsFree(b) == loc[b] = None

(* The last loop: a target that is no source can be overwritten at once.   *)
FindReady ==
  /\ pc = "ready"
  /\ next < Len(toDo)
  /\ LET b == toDo[next + 1]
     IN ready' = IF IsFree(b) THEN Append(ready, b) ELSE ready
  /\ next' = next + 1
  /\ UNCHANGED <<requested, before, memory, pc, pred, toDo, loc, used, fresh,
                 count>>

ReadyFound ==
  /\ pc = "ready"
  /\ next = Len(toDo)
  /\ pc' = "copy"
  /\ UNCHANGED <<requested, before, memory, next, pred, toDo, ready, loc,
                 used, fresh, count>>

Emit(dst, src) == memory' = [memory EXCEPT ![dst] = memory[src]]

(* A register that is not a target has no copy to wait for.                *)
SkipReady ==
  /\ pc = "copy"
  /\ ready # <<>>
  /\ Last(ready) \notin Targets
  /\ ready' = Front(ready)
  /\ UNCHANGED <<requested, before, memory, pc, next, pred, toDo, loc, used,
                 fresh, count>>

Holder_Source(a) == a
Holder(a) == loc[a]
Moved_Not(a, b) == UNCHANGED loc
Moved(a, b) == loc' = [loc EXCEPT ![a] = b]

(* The register on top of ready takes its value from where it is now, and  *)
(* that place has no more use as the source itself.                        *)
CopyReady ==
  /\ pc = "copy"
  /\ ready # <<>>
  /\ Last(ready) \in Targets
  /\ LET b == Last(ready)
         a == pred[b]
         c == Holder(a)
     IN /\ c # None
        /\ Emit(b, c)
        /\ toDo' = Without(toDo, c)
        /\ Moved(a, b)
        /\ ready' = IF a = c THEN Append(Front(ready), a) ELSE Front(ready)
  /\ UNCHANGED <<requested, before, pc, next, pred, used, fresh, count>>

(* After a target has been taken from to_do the outer loop ends when no    *)
(* other is left, whatever ready holds.                                    *)
Outer(rest) == pc' = IF rest = <<>> THEN "done" ELSE "copy"

Popped_Not == toDo
Popped == Front(toDo)

(* The target has its value already.                                       *)
SkipToDo ==
  /\ pc = "copy"
  /\ ready = <<>>
  /\ toDo # <<>>
  /\ Last(toDo) = loc[pred[Last(toDo)]]
  /\ toDo' = Popped
  /\ Outer(toDo')
  /\ UNCHANGED <<requested, before, memory, next, pred, ready, loc, used,
                 fresh, count>>

(* The target is in a cycle: its value is moved to a new temporary.        *)
BreakCycle ==
  /\ pc = "copy"
  /\ ready = <<>>
  /\ toDo # <<>>
  /\ LET b == Last(toDo)
     IN /\ b # loc[pred[b]]
        /\ \E t \in Temp \ used :
             /\ Emit(t, b)
             /\ loc' = [loc EXCEPT ![b] = t]
             /\ used' = used \cup {t}
             /\ fresh' = fresh \cup {t}
        /\ ready' = <<b>>
  /\ toDo' = Popped
  /\ Outer(toDo')
  /\ UNCHANGED <<requested, before, next, pred, count>>

AllCopied ==
  /\ pc = "copy"
  /\ ready = <<>>
  /\ toDo = <<>>
  /\ pc' = "done"
  /\ UNCHANGED <<requested, before, memory, next, pred, toDo, ready, loc,
                 used, fresh, count>>

FirstPair == 0
Begin ==
  /\ pc' = "dict"
  /\ next' = FirstPair
  /\ pred' = [d \in {} |-> None]
  /\ toDo' = <<>>
  /\ ready' = <<>>
  /\ loc' = [x \in Value |-> None]
  /\ fresh' = {}

(* The next tuple assignment of the subroutine.                            *)
NextAssignment ==
  /\ pc = "done"
  /\ count < MaxAssign
  /\ count' = count + 1
  /\ before' = [x \in Value |-> memory[x]]
  /\ IsRequestUpTo(MaxPairs - Len(requested), requested')
  /\ Begin
  /\ UNCHANGED <<memory, used>>

Init ==
  /\ IsRequest(requested)
  /\ before = [x \in Value |-> x]
  /\ memory = [x \in Place |-> IF x \in Value THEN x ELSE None]
  /\ pc = "dict"
  /\ next = 0
  /\ pred = [d \in {} |-> None]
  /\ toDo = <<>>
  /\ ready = <<>>
  /\ loc = [x \in Value |-> None]
  /\ used = {}
  /\ fresh = {}
  /\ count = 0

Next ==
  \/ ReadPair \/ PairsRead \/ FindReady \/ ReadyFound
  \/ SkipReady \/ CopyReady \/ SkipToDo \/ BreakCycle \/ AllCopied
  \/ NextAssignment

Spec == Init /\ [][Next]_vars

-----------------------------------------------------------------------------
(* Properties                                                              *)

(* The copies emitted for an assignment, run one after the other, have the *)
(* effect of the assignment itself: each one is the atomic step of         *)
(* ParallelAssignment, whatever the fan-out, cycles and repeated targets.  *)
(* What the registers hold in between is not seen.                         *)
Parallel == INSTANCE ParallelAssignment
  WITH pending <- pc # "done",
       memory <- IF pc = "done" THEN [x \in Value |-> memory[x]] ELSE before
CopiesAreParallel == Parallel!ParallelSpec

(* No value is overwritten while some target still waits for it: it is     *)
(* always found where loc says.                                            *)
SourcesKept ==
  pc \in {"copy", "done"} =>
    \A a \in Sources : loc[a] # None /\ memory[loc[a]] = before[a]

(* A cycle of targets none of which is the source of another target.       *)
Closed(C) == {pred[b] : b \in C} = C
IsolatedCycle(C) ==
  /\ Cardinality(C) > 1
  /\ Closed(C)
  /\ \A S \in SUBSET C : Closed(S) => S \in {{}, C}
  /\ \A b \in Targets \ C : pred[b] \notin C

(* Temporaries are made for isolated cycles, one for each, and for nothing *)
(* else: where a value has a second target, that one serves.               *)
OneTempPerCycle ==
  pc = "done" =>
    Cardinality(fresh) = Cardinality({C \in SUBSET Targets : IsolatedCycle(C)})

(* The copies of an assignment end.                                        *)
FairSpec == Spec /\ WF_vars(Next)
CopiesEnd == pc = "dict" ~> pc = "done"
=============================================================================
