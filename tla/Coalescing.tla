----------------------------- MODULE Coalescing -----------------------------
(***************************************************************************)
(* The grouping of registers that may share a local (coalesce_registers of *)
(* puya/ir/destructure/coalesce_locals.py), one action for each register.  *)
(* Two registers can share when neither is live after a definition of the  *)
(* other; the strategies differ in the keys that registers must have in    *)
(* common and in whether parameters take part.                             *)
(*                                                                         *)
(* A definition F_Fault is F with a plausible mistake; it is used only to  *)
(* see that a property notices the mistake.                                *)
(***************************************************************************)
EXTENDS Integers, FiniteSets, SequencesExt

CONSTANTS
  Reg, \* registers
  Key  \* the keys of the grouping strategies

VARIABLES
  keyOf,   \* get_group_key
  liveAt,  \* variables_live_at_definition: what is live after a definition
  waiting, \* its registers that are still to be grouped, in order
  groups   \* coalescable_groups_by_key, each group with its key

grouping == <<keyOf, liveAt, waiting, groups>>

Group == [key : Key, members : SUBSET Reg, liveOut : SUBSET Reg]

CoalescingTypeOK ==
  /\ keyOf \in [Reg -> Key]
  /\ liveAt \in [Reg -> SUBSET Reg]
  /\ waiting \in Seq(Reg)
  /\ groups \in Seq(Group)

-----------------------------------------------------------------------------

CanShare_OneWay(g, r) == g.key = keyOf[r] /\ r \notin g.liveOut
CanShare(g, r) ==
  /\ g.key = keyOf[r]
  /\ r \notin g.liveOut
  /\ liveAt[r] \cap g.members = {}

Joined(g, r) == [key |-> g.key,
                 members |-> g.members \cup {r},
                 liveOut |-> g.liveOut \cup liveAt[r]]

(* The register joins the first group that it can share with, or starts    *)
(* one.                                                                    *)
Place ==
  /\ waiting # <<>>
  /\ LET r == Head(waiting)
     IN \/ \E i \in DOMAIN groups :
             /\ CanShare(groups[i], r)
             /\ \A j \in 1..(i - 1) : ~CanShare(groups[j], r)
             /\ groups' = [groups EXCEPT ![i] = Joined(groups[i], r)]
        \/ /\ \A i \in DOMAIN groups : ~CanShare(groups[i], r)
           /\ groups' = Append(groups, [key |-> keyOf[r], members |-> {r},
                                        liveOut |-> liveAt[r]])
  /\ waiting' = Tail(waiting)
  /\ UNCHANGED <<keyOf, liveAt>>

Grouped == waiting = <<>>

GroupingInit ==
  /\ keyOf \in [Reg -> Key]
  /\ liveAt \in [Reg -> SUBSET Reg]
  /\ waiting \in Seq(Reg)
  /\ IsInjective(waiting)
  /\ groups = <<>>

GroupingSpec == GroupingInit /\ [][Place]_grouping

-----------------------------------------------------------------------------
(* Properties                                                              *)

(* The guarantee that the comment in coalesce_registers argues for: of two *)
(* registers in one group, neither is live after a definition of the       *)
(* other, in whichever order they were grouped.                            *)
GroupsDoNotInterfere ==
  \A i \in DOMAIN groups : \A r, s \in groups[i].members :
    r # s => r \notin liveAt[s]

(* A register is in one group only, so that it has one replacement.        *)
GroupsAreDisjoint ==
  \A i, j \in DOMAIN groups :
    i # j => groups[i].members \cap groups[j].members = {}
=============================================================================
