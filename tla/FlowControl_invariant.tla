------------------------ MODULE FlowControl_invariant ------------------------
(***************************************************************************)
(* Why the statement handlers of FlowControl keep to the contract of the   *)
(* blocks builder: what is true of the items that the visitor has still to *)
(* do, next to the invariants of the construction.                         *)
(***************************************************************************)
EXTENDS SSAExecution_invariant, FlowControl

-----------------------------------------------------------------------------
(* Items                                                                   *)

Label == Labelled \cup {NoLabel}

(* What the body of the "if" of a try_activate_block consists of.          *)
SimpleItem ==
       [do : {"goto", "activate"}, block : Block]
  \cup [do : {"branch"}, targets : SUBSET Block]
  \cup [do : {"assign", "use"}, var : Var]
  \cup [do : {"useHeld"}, key : Nat]

Item ==
       SimpleItem
  \cup [do : {"open", "close"}, block : Block]
  \cup [do : {"try"}, block : Block, then : Seq(SimpleItem)]
  \cup [do : {"cond"}, true : Block, false : Block]
  \cup [do : {"hold"}, var : Var, key : Nat]
  \cup [do : {"keep"}, key : Nat]
  \cup [do : {"release"}, keys : SUBSET Nat]
  \cup [do : {"loop"}, cont : Block, brk : Block, label : Label]
  \cup [do : {"visit"}, block : Label]
  \cup [do : {"statements", "exit", "end", "finalise"}]

LoopTargets == [cont : Block, brk : Block, label : Label]

VisitorTypes ==
  /\ todo \in Seq(Item)
  /\ DOMAIN held \subseteq Nat
  /\ \A k \in DOMAIN held : held[k] \in Reg \cup {NoReg}
  /\ loops \in Seq(LoopTargets)
  /\ blockCount \in 0..MaxBlocks
  /\ labelCount \in 0..Cardinality(Labelled)
  /\ tempCount \in 0..Len(Temps)

(* The registers an item uses, by the names they are kept under; and the   *)
(* items after which a register is kept.                                   *)
Uses(x) == IF x.do = "useHeld" THEN {x.key} ELSE {}
KeysOf(x) == IF x.do = "try" THEN UNION {Uses(y) : y \in Range(x.then)}
                             ELSE Uses(x)
KeepsAs(x, k) == x.do \in {"hold", "keep"} /\ x.key = k

(* The blocks an item activates, seals, and needs not to be sealed: those  *)
(* it jumps to, and those whose context it leaves.                         *)
Enters(x) == IF x.do \in {"activate", "open"} THEN {x.block} ELSE {}
Activates(x) ==
  IF x.do = "try" THEN {x.block} \cup UNION {Enters(y) : y \in Range(x.then)}
  ELSE IF x.do = "visit" /\ x.block # NoLabel THEN {x.block}
  ELSE Enters(x)

Seals(x) == (IF x.do = "close" THEN {x.block}
             ELSE IF x.do = "open" THEN {}
             ELSE Activates(x)) \ Labelled

JumpsTo(x) == IF x.do = "goto" THEN {x.block}
              ELSE IF x.do = "branch" THEN x.targets
              ELSE {}
Targets(x) ==
  IF x.do = "try" THEN UNION {JumpsTo(y) : y \in Range(x.then)}
  ELSE IF x.do = "cond" THEN {x.true, x.false}
  ELSE IF x.do = "loop" THEN {x.cont, x.brk} \cup ({x.label} \cap Labelled)
  ELSE JumpsTo(x)
NeedsOpen(x) == IF x.do = "close" THEN {x.block} ELSE Targets(x)

(* An item that ends the active block, and one that needs it ended.        *)
Jumps(x) == x.do \in {"goto", "branch"}
Ends(x) == \/ Jumps(x)
           \/ x.do \in {"cond", "close"}
           \/ x.do = "try" /\ x.then # <<>> /\ Jumps(x.then[Len(x.then)])
NeedsEnd(x) == x.do \in {"activate", "open", "try", "close"}

-----------------------------------------------------------------------------
(* The blocks that exist                                                   *)

NewLabels == (MaxBlocks + 1)..(MaxBlocks + labelCount)
Created == 0..blockCount \cup NewLabels

BlocksCreated ==
  /\ Range(blocks) \subseteq Created
  /\ \A x \in Range(todo) :
       Activates(x) \cup NeedsOpen(x) \subseteq Created
  /\ \A l \in Range(loops) :
       {l.cont, l.brk} \cup ({l.label} \cap Labelled) \subseteq Created

-----------------------------------------------------------------------------
(* The registers that handlers keep                                        *)

KeysCreated ==
  /\ DOMAIN held \subseteq 1..blockCount
  /\ \A x \in Range(todo) :
       /\ KeysOf(x) \subseteq 1..blockCount
       /\ x.do \in {"hold", "keep"} => x.key \in 1..blockCount
       /\ x.do = "release" => x.keys \subseteq 1..blockCount

(* Every use comes after the read that it refers to, and before what ends  *)
(* the handler: no block is sealed in between but those opened in between. *)
KeysScoped ==
  /\ \A j \in DOMAIN todo : \A k \in KeysOf(todo[j]) :
       k \in DOMAIN held \/ \E h \in 1..(j - 1) : KeepsAs(todo[h], k)
  /\ \A i, j \in DOMAIN todo :
       i < j /\ todo[i].do = "release" => KeysOf(todo[j]) \cap todo[i].keys = {}
  /\ \A h, i, j \in DOMAIN todo :
       h < i /\ i < j /\ todo[i].do = "close"
         => \A k \in KeysOf(todo[j]) : ~KeepsAs(todo[h], k)

(* The registers of v older than version n cannot be removed: no phi among *)
(* them is waiting, gathering or tried, and none depends on a younger one. *)
Protected(v, n) ==
  /\ n <= versions[v]
  /\ \A a \in phiArgs : VarOf(a.phi) = v /\ VersionOf(a.phi) < n
                          => VersionOf(a.value) < n
  /\ \A f \in Frames :
       /\ f.at \in Marks /\ VarOf(f.phi) = v => n <= VersionOf(f.phi)
       /\ \A x \in Reg : IsTried(f, x) /\ VarOf(x) = v => n <= VersionOf(x)
       /\ f.at = "sealing" =>
            \A x \in Range(f.todo) : VarOf(x) = v => n <= VersionOf(x)
       /\ f.at = "seal" =>
            \A x \in Range(incomplete[f.block]) :
              VarOf(x) = v => n <= VersionOf(x)

(* Neither can the blocks that are closed before item j make them be.      *)
ClosesYoung(v, n, j) ==
  \A i \in 1..(j - 1) : todo[i].do = "close" =>
    \A x \in Range(incomplete[todo[i].block]) :
      VarOf(x) = v => n <= VersionOf(x)

IsKept(r, j) ==
  /\ r \in DefinedRegs
  /\ \E v \in Var : v = VarOf(r) /\ \E n \in 0..versions[v] :
       VersionOf(r) < n /\ Protected(v, n) /\ ClosesYoung(v, n, j)
KeptIsDefined ==
  \A k \in DOMAIN held : \E r \in Reg \cup {NoReg} :
    r = held[k] /\ \A j \in DOMAIN todo : k \in KeysOf(todo[j]) => IsKept(r, j)

(* A register is kept right after the read of it.                          *)
KeepFollowsRead ==
  /\ \A j \in DOMAIN todo : todo[j].do = "keep" => j = 1
  /\ todo # <<>> /\ Head(todo).do = "keep" /\ fault = "none" =>
       IF calls = <<>> THEN ret \in DefinedRegs
                       ELSE calls[Len(calls)].at \in {"read", "write"}

FinaliseLast ==
  /\ \A j \in DOMAIN todo : todo[j].do = "finalise" => j = Len(todo)
  /\ finalised \/ (\E f \in Frames : f.at = "finalise") => todo = <<>>

(* The loops that are entered are left one after the other.                *)
Exits(e) ==
  /\ \A k, l \in DOMAIN loops : k < l => e[k] < e[l]
  /\ {i \in DOMAIN todo : todo[i].do = "exit"} = Range(e)
LoopsNested == \E e \in [DOMAIN loops -> DOMAIN todo] : Exits(e)

HandlersKeep ==
  /\ VisitorTypes
  /\ LoopsNested
  /\ BlocksCreated
  /\ KeysCreated
  /\ KeysScoped
  /\ KeptIsDefined
  /\ KeepFollowsRead
  /\ FinaliseLast

-----------------------------------------------------------------------------
(* The order of jumps, activations and seals                               *)

IsBeingSealed(b) ==
  \E f \in Frames : f.at \in {"seal", "sealing"} /\ f.block = b
MayBeTarget(b) == b \notin sealed /\ ~IsBeingSealed(b)

(* The body of the "if" of a try_activate_block.                           *)
ThenInOrder(x) ==
  LET s == x.then
  IN /\ \A j \in DOMAIN s : JumpsTo(s[j]) \cap ({x.block} \ Labelled) = {}
     /\ \A i, j \in DOMAIN s : i < j => JumpsTo(s[j]) \cap Seals(s[i]) = {}
     /\ s # <<>> => ~NeedsEnd(s[1])
     /\ \A i \in 1..(Len(s) - 1) : NeedsEnd(s[i + 1]) => Jumps(s[i])

JumpsInOrder ==
  /\ \A x \in Range(todo) : x.do = "try" => ThenInOrder(x)
  /\ \A j \in DOMAIN todo : \A b \in NeedsOpen(todo[j]) :
       /\ MayBeTarget(b)
       /\ \A i \in 1..(j - 1) : b \notin Seals(todo[i])

EndsInOrder ==
  /\ todo # <<>> /\ NeedsEnd(Head(todo)) => active \in terminated
  /\ \A i \in 1..(Len(todo) - 1) : NeedsEnd(todo[i + 1]) => Ends(todo[i])

(* Until a loop is left its blocks may be jumped to.                       *)
LoopsOpen(e) ==
  \A k \in DOMAIN loops : \A b \in {loops[k].cont, loops[k].brk} :
    /\ MayBeTarget(b)
    /\ \A i \in 1..e[k] : b \notin Seals(todo[i])
LoopsInOrder ==
  \E e \in [DOMAIN loops -> DOMAIN todo] : Exits(e) /\ LoopsOpen(e)

(* A block is sealed once, after it was activated; a block that is open    *)
(* is closed later on, and the labelled ones are sealed at the end.        *)
SealedOnce ==
  /\ sealed \subseteq Range(blocks)
  /\ \A f \in Frames :
       /\ f.at \in {"seal", "sealing"} =>
            /\ f.block \in Range(blocks) \ sealed
            /\ f.block \in Labelled => todo = <<>>
       /\ f.at = "finalise" =>
            f.blocks \subseteq Range(blocks) \ sealed
            /\ \A b \in f.blocks : ~IsBeingSealed(b)
  /\ todo # <<>> => sealed \cap Labelled = {}

SealedAtLast ==
  /\ \A b \in Range(blocks) \ Labelled :
       \/ b \in sealed
       \/ IsBeingSealed(b)
       \/ \E x \in Range(todo) : x.do = "close" /\ x.block = b
  /\ \A i \in DOMAIN todo : todo[i].do = "open" =>
       /\ todo[i].block \notin Labelled
       /\ \E j \in DOMAIN todo : /\ i < j /\ todo[j].do = "close"
                                 /\ todo[j].block = todo[i].block
  /\ \A f \in Frames : f.at = "finalise" =>
       \A b \in Range(blocks) \cap Labelled :
         b \in sealed \/ IsBeingSealed(b) \/ b \in f.blocks

BlocksInOrder ==
  /\ BlocksWellFormed
  /\ fault = "none" =>
       JumpsInOrder /\ EndsInOrder /\ LoopsInOrder /\ SealedOnce /\ SealedAtLast

-----------------------------------------------------------------------------
(* The labels                                                              *)

(* A label that is jumped to, or will or may be, is defined or will be.    *)
IsWanted(b) ==
  \/ preds[b] # <<>>
  \/ \E x \in Range(todo) : b \in Targets(x)
  \/ \E l \in Range(loops) : b \in {l.cont, l.brk, l.label}
WillBeFound(b) ==
  \/ Activated(b)
  \/ \E x \in Range(todo) : x.do \in {"activate", "visit"} /\ x.block = b
LabelsWillBeFound ==
  fault = "none" => \A b \in Labelled : IsWanted(b) => WillBeFound(b)

-----------------------------------------------------------------------------
(* The edges back to the headers of loops                                  *)

(* The blocks that an item decides between.                                *)
Choices(x) == IF x.do = "branch" THEN x.targets
              ELSE IF x.do = "cond" THEN {x.true, x.false}
              ELSE {}
Chooses(x) == IF x.do = "try" THEN UNION {Choices(y) : y \in Range(x.then)}
                              ELSE Choices(x)

(* They are none that was activated before: none that is still to close,   *)
(* and the labels are those of a switch which has only just begun.         *)
ChoicesAreNew ==
  /\ \A x, y \in Range(todo) : y.do = "close" => y.block \notin Chooses(x)
  /\ \A j \in DOMAIN todo : Chooses(todo[j]) \cap Labelled # {} =>
       /\ todo[j].do = "branch"
       /\ Chooses(todo[j]) \cap Labelled \cap Range(blocks) = {}
       /\ j = 1 \/ (j = 2 /\ todo[1].do = "use")

(* A block that a jump may leave to several was activated before them.     *)
OnlyTo(b, c) == \A d \in Block : b \in Range(preds[d]) => d = c
Precedes(b, c) ==
  \E i, j \in DOMAIN blocks : i < j /\ blocks[i] = b /\ blocks[j] = c
EdgesInOrder ==
  \A c \in Block : \A b \in Range(preds[c]) :
    /\ Activated(b)
    /\ OnlyTo(b, c) \/ ~Activated(c) \/ Precedes(b, c)

(* Each block but the entry is entered from one activated before.          *)
BlocksFollow ==
  /\ blocks[1] = Entry
  /\ \A i, j \in DOMAIN blocks : blocks[i] = blocks[j] => i = j
  /\ \A j \in DOMAIN blocks : j > 1 =>
       \E i \in 1..(j - 1) : blocks[i] \in Range(preds[blocks[j]])

EdgesBack ==
  BlocksFollow /\ EdgesInOrder /\ (fault = "none" => ChoicesAreNew)

-----------------------------------------------------------------------------
HandlersInOrder == HandlersKeep /\ BlocksInOrder /\ LabelsWillBeFound
=============================================================================
