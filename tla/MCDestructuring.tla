--------------------------- MODULE MCDestructuring ---------------------------
EXTENDS Destructuring

(* The shapes of control flow: an if without an else, a while, and a while *)
(* whose body ends in a break or goes on.                                  *)
If == <<{2, 3}, {3}, {}>>
While == <<{2}, {3, 4}, {2}, {}>>
Break == <<{2}, {3, 4}, {2, 4}, {}>>

PredsIn(succ, c) == {b \in DOMAIN succ : c \in succ[b]}

(* Registers 1 and 2 are parameters, 3 is defined by a phi, and 4 by a phi *)
(* or an op.                                                               *)
MCReg == 1..4
MCParam == {1, 2}

PhisIn(succ) ==
  UNION {[block : {c}, args : [PredsIn(succ, c) -> Reg]] :
           c \in {d \in DOMAIN succ : Cardinality(PredsIn(succ, d)) > 1}}
Definitions(r, phi) ==
  {Copy(<<<<r, s>>>>) : s \in Reg \ {r}}
    \cup {Compute(<<r>>, <<>>), Compute(<<r>>, <<phi>>)}
OpsIn(succ, r, phi) == [block : DOMAIN succ, op : Definitions(r, phi)]

(* A program in which one register is read at the end of a block, by the   *)
(* terminator where there is a choice, otherwise by an op.                 *)
NoPhis == [r \in {} |-> r]
Phis(succ, p, q) ==
  [b \in DOMAIN succ |->
     LET mine == {d \in {<<3, p>>, <<4, q>>} : d[2].block = b /\ "args" \in DOMAIN d[2]}
     IN [r \in {d[1] : d \in mine} |-> (CHOOSE d \in mine : d[1] = r)[2].args]]
ProgramOf(succ, p, q, block, reg) ==
  LET choice == Cardinality(succ[block]) > 1
  IN [succ |-> succ,
      phis |-> Phis(succ, p, q),
      ops |-> [b \in DOMAIN succ |->
                 (IF q.block = b /\ "op" \in DOMAIN q THEN <<q.op>> ELSE <<>>)
                 \o (IF b = block /\ ~choice THEN <<Compute(<<>>, <<reg>>)>>
                                             ELSE <<>>)],
      term |-> [b \in DOMAIN succ |->
                  IF b = block /\ choice THEN <<reg>> ELSE <<>>]]

(* The root operand strategy with a variable of two registers or of three, *)
(* and the aggressive one.                                                 *)
Strategies == {<<TRUE, <<"x", "y", "x", "x">>>>, <<TRUE, <<"x", "y", "x", "y">>>>,
               <<FALSE, <<"any", "any", "any", "any">>>>}

MCInit ==
  /\ \E succ \in {If, While, Break} :
       /\ body = [i \in DOMAIN succ |-> i]
       /\ \E p \in PhisIn(succ), q \in PhisIn(succ) \cup OpsIn(succ, 4, 3) :
            /\ DefinitionsReach(ProgramOf(succ, p, q, 1, 1))
            /\ \E block \in DOMAIN succ, reg \in {1, 3, 4} :
                 /\ ssa = ProgramOf(succ, p, q, block, reg)
                 /\ IsSSA(ssa)
  /\ optimise \in BOOLEAN
  /\ LoopHeadersAreJumpedTo(ssa)
  /\ \E s \in Strategies : allowParams = s[1] /\ keyOf = s[2]
  /\ code = ssa
  /\ phase = "split"
  /\ at = [block |-> Entry, op |-> 1]
  /\ holds = [l \in Reg |-> {l} \cap Param]
  /\ liveAt = [r \in Reg |-> {}]
  /\ waiting = <<>>
  /\ groups = <<>>

MCSpec == MCInit /\ [][DestructuringNext]_dvars
=============================================================================
