# A verification development for Puya

Puya compiles Algorand smart contracts: a front end (PuyaPy, for Python) turns
source into a typed tree (AWST), the builder turns AWST into an SSA
intermediate representation (IR), the optimiser rewrites it, destructuring
leaves SSA, MIR allocates the locals on the stack of the AVM, TEAL is optimised
again, and the assembler emits byte code. PuyaPy also is a language server, the
one part of the repository that runs concurrently.

This directory holds TLA+ models of the parts in which a mistake is hard to
find by testing, TLC configurations that check them on small instances, and
proofs that TLAPS checks for every instance. `PROJECT.json` is the index: the
components, the runs, the correspondence of each definition to source lines,
the hazards and the findings. Source paths below are relative to `src/src/`.

## 1. Inventory

| Component | State | Operations | Talks to | Hard behaviour | Correct when | Modelled |
|---|---|---|---|---|---|---|
| SSA construction `puya/ir/ssa.py` | sealed blocks, current definitions, incomplete phis, versions; phis and uses in the blocks | read and write a variable, seal a block, verify | driven by the blocks builder; mutates its blocks in the middle of its own recursion | mutual recursion over a graph that is incomplete and cyclic; caches that outlive a removal | the IR is SSA, every use sees the value the program assigned, phis match predecessors, none is trivial | yes |
| Blocks builder `puya/ir/builder/blocks.py` | blocks in order, predecessors, terminators, labelled and pending blocks, loop targets | add, terminate, goto, activate, open, seal, enter a loop, finalise | called by every statement handler | a contract on the order of its calls, enforced by internal errors | no legal program triggers an internal error; labels are found | yes |
| Flow control handlers `flow_control.py`, `iteration.py`, `main.py`, and `puyapy/awst_build/subroutine.py` | the visitor's call stack, registers kept in local variables, label stacks | one handler per statement | blocks builder, SSA construction | early exits in any nesting; registers kept while the graph changes | as above, and kept registers stay defined and current | partly |
| Parallel copies `puya/ir/destructure/parcopy.py` | work lists, location and predecessor of each value | sequentialise a tuple assignment | called by destructuring | cycles, fan-out, repeated targets | the copies have the effect of the assignment, with a temporary only for a cycle | yes |
| Destructuring `critical_edges.py`, `remove_phi.py`, `coalesce_locals.py`, `optimize.py` | the graph, sets of registers | split edges, isolate and remove phis, coalesce | parallel copies, liveness | lost copies and swaps, registers that share a local although both are live | the program computes the same | yes |
| Liveness `ir/vla.py`, `mir/vla.py` | live-in and live-out sets, a list of what to visit | a worklist | destructuring, stack allocation | a fixed point over a cyclic graph, with a loop that stops early | live where a path leads to a use before a definition, and nowhere else | yes |
| Stack allocation `puya/mir/stack_allocation` | three regions of a virtual stack, ops that are rewritten by each pass | copy to the l-stack, transfers over the x-stack, slots of the f-stack, peephole | liveness, MIR, TEAL building | stacks that must agree over every edge; a depth that each earlier op changes | each op gets its operands, and no assertion fails | yes, with any choice in place of the heuristics |
| Language server `puyapy/lsp/server.py`, `analyse.py` | queue, event, lock, known importers, analyses; the workspace of pygls | queue, wait, debounce, analyse, publish | two threads share the workspace without a lock | interleavings, stale reads, exceptions that end the thread | no lost wakeup, diagnostics go forward and end up current, the worker lives | partly |
| IR optimiser `puya/ir/optimize` | the IR, with the predecessors of each block | passes, some repeated by themselves, the pipeline repeated to a fixed point | IR models, destructuring | passes that rely on what others leave; lists of predecessors that each change of a terminator must keep | nothing observable changes, no assertion fails, the passes end | partly: control flow, copies and constants |
| TEAL optimiser and assembler `puya/teal`, `puya/ussemble` | op lists, label offsets | rewrites, layout | stack allocation | rewrites across ops, sizes that depend on offsets | same meaning, offsets right | only what the ops of the MIR become |
| Compile pipeline `compile.py`, `artifact_sorter.py` | references between programs | sort, compile | everything | cycles of references | dependency order | no |
| Service `service.py`, logging `log.py`, specifications `arc32.py`, `arc56.py`, AWST, expression builders, op tables | little or none | data translation | | | | no |

`PROJECT.json` lists them all with their status and, for those that are left
out, the reason; so does section 6.

## 2. Modules

```
BraunSSA <--- EXTENDS --- SSAExecution <--- EXTENDS --- FlowControl
   ^  (MCBraunSSA)                                      (MCFlowControl)
   |                                                        |
   |                              refines BraunSSA's Spec --+
   +-- BraunSSA_invariant <--------- BraunSSA_proofs
                                              ^
                                              +- BraunSSA_phi_proofs
                                                         ^
   SSAExecution_invariant <------------------------------+- SSAExecution_proofs
     (EXTENDS BraunSSA_invariant, SSAExecution)                       ^
                                                                      |
   FlowControl_invariant <--------------------------------------------+
     (EXTENDS SSAExecution_invariant, FlowControl)   FlowControl_proofs

ParallelAssignment <--- refined by --- ParallelCopy <--- ParallelCopy_proofs

LiveVariables <-+- Liveness <--- Liveness_proofs          (MCLiveness)
                |
                +- Destructuring                          (MCDestructuring)
                |      |
   Coalescing <-|------+
       ^        |
       |        +- StackAllocation ---> StackOps          (MCStackAllocation)
       +-- Coalescing_proofs

IRPrograms <--- EXTENDS --- Optimizer                     (MCOptimizer)

LanguageServer <--- EXTENDS --- LanguageServer_proofs     (MCLanguageServer)
```

The modules follow a subroutine through the compiler. FlowControl and BraunSSA
bring it into SSA form, Optimizer rewrites it, Destructuring takes it out of it, StackAllocation puts
its locals on the stack. Where one stage relies on what another leaves, the two
modules state the same thing: `LoopHeadersAreJumpedTo` is a theorem about
FlowControl and an assumption on the programs of Destructuring;
`PhisMatchPredecessors` and `UsesAreDominated` are what `IsSSA` asks of them,
and what Optimizer starts from (`Valid`, `UsesComeAfter`);
`CopiesAreParallel` allows Destructuring to take a parallel copy as one step; and
`LiveOnSomePath` allows both later stages to use liveness by its meaning.

An operator whose name has the form `F_Fault` is `F` with a plausible mistake.
It is no part of the model; substituting it for `F` shows that a property
notices the mistake.

### BraunSSA

The on-the-fly SSA construction and the block operations that drive it. The
functions `read_variable`, `_read_variable_recursive`, `_add_phi_operands`,
`try_remove` and `seal_block` call each other and change the graph between the
calls. Their recursion is a stack of frames (`calls`, the running frame first);
an action is one step of the top frame, and `ret` is the register that the last
call returned.

| Code | Model |
|---|---|
| `BlocksBuilder._blocks`, `active_block` | `blocks`, `active` |
| `BasicBlock._predecessors`, `.terminator`, `.ops`, `.phis` | `preds`, `terminated`, `ops`, `phis` and `phiArgs` |
| `_sealed_blocks`, `_current_def`, `_incomplete_phis`, `_variable_versions` | `sealed`, `currentDef`, `incomplete`, `versions` |
| `trivial_replacements` | `removals` |
| an `InternalError` | `fault`, which ends the construction |
| the warning "potentially used before assignment" | `undefinedRead` |
| `read_variable` and `_read_variable_recursive` | `ReadLocal`, `ReadUnsealed`, `ReadSinglePredecessor`, `ReadJoin`, `WriteBack` |
| `_add_phi_operands` | `ReadOperand`, `AppendOperand`, `OperandsComplete`, `CollectResult`, `FixupDefinitions`, `FixupComplete` |
| `_TrivialPhiRemover.try_remove` | `TryUndefined`, `TryNotTrivial`, `TryTrivial`, `TryUsers` |
| `seal_block` | `StartSeal`, `CompletePhi`, `SealComplete` |
| `add`, `maybe_terminate`, `activate_block`, `activate_open_block`, `finalise` | `Assign`, `UseVariable`, `ReadVariable`, `UseHeld`, `Terminate`, `Activate`, `ActivateOpen`, `CloseOpen`, `Finalise`, `FinaliseSeal`, `FinaliseComplete` |

The client is free: it may call the block operations in any order, so the
graphs include those no statement can build. It may use a register it read
earlier as long as the register is still defined. `reads` is a history
variable. Abstracted: types (they follow the variable's name), source
locations, messages, and the order in which the users of a phi are retried,
which is any order in the model.

### SSAExecution

The meaning of the finished IR. Control walks the blocks along any path; the
machine's state is the set of registers that hold the *current* value of their
variable (and the set of those that hold any). Phis of a block run in parallel
on entry, as `puya/ir/models.py` says. This turns "the IR is right" into
invariants of a state machine: a read finds a register in `current`.

### FlowControl

What the statement handlers really call, as a sequence `todo` of block
operations and statements left to visit. The program is not given: at the end of
`todo` items `Body`, the next statement may be any that the bounds allow, so a
run covers all programs of the size: conditionals, conditional expressions,
switches with and without a default case, while loops, and for loops over a
range, a reversed range, an indexable value, a reversed one, and a tuple. `held`
are the registers a handler keeps in local variables; they are known by a block of
the handler, which no other visit of a handler creates. Most of them are kept over
the visit of a body, which may be any statements: the step of a range, which is
read before the loop and added to the counter in the footer (`iteration.py:244`
and `340`); the step of a reversed range and its start or its greatest item,
which decide in the footer whether the loop goes on (`418`, `421`, `438`); the
values of a tuple, of which all but the first are assigned in headers that are built
after the body (`613`, `626`); and the counters, read in the open header or
body. Others are used before the body (the stop of a range, an array) or over the
right operand of an operation. A tuple has two values, and what a range or a tuple
is built from are variables of the user, which the body may assign. The body of a `for` or
a `while` is one item, `Loop`, which becomes the statements and the exit of the
loop when it is reached; the body of the `if` of a `try_activate_block` is in the
item, and takes its place when the block is activated. The labels and gotos come from
the Python front end: loops with an else, and or-patterns of a match.
`ImplementsBraunSSA` states that these handlers are a client of BraunSSA, so
what BraunSSA promises any client holds for them (section 5 has the proof). Left
out: the index of an `enumerate`, a second variable that is assigned beside the
first and read and incremented where the counter is, the iteration that
yields a range to its caller, which has the blocks of the range loop, and
conditional expressions that become a select op, which have no blocks.

### IRPrograms, Optimizer

IRPrograms has subroutines as values: records of blocks with phis, ops, a
terminator and a list of predecessors. It has the operations that keep that list
(`RemovePredecessor`, which collapses phis that are left with one argument, and
`ReplacePredecessor`), what `validate_with_ssa` accepts (`Valid`), and an
interpreter, `NextEvent`.

Optimizer has one action per pass, in the order of `get_subroutine_optimizations`.
A pass is an operator from programs to programs, because nothing else runs in
the meantime; `RunPass` is `SubroutineOptimization.optimize`, which repeats the
passes that have a loop, and `EndRound` is the end of an iteration over the
pipeline. An assertion or an `InternalError` in a pass sets `error` in the
program. When no pass modifies anything, programs without phis go on to what
`destructure/optimize.py` repeats, with or without the deduplication of blocks.

Then the program as it was and as it is are executed side by side (`Start`,
`GoOn`), from one event to the next: a call with its arguments, a return, an
exit or a failure. A call returns any value, and the next event of both must
be the same. This is stronger than to compare results: no call may be
dropped, repeated or moved before another.

| Code | Model |
|---|---|
| `_split_parallel_copies`, `constant_replacer`, `copy_propagation`, `remove_unused_variables` | `SplitParallelCopies`, `ConstantReplacer`, `CopyPropagation`, `RemoveUnusedVariables` |
| `intrinsic_simplifier` | `IntrinsicSimplifier`, for negations and assertions of constants |
| `simplify_control_ops` | `SimplifyControlOps`, one `SimplifyBlock` per block |
| `merge_blocks`, `remove_linear_jumps`, `remove_unreachable_blocks` | `MergeBlocks`, `RemoveLinearJumps`, `RemoveUnreachableBlocks` |
| `repeated_expression_elimination` | `RepeatedExpressionElimination` |
| `post_ssa_optimizer`, `_block_deduplication` | `PostOptimize`, `BlockDeduplication` |

Values are 0, 1 and 2. Negation stands for the ops that have a result and no
effect, a call for all that have an effect; an op `f` of one argument and a
parameterless `g` are enough to see an order. Left out: the passes about
inner transactions, boxes, aggregates and slots, `sink_single_use_intrinsics`,
and inlining.

### ParallelAssignment, ParallelCopy

The first is the atomic meaning of a tuple assignment. The second is
`_sequentialize`, one action per iteration of its loops, with the registers'
contents after the copies emitted so far. Under the refinement the abstract
assignment is `pending` until the algorithm is done, and the abstract memory is
what the values held `before` until then and what they hold afterwards: all the
copies together are one step `Assign`, and what registers and temporaries hold
in between is not seen.

### LiveVariables, Liveness

LiveVariables says what it means for a local to be live: `LiveIn` counts the
steps of a path to a use, and does not mention a worklist. Liveness is the
worklist of `VariableLifetimeAnalysis`: an action is one visit of an op (`Visit`)
or the start of a round (`NextRound`); the order in which the predecessors of an
op are listed is any. `mir/vla.py` has the same loop over other ops.

### Coalescing

`coalesce_registers`: one action, `Place`, for each register. What is live
after a definition (`liveAt`), the keys of the registers and their order are
given and may be anything, which is how the proofs take them.

### Destructuring

The passes of `destructure_ssa` in their order, as phases: `SplitCriticalEdge`
(one edge at a time, in any order), `IsolateArguments` (`convert_to_cssa`),
`RemovePhis` (`destructure_cssa`), `Analyse`, `PlaceRegister` (Coalescing, of
which this module is the client), `ReplaceRegisters`. `ssa` keeps the program
in SSA form beside `code`, the program as it is now.

When the passes are done the two programs run in step along any path: in `ssa`
the phis of a block take their arguments together when it is entered, in `code`
the copies run at the end of the predecessor. Values do not matter, only which
of them are the same, so `holds[l]` is the set of SSA registers whose current
value local `l` has. A use agrees when the register it names in `ssa` is among
those that the local it names in `code` holds. The lost copy and swap problems,
a coalescing that merges what is live together, and a copy on the wrong edge all
show as a use that does not agree.

Abstracted: types (they separate groups, as keys do) and the names of new
registers, which are numbers. Parallel copies are single steps. A phi without arguments (`remove_phi.py:31`) is not modelled, because the builder
leaves none.

### StackOps, StackAllocation

StackOps has the ops of the MIR and two readings of them. `Visit` is what the
compiler's `Stack` does with the *names* of what is on the stack, with its
assertions; `Exec` is what the emitted TEAL does with *values* (`cover`,
`uncover`, `dig`, `bury`, `frame_dig`, `frame_bury`, and the end of a subroutine,
`Returned`). A result is named after the op that gave it.

StackAllocation has one action per pass: `LStackAllocation` (usage pairs, copies,
dead stores, implicit stores, load depths), `PeepholeOptimization` after each pass,
`XStackAllocation` (edge sets, selection, order, transfers) and
`FStackAllocation` (slots, and the values that are inserted where they are first
stored). An operation of the code over all blocks is one step because nothing
else runs; the interesting nondeterminism is in the choices: which locals the
x-stack carries and in which order is any choice the code's conditions allow, so
the results hold however the ranking and the cost of a transit are computed.

The properties compare the block as it was before the allocation (`Meant`, with
loads and stores in memory) and as it is after it (`Done`): every op and
terminator has the same operands, and each local whose value is needed later is
where the next block looks for it. Left out: parameters, which have slots below
the frame, and the types that divide the f-stack in two lists.

### LanguageServer

The main thread and the worker. A section under `_analysis_lock` is one action.
Every loop over `text_documents` takes one step per document, because the main
thread may change the workspace in between; a change of its size makes the loop
raise. The texts of a document are numbered in the order they are written
(`text`), and a text parses or not; diagnostics are the numbers of the texts they
come from. The `version` of a document is something else: it is the client's,
and nothing in `server.py` or `analyse.py` looks at it. It is greater after a
`didChange` (LSP asks that of clients) and anything after a `didOpen`, also when
the document was open before, with higher versions. `numbered` is a history
variable: which text the client has given each version since it last opened the
document. That pygls stores the text and the version of a notification is one step,
and is external. The parse-and-compile step reads
nothing that is shared (contents were copied before), so it is one action.

## 3. Runs

| Run | Bounds | Question |
|---|---|---|
| `ssa_construction` | 4 blocks, one labelled, 5 edges, 1 variable, 1 op, 2 targets | Is the SSA form well formed at every step, minimal between operations and complete at the end, on every graph? |
| `ssa_execution` | 3 blocks, one labelled, any edges, 1 variable, 2 ops | Does each call of the builder return, and is each read current on each path through the finished graph? |
| `flow_control` | 3 statements of any kind, 8 blocks and a label, 2 temporaries, 60 ops (never reached) | Current reads and counters, live registers in the handlers, labels that are found, jumps that destructuring can use, for every program; and refinement of BraunSSA |
| `lsp_editing` | 3 documents in a chain, 2 texts and 2 versions of each | Do diagnostics only move forward and end up current? |
| `lsp_full` | 2 documents, 3 texts of each and 4 in all, 2 versions; they open, close, break | No lost wakeup; no diagnostics under a number that stands for an older text |
| `parallel_copy` | 4 registers, 4 pairs, 1 assignment, 2 temporaries | Refinement of the atomic assignment, with a temporary only for an isolated cycle; termination |
| `liveness` | 3 ops with up to 2 successors, 2 locals | Does the worklist end, with liveness over paths? |
| `destructuring` | an if, a while, a while with a break; two phis, or a phi and an op; 2 parameters, 3 splits, 3 coalescing strategies, both optimisation levels | Does the code that leaves SSA read on every path what the SSA form reads? |
| `stack_allocation` | 2 locals, 6 graphs of up to 4 blocks, 3 statements (2 of any kind in a single block), both optimisation levels | Does the stack code give every op its operands, and do blocks agree over edges? |
| `optimizer` | 6 graphs of up to 5 blocks, 3 registers defined by ops, calls or phis in any place, a parameter, 5 rounds | Do the passes end, with valid SSA after each round and nothing observable changed? |
| `optimizer_entry` | as `optimizer`, an if at the start of a subroutine | Is the dead branch never executed? (It is.) |
| `lsp_import_cycle` | 2 documents that import each other | Does the worker live? (It does not.) |

Four blocks give every shape the construction distinguishes: a join, a loop with
an inner join, two nested or crossing (irreducible) loops, a join whose
predecessors are sealed later, and a chain of trivial phis of which the second
becomes trivial only when the first is removed (it takes four blocks: the
mistake that forgets the users of a removed phi is found only there). Versions
need no bound of their own: they are bounded by the number of ops and blocks.
One variable is enough for the construction because definitions, phis and
versions of different variables do not interact; `flow_control` has a user's
variable and two temporaries, so that a loop that has two, a reversed or indexed
one, is among its programs. Symmetry is used among the unlabelled blocks of `ssa_construction`
only: nothing compares them, and that run checks invariants.

Three texts of a document, and two versions to give them, are enough for a document that is
analysed, changed, closed and opened again under a number that it has had before,
while the worker is between the two reads.

Four registers give a parallel copy two cycles of two, a cycle of four, a cycle
with a tail and fan-out. Three ops give the analysis loops of one, two and three
ops, loops that share an op, and ops that nothing reaches. Two phis in one block
give destructuring the swap problem, a phi that is live after its block gives
the lost copy problem, and the while with a break has an edge that is critical
and one that a phi's copies share with another target. The six graphs of
the stack allocation are straight line code, a branch, a diamond, a loop, edges
that cross, and a loop through the entry with two exits; with two locals each has
an order on the x-stack that the next block may want reversed. The six graphs of the optimiser
are a short-circuit condition that joins three ways (a block that loses one of
them keeps two), a goto-nth, a dense and a sparse switch, two branches to errors,
and a loop with a break; the smallest of the programs that two passes spoil
together has a copy, a negation and a phi, and each program has three
definitions. Five rounds and three repetitions are bounds that no
program reaches, which `FixedPointReached` says; the code stops at 100 rounds.
What these bounds do not reach: three locals on the x-stack, and nested loops in
destructuring and in the optimiser.

`CHECK_DEADLOCK FALSE` appears where the modelled program really stops: a
construction that has raised an error or finished, passes that are done, a
client that stops typing, a sequence of assignments at its end. `flow_control`
checks deadlock: the visitor never gets stuck, except at `Stopped`.

### Fairness

- `LanguageServer!FairSpec`: weak fairness of `Queue` (pygls runs the handler of
  a notification it has received) and of `Worker` (an operating system thread
  is scheduled). Nothing is assumed of the client.
- `SSAExecution!FairExecSpec`: weak fairness of `Step`, the execution of a call
  of the builder that has begun: the builder is single threaded and its caller
  waits. The client need not call anything.
- `ParallelCopy!FairSpec` and the one of Liveness: weak fairness of a sequential
  algorithm.

## 4. What the code does otherwise

Two runs end in a violation of something the documentation says. `PROJECT.json`
quotes it.

- `optimizer_entry`: `remove_linear_jumps` (`collapse_blocks.py:86`) removes
  every empty block that jumps, the entry too, and `Subroutine.entry` is the
  block that comes first (`models.py:1400`). For

  ```python
  debug = False
  if debug:
      log("debug")
  return
  ```

  in a subroutine, constants are propagated, the branch becomes a jump, the
  empty entry is removed, and the block that comes next, the body of the `if`,
  is the entry: it is executed. In `optimizer` each subroutine begins with a
  call (`EntryObserves`), so that no entry is empty.
- `lsp_import_cycle`: documents that import each other end the worker thread
  with a `RecursionError`, and nothing restarts it (`analyse.py:253`).

What follows was found with the models too and has no run of its own.

*A loop over a tuple that always returns* (`iteration.py:678`) is an
`InternalError`: the block after it is activated without predecessors. A loop
with an `else` that returns, and no `break`, fails for a second reason: it
leaves an empty labelled block that nothing jumps to (`subroutine.py:1123`).
`flow_control` has both constructs; its `BlocksWellFormed` allows that error and
no other, and `NoInternalError` in its place fails.

*A re-entrant entry block.* When the entry block of a subroutine is also the
header of a loop, a local may be given a place on the x-stack of the entry,
because one block of an edge set may be without it (`x_stack.py:120`). The caller
has put nothing there. `test_cases/unssa/contract.py:78` has such an entry
block and `f_stack.py:20` caters for it, but not the x-stack. `OperandsAreKept`
starts each block with what `x_stack_in` says, which the caller of such a
subroutine has not provided, and so does not see this; `EntryHasNoTransfers`, in
its place in `stack_allocation.cfg` with two statements, fails.

*A negation that is not computed* (`control_op_simplification.py:80`). A branch
on `x` to an error becomes an assertion of `not%x`, which is computed there unless
it is defined anywhere. With two such branches in the two arms of an `if`, the
second arm asserts a register that only the first one defines, which is read
without a value, or removed with its branch
(and then `validate_with_ssa` raises an `InternalError`). It takes an
`if x: op.err("p")` in one arm and an `if x: op.err("q")` in the other. No graph of
MCOptimizer has such a pair.

*Two empty blocks that jump to each other* (`collapse_blocks.py:92`): the chain
of jumps is followed for ever. A block that jumps to itself is excepted, a loop
of two, such as a `while True` whose body is empty once it is optimised, is not.
The model sets `error` there, and no graph of MCOptimizer has one.

*Importers* (`analyse.py:215`). An analysis replaces the known
importers of a module by those of the analysis that has just run, while the
docstring (`analyse.py:51`) speaks of all of them. With a module that two
documents import, `EventuallyUpToDate` fails; the runs
have one importer for each module. `PROJECT.json` lists all of these as hazards.

`WorkerSurvives` fails for another reason when `CanClose` is TRUE: the loop over
the open documents at `analyse.py:144` raises when the main thread opens or
closes one meanwhile, outside of any handler (`VersionsFailed`), and a changed
document may have been closed without being saved (`Relate`). `lsp_full` takes
these steps; its invariants hold in them too.

The version of a document is read after the compilation and its text before it
(`analyse.py:144`), so diagnostics of an old text may be published under the
version of a newer one. `VersionNotOlder` says that the error has this direction
only, and `EventuallyUpToDate` that it heals: the change that caused it has
queued the document again. A version that the client has used twice, before and
after it closed a document, is what the property is careful about: diagnostics
that were published under its first use are still there after the second, and
the text they come from is older than the one it stands for now. It says
nothing of a number that the client has not given since the document was opened.

## 5. Proofs

`BraunSSA_proofs.tla` proves, for all values of the constants that satisfy
`ConstantsAssumption` (any number of variables, blocks, ops and targets):

- `TypeCorrect`: `Spec => [](TypeOK /\ ResultsAreGiven)`. Types alone are not
  inductive: `ret` is "no register" at first, and nothing in `TypeOK` keeps
  the frame that stores a result from storing that. `ResultsAreGiven` is the
  missing part: a frame that consumes a result is never right below a frame
  that ends without giving one, and when it runs there is a result. The lemmas
  about the call stack (`StackShape`, `ReturnOK`, `BecomeOneOK`, `BecomeTwoOK`,
  `PushOK`) say how each way of changing the stack preserves that.
- `VersionsAdvance` and `SSAConstraint`: `Spec => []VersionsIssued` and
  `Spec => []SingleAssignment`. `SingleAssignment` is not inductive either: a
  new register might already be defined. The invariant is
  `InductiveSSA == TypeOK /\ ResultsAreGiven /\ VersionsIssued /\
  SingleAssignment`; `FreshRegister` derives that the register `new_register`
  returns is not defined, and the removal of a phi only removes definitions.

The rest of what is proved of BraunSSA is one inductive invariant,
`InductiveSSA /\ Construction` (`BraunSSA_invariant.tla`), under the same
assumptions. `ConstructionIsSound` says that every step keeps it. Its conjuncts
are layers: each is kept by the steps of a state that satisfies it and those
before it. `BraunSSA_proofs.tla` proves the first three,
`BraunSSA_phi_proofs.tla` the others and the theorems.

- `Shape`: which frame may be right below which, and that a removal of trivial
  phis is on top of the stack and ends in the frame that began it.
- `Webs`: whatever a read sets in motion is about the variable that is read
  (`OneVariable`), arguments and definitions are of the variable of their phi or
  key, a phi that waits for its operands is the definition of its variable, and
  no register is mentioned before it exists.
- `Ages`: the phis of a read are younger the deeper the recursion is, what is
  older than one of them does not depend on it (`YoungSeparate`), and so a
  removal stays among phis at least as young as the one it began with
  (`TriedAreYoung`). This is why `try_remove` never meets the phi of an outer
  `_add_phi_operands`, which has some of its operands only. It is not so for the
  phis that wait for a block to be sealed, which is why the invariant speaks of
  frames above a read only.
- `Operands`: a phi waits, is being filled, or is complete, and its operands are
  those of the predecessors that are not `todo`.
- `Definitions`: what is read is defined. In the middle of a removal it is not
  so for the cache, and the invariant says what there is instead: a set of removed
  registers that the remaining list of replacements leads, one after the other,
  to a register that is defined (`Pending`, `Resolves`).
- `TrivialAreTried`: a trivial phi that has its operands is one that a frame on
  the stack is going to try.

From it follow `CurrentDefinitionsAreDefined` (`CacheIsLive`),
`NothingUndefinedIsUsed` (`UsesAreDefined`), `AlgorithmNeverFails`
(`NoAlgorithmFault`), `PhisOfTheFinishedMatch` (`PhisMatchPredecessors`),
`TriedPhisAreComplete` (`OnlyCompletePhisTried`) and `TrivialPhisAreRemoved`
(`NoTrivialPhiLeft`). TLC found no state that violates `Construction` with
3 blocks and one variable (62 062 states), 3 blocks, two variables and a
parameter (259 381 states), 4 blocks and one variable (2 669 773 states).

`SSAExecution_proofs.tla` proves first `ReadsFindTheirValue`, `ExecSpec =>
[]ReadsAreCurrent`: whatever the graph, the number of variables and the order of
the client's calls, a read in the finished form finds the value last assigned,
on every path. The difficulty is that the property is about paths of any length
through a graph that is not complete until the last call, while an invariant is
about one state. `SSAExecution_invariant.tla` has a witness for it: a set E
of pairs of a register and a block, where the register holds its variable's
value on entry to the block from wherever control comes. That is a condition on
edges (`Inherited`: each predecessor hands the register over, unless a phi of the
block defines it), which new edges into unsealed blocks do not disturb, because a
register is on entry to a block only by a phi until the block is being sealed.
From E follows where a register reaches inside a block (`Reaches`), and the
rest of the invariant says that the builder only answers with what reaches:

- `Graph`: nothing jumps to the entry block, and predecessors are terminated, so
  that nothing is appended to them that could overwrite what they hand over.
- `ArgsLeave`, `CacheLeaves`, `ReadsReach`: each phi argument reaches the end of
  the predecessor it comes from, each cached definition the end of its block, each
  read the register it uses; and a block with no cached definition writes nothing.
- `ReplacementsHold`: a removed phi is known to hold a value only where its
  replacement does, and had no other argument. The replacement holds its value
  at the end of each predecessor, and where a phi had only itself besides,
  along the edges of a loop, so it holds it on entry: this is the proof that
  trivial phis may be removed.
- `Stack`, `PhisOfReads`, `ResultHolds`: what the calls in progress rely on, such as
  that the register a recursive read is about to return reaches the end of the
  block that was read.

E grows (`Gains`) when a phi is created, when a definition is written back to
the cache, and when a phi is replaced. `Meaning` is kept by every step of BraunSSA
(`MeaningNext`), on top of `Construction`; then the machine, which waits until
the subroutine is finalised, keeps that the registers which reach its next op
are current (`MachineOK`). TLC found no state that violates this invariant
in `ssa_execution`, with the largest E that satisfies `EntriesOK` as the witness
(1 601 615 states).

The same E gives `WarningsAreExact`, `Spec => []WarnedWhenUnassigned`: a variable
that is not a parameter is warned about exactly when some path reaches a read of
it before any assignment. The warning is given where `try_remove` meets a phi with
no argument but itself, so the proof says where such a phi can be, and why there is
one (`Warnings` and `ReadsFind` of `SSAExecution_invariant.tla`):

- No warning is spurious (`OnlyAskedFor`): each phi, and each block where a
  recursive read goes, is there because from the entry to its block a path without
  an assignment leads to a read (`IsAsked`, by the least closed set `Follows`,
  which only grows). A phi without arguments is one of the entry block
  (`UndefinedAtEntry`): it would otherwise be its own value on entry to all of its
  predecessors, theirs, and so on, but E has it on entry to the entry block only
  by a phi there, and every activated block can be reached from the entry
  (`BlocksAreReached`).
- No warning is missing: a read that asks for the value on entry to its block has
  found one that E has there (`ReadsFind`), unless the call that looks it up
  has not returned. In a finished subroutine the blocks where E has some register
  of the variable are closed backwards along the edges from blocks that do not
  assign it (`HeldBefore`), so that the entry is one of them, by a phi, and a phi
  of the entry is warned about as soon as it has been tried (`EntryIsWarned`).

TLC found no state that violates these parts with 3 blocks, one variable and
2 ops (1 428 503 states).

`FlowControl_proofs.tla` proves that the statement handlers keep to the contract
of the blocks builder, so that what is proved of the builder holds of
every program they can be asked to translate, of any size:

- `HandlersImplementBraunSSA`: `FlowSpec => ImplementsBraunSSA`, and
  `HandlersImplementExecution`: `FlowSpec => ExecSpec`. Every step of a handler is
  a call that BraunSSA's client may make in that state, or changes nothing of
  it. All the theorems above about `Spec` and `ExecSpec` carry over, and
  `HandlersKeepValues`, `FlowSpec => []ReadsAreCurrent`, is stated.
- `HandlersAreWellFormed`: `FlowSpec => []BlocksWellFormed`, and
  `HandlersDefineLabels`: `FlowSpec => []LabelsAreFound`.
- `HandlersJumpBack`: `FlowSpec => []LoopHeadersAreJumpedTo`, what Destructuring
  assumes of the programs it is given.

A client of BraunSSA may only jump to a block that is not sealed, activate a
block that has not been, terminate a block once, seal what it has
activated, and use a register that is still defined. The handlers check
nothing of that: they are right because of the order of their lines. That order
is in `todo`, and the invariant (`HandlersInOrder` of `FlowControl_invariant.tla`,
with `Warned` for what BraunSSA's own invariants say) is about what can be there:

- `BlocksInOrder`: each block has one item that activates it and one that seals
  it, later than whatever jumps to it (`JumpsInOrder`, `SealedOnce`,
  `SealedAtLast`); an item that starts a block comes after one that ends the active
  one (`EndsInOrder`); the targets that `break` and `continue` find are those of the
  loops whose bodies are being visited (`LoopsInOrder`).
- `LabelsWillBeFound`: a label that is jumped to has been activated, or
  is the block of a body that waits in `todo`.
- `HandlersKeep`: a register that a handler keeps over a visit, such as the step of a
  range or the values of a tuple over the body of their loop, is one that is not
  replaced meanwhile, whatever the body does (`KeptIsDefined`). A phi can be
  removed only after a younger one than itself was tried or sealed; `Protected` says
  that no phi as old as the kept register waits, and that no argument of an older
  one is younger, and `ClosesYoung` that the blocks which are sealed before
  the last use have only younger phis. `KeysScoped` has each use between the read it
  refers to and the end of its handler (`KeepFollowsRead`, `FinaliseLast`).

What a handler appends is a plan (`Works`): a few properties of a list of items which
together with those of the list before it give those of the whole, so that
each handler has one lemma about the items it appends and all share one about
the list. The constants satisfy `FlowAssumption`; TLC found no state that violates
`HandlersInOrder` in `flow_control` (744 990 states).

`HandlersJumpBack` needs the order in which blocks are activated (`blocks`), with
`EdgesBack` as the rest of the invariant. Each activated block but the entry has a
predecessor that was activated before it (`BlocksFollow`), so that a block activated
before another is reached from the entry without it, by induction over the order: the
sets of `ReachedWithout` are numbered, and `NumberInduction` is about sets of
numbers. An edge from a block that goes to several leads to a block that is not
activated yet or was activated later (`EdgesInOrder`), so that only a single jump
goes back. That holds because what a branch or a condition in `todo` will decide
between is not activated by then (`ChoicesAreNew`), and loops go back by plain
jumps. TLC found no state that violates `EdgesBack` either, in the same run.

`LanguageServer_proofs.tla` proves, for any documents, imports and bounds that
satisfy `ServerAssumption`:

- `ServerTypes`: `Spec => []TypeOK`.
- `WakeupIsKept`: `Spec => []NoLostWakeup`. It is inductive with the types: the
  queue grows and the event is set in one section under the lock, and the event
  is cleared in the section that takes the queue.
- `DiagnosticsNotOlder`: `Spec => []VersionNotOlder`. The two reads of the
  worker are far apart, so the invariant carries what is known between them:
  the texts in hand are no newer than the workspace (`TextsAreRead`), a
  version stands for the text that has it (`VersionIsNumbered`), and the numbers
  read later stand for no texts older than those in hand (`VersionsFollowTexts`).
  Closing a document and opening it again keeps the last, because opening
  forgets what all numbers of the document meant and gives one of them to the newest
  text: nothing is assumed of that number.
- `DiagnosticsAdvance`: `Spec => DiagnosticsNeverGoBack`, an action property,
  when `CanClose` is FALSE, as in `lsp_editing`, the run that checks it: the
  worker reads a document that is closed from the disk, which may have an older text
  than the one it had open. The invariant is `PublishedFirst`: what is published for a
  document is no newer than the workspace, nor than a text that the
  worker has read since (`NewlyRead`), so that what it publishes next is at least
  as new.

`ParallelCopy_proofs.tla` proves, for any registers, pairs, temporaries and
number of assignments that satisfy `CopyAssumption`:

- `CopyTypes` and `SourcesSurvive`: `Spec => []TypeOK` and
  `Spec => []SourcesKept`.
- `CopiesImplementAssignment`: `Spec => CopiesAreParallel`, the refinement of
  ParallelAssignment. `SourcesKept` is far from inductive. `InductiveCopy` adds
  what the two lists mean: a source is in its place, in a temporary of its own
  or in one of its targets (`Located`); what `ready` holds is the place of no
  source (`FreeIsUnused`); a source that still waits has neither moved nor been
  copied from (`WaitingIsKept`); a target that waits and is not ready is a source
  or has its value (`WaitingIsUsed`); and every other target has its value
  (`OthersDone`). The only surprising step is `BreakCycle`: the code leaves the
  outer loop when `to_do` is empty although `ready` is not (line 93), and the
  proof shows that this never loses a copy, because a target in a cycle is never
  the last one to do. That the pairs which `dict` keeps are the last ones
  is `LastSources`.
- `TemporariesAreNeeded`: `Spec => []OneTempPerCycle`. The invariant is
  `TempsAreCycles`: no target of an isolated cycle that still waits is ready, so
  that such a cycle is broken exactly once (`WaitingCycle`, `UnbrokenIsKept`),
  and the number of temporaries is that of the isolated cycles that are not
  waiting any more. The cycles are sets, closed under `pred`; that two of them are
  equal or disjoint (`CyclesAreDisjoint`), and that the target which the code
  takes when nothing is ready is in one (`CycleThrough`), replaces an argument
  about permutations.

`Liveness_proofs.tla` proves, for any graph, any number of ops and locals and
any order of the predecessors, under `LivenessAssumption`:

- `LivenessTypes` and `NoChangeIsLost`: `Spec => []LivenessTypeOK` and
  `Spec => []PendingCoverChanges`. The second is inductive with the types: a visit
  makes the op's own equations true, and those it can make false are those of
  predecessors, which it appends. An op that precedes itself is the case to
  look at.
- `AnalysisIsLeast`: `Spec => []LeastSolution`. What is added to the invariant is
  `NeverTooMuch`: at every moment the sets are within every choice of sets that
  is large enough for the equations, since the equations are monotone
  (`Monotone`).
- `LiveExactlyOnPaths`: `Spec => []LiveOnSomePath`, that is, the least solution
  is liveness over paths. `LiveIn` is defined by recursion over the length of a
  path. That longer paths find more (`LongerFindsMore`), that paths longer than the
  number of ops do not (`AllAreFound`: for one local, each length finds one more
  op or nothing more for ever), and that the result has whatever a path of any
  length finds, are inductions over that length. The prover cannot use the library's
  theorem about induction, which has an operator as its parameter; `SetInduction`
  has a set in its place, and follows from the cardinality of finite sets.

`Coalescing_proofs.tla` proves, for any registers, keys, orders and liveness:

- `NoInterference`: `GroupingSpec => []GroupsDoNotInterfere`. The comment in
  `coalesce_registers` argues that it is enough to compare a register with the
  union of what is live at the members' definitions, and the members with what
  is live at its own; `LiveOutHasAll` says what the union is.
- `OneGroup`: `GroupingSpec => []GroupsAreDisjoint`, because a register waits
  once and no longer when it is grouped (`WaitingAreNew`).

Model-checked only: everything else. Liveness and termination (`CallsReturn`,
`QueuedIsTaken`, `EventuallyUpToDate`, `CopiesEnd`, `AnalysisEnds`) are outside the
prover's reach. `UsesAreDominated` and `CountersAreCurrent` follow a register that a
handler keeps over a visit along all the paths to its use, and so need, next to
where the registers of a variable reach (E), the set of blocks that lie behind
the one where the handler began, while the bodies it visits add edges: the plans of
the handlers would have to say that these sets are nested.
`UsesKeepTheirValues` needs an invariant that relates the graph of the
destructured program to the one before, phase by phase. StackAllocation has
recursive operators, for the peephole passes, and so has IRPrograms, for the
interpreter: no theorem can be stated over them, and Optimizer is built on the
second.

## 6. Not modelled

- Tables and generated code: `puya/ir/avm_ops.py`, `intrinsic_data.py`, the
  algopy stubs, `ussemble`'s encodings. There is no behaviour in them.
- Data translations: AWST nodes and their serialisation, `pytypes.py`, the
  expression builders of the front end and of the IR, inner transactions
  (`itxn.py`), the router, `arc32.py`, `arc56.py`, the client generator. They
  are large and sequential, and map one tree to another. A model that is
  shorter than the code would leave out what could be wrong with them.
- Rewrites of single ops (most of `intrinsic_simplification.py`, the TEAL
  peephole rules): arithmetic and byte strings, for which tests of the rules are a
  better tool.
- Code with control of its own, which a later module could have: inlining (of
  callees into the programs of Optimizer), the passes about inner transactions,
  boxes and aggregates; the layout of the assembler (sizes that depend on offsets).
- The artifact sorter: it collects the references between programs, hands them to
  the `TopologicalSorter` of graphlib, and turns its `CycleError` into an error of the
  program. What could be wrong in it is in the library.
- The service and logging: one request at a time, and wording.
- Of the language server: code actions, configuration changes, the content of
  diagnostics, and the race on the time of the last trigger (`server.py:200`),
  which only changes how long a wait is.

These make up most of the repository's lines; the models are of the parts where
an order of steps, a graph or a second thread can go wrong.

## 7. Plan

1. Optimiser: inlining, on programs of several subroutines, and the composition
   with Destructuring, in which the optimised programs are its input and the
   re-entrant entry of section 4 is one of them.
2. Assembler layout; parameters in StackAllocation; the index of `enumerate`.
3. Proofs: in FlowControl, that the block where a loop's counter is read dominates
   its uses (`CountersAreCurrent`), which would also give `UsesAreDominated` for
   the registers that handlers keep; the steps of destructuring on top of the theorems about parallel copies and coalescing.

## 8. Running

In this directory: `tlc -workers 2 -config <run>.cfg <module>` for the modules
named in `PROJECT.json`, and `tlapm` for the modules `*_proofs.tla`.
