# pefa: models, checks and proofs

pefa is a query engine for Apache Arrow tables. A query (`QueryCompiler`) is a
chain of projections and filters; executing it rewrites the chain, evaluates
each filter into a bitmap with machine code generated by LLVM, and copies the
selected rows into a new table. This directory models that path: how plans are
built, rewritten and run, how expressions are evaluated, how the bitmap of a
comparison is computed over a column cut into chunks and by which machine code,
how that code is made and found, and how a bitmap is applied. Paths below are
relative to `src/pefa/`.

## 1. Inventory

| Part | State | Operations | Model |
|---|---|---|---|
| Selection bitmap (`execution/execution.cpp:51-90`, `kernels/filter.cpp:100-134`) | column, bitmap, chunk counter, running offset | main pass (`execute` per chunk), remaining pass (`execute_remaining` for head and tail) | `FilterBitmap`, specified by `RowFilter` |
| Generated kernel code (`kernels/filter.cpp:178-333`) | bytes of the bitmap, loop counters, the byte gathered | the two functions, block by block | `KernelLoops`, shown to have the effect `FilterBitmap` takes |
| Literals and comparisons (`utils/llvm_helpers.h`, `kernels/filter.cpp:52-74`) | none but the constant made | type of a column, constant of that type, comparison | `LiteralCompare` |
| Filter expressions (`query_compiler/expressions.*`, `execution/execution.cpp:26-60`, `kernels/filter.cpp:30-76`) | shared expressions, `m_buffer`, `m_result`, `lhs_buf` | constructors; the visits of executor and emitter | `FilterExpr` |
| Kernel lifecycle, JIT (`kernels/filter.cpp:78-159`, `jit/*`) | modules, resolvers, function pointers, `m_moduleKey` | create, compile, execute, destroy; add, find, remove | `JitKernels` |
| Materialization (`execution/execution.cpp:113-191`) | four positions, the chunk being written, columns copied | check bitmap, per column: enter chunk, copy row, leave chunk, push chunk | `Materialize` |
| Logical plan, visitors (`query_compiler/logical_plan.*`) | heap of nodes shared through `shared_ptr` | `visit`, input first | `QueryPlan` |
| Optimizer, `JoinFilterPass` (`query_compiler/lp_optimizer/*`) | `m_result`, nodes it makes and overwrites | `on_visit` per node kind | `QueryPlan` |
| `QueryCompiler` (`query_compiler/query_compiler.*`) | `m_plan` | `project`, `filter`, `execute` | `QueryPlan`, specified by `Query` |
| Execution context (`execution/execution_context.*`) | table, filter bitmap, chunk metadata | constructor (throws for some types) | `QueryPlan` (metadata is never read and left out) |
| Exceptions (`utils/exceptions.*`) | none | thrown out of `execute` | answers of `QueryPlan`, ends of the other models |
| `vendor/`, tests, benchmarks | | | not modelled: Taskflow is unused, the rest is test support |

Interactions are calls in one thread. `QueryCompiler::execute` runs the pass on
`m_plan`, then `ExecutePlanVisitor` on the plan the pass made; the visitor hands
an `ExecutionContext` from `project` to `generate_filter_bitmap` to
`materialize_filter`; `generate_filter_bitmap` runs `FilterExprExecutor`, which
for each comparison compiles a kernel (in which `IrEmitVisitor` emits the
comparison), calls it for every chunk and destroys it. Shared state: plan nodes
(between queries, between the user's plan and the pass), expressions (between
expressions), the bitmap bytes on a chunk border (between the calls for two
chunks), the result field of a visitor (between its nested visits), and the
process-wide JIT.

Hard behaviours, each listed with its line in `PROJECT.json`:

* one byte of the bitmap belongs to two chunks, and three separate computations
  decide which call writes it; the kernel for shared bytes works in place;
* lengths, offsets and loop counters are `uint8_t`, signed `i8` and `size_t` and
  wrap, or look negative, for some layouts and calls;
* a literal is cut or rounded to the type of the column, and three places decide
  whether a type is signed;
* results of visits pass through one field, some visits leave it alone, and AND
  and OR overwrite the bitmap of their left operand;
* kernels are found by field name in a JIT that may know the name already;
* three positions advance together while old and new chunks end in different
  places, and columns of one table are cut differently;
* the pass overwrites shared-pointer nodes and drops nodes it has emitted;
* a context loses its bitmap on every operation but the one that applies it;
* exceptions leave in the middle of a query.

Nothing here runs concurrently today (`execution.cpp:61` is a TODO), nothing is
persisted and nothing is sent: there are no crash or message behaviours to model.

What makes each part correct: the bitmap is the comparison row by row, and the
machine code has exactly this effect; a literal the column can hold is compared
as the number it is; an expression is evaluated to the rows it is true of; a
kernel runs its own code and goes with its module; a copied column is the
selection, in order, with the rows of all columns together; a rewritten plan is
the same query; queries do not change one another; every operation finds the
context it needs; each call ends.

## 2. Modules

**`RowFilter`** is the promise of one comparison: all rows start out selected,
rows that fail are struck out in any order and grouping, and the result is handed
over when exactly the matching rows are left.

**`FilterBitmap`** is `FilterExprExecutor::visit(const CompareExpr &)`. `Execute`
is an iteration of the first loop, `ExecuteHead` and `ExecuteTail` the two halves
of an iteration of the second, `EndMainPass` and `Finish` the loop exits.
`ExecuteCall` and `RemainingCall` compute what the kernels are told (first row of
the chunk, number of rows, first bit), with the casts and the wrap of the code;
`Apply` is what the generated loops do to the bitmap. `W` is the width of a byte
and `U8`, `SizeT` the moduli of the integer types. A call whose rows are not in
the chunk, or whose bits are not in the bitmap or, for a remaining call, not in
its byte, has no defined effect and ends the run in `"fault"`.

**`KernelLoops`** is the code `gen_filter_func` and `gen_filter_remaining_func`
generate, an action per basic block. A byte is a set of bit positions, `i` and
`j` are the counters with the width and sign their IR gives them (`i8`, compared
signed; the outer counter `i64`), and shifting by the width of a byte or more is
poison, so any byte. `CallApplied` instantiates `FilterBitmap` on the memory of
the call and says that a finished call has left `Apply` behind: the one step a
call takes in `FilterBitmap` is justified by it, for every call that satisfies
`CallFits` there.

**`LiteralCompare`** is the path of a literal: `from_arrow` picks the type,
`const_from_variant` makes a constant of it, `CreateCmp` compares row after row.
Integers are their bits, so cutting is a remainder and signed types read the
upper half as negative. Floating numbers are multiples of a grid with rounding
to the nearest, ties to even, infinities and NaN. In a real type the grid gets
coarser with the exponent; here it is one per type.

**`FilterExpr`** is expressions and their two visitors. An action is a visit or
the return from one; `stack` holds the active calls of
`visit(const PredicateExpr &)`, `values` the bitmaps (of the executor) or LLVM values (of the emitter), and
`m_result` stands for `m_buffer` and `m_result`. The visitors differ where the
code does: the executor overwrites the bitmap of the left operand, the emitter
makes a new value; the executor crashes on a missing column and throws on a type
without LLVM type, the emitter asserts on another column than its own, or goes on
without a result in a build without assertions. Both throw
`std::bad_variant_access` for a literal of a kind the column's type does not
take. `denotes` is not in the code: for each expression the rows it is true of,
computed when it is built.

**`JitKernels`** is `FilterKernel` and `JIT` for any number of kernels: `Compile`
with `AddModule` and `FindSymbol`, `Execute`, `ExecuteRemaining`, `Destroy`.
Function pointers are the keys of the modules they lead into. The JIT looks for a
name and finds some module that has it. `client` says who uses the kernels: the
executor, one at a time, compiled once; or anyone, in every way the interface
allows.

**`Materialize`** is `materialize_filter` with `materialize_column`, an action
per step of the loops: `CopyRow` is one iteration of the innermost loop,
`EnterChunk` and `LeaveChunk` the way in and out of it, `PushChunk` the end of
the `do` body. A value is represented by the number of its row, so copied columns
can be compared with the selection and with one another.

**`Query`** is the promise of `QueryCompiler`: queries are sequences of
operations, building one leaves the others alone, and executing one gives the
table its operations give one after the other.

**`QueryPlan`** is `QueryCompiler`, the plan, the pass and the visitor. `nodes`
is the heap; `BuildProject`, `BuildFilter` and `Execute` are the public calls.
`todo` is the stack of active calls of `PlanVisitor::visit`, which `VisitInput`
deepens while the innermost node has an input (`down`) and every `on_visit` pops;
`Pass*` are the `on_visit` functions of `JoinFilterPass` and its base, a step
each, including the write to an existing node; `RunProjection`, `RunFilter`,
`RunMaterialize` are those of `ExecutePlanVisitor` with the operator they call.
Exceptions are answers; following a null pointer is `"crash"`. The nodes the
pass made disappear when `execute` is left, as nothing points at them any more.
`user` counts the nodes that stay. A filter here is a comparison or a constant
(`Consts`), with a literal of the right kind or not (`Mismatched`); compound
expressions are `FilterExpr`'s. `Error` says what evaluating an expression ends
in, `ErrorAt` what it ends in as one of several joined by AND, which are evaluated
from left to right; `OnlyConstant` is the filter whose result is null, so that no
bitmap is left. `RunFilter` and `RunMaterialize` take from
the other modules what those show: the bitmap is the set of rows the expression
is true of (`FilterExpr` for the tree, `FilterBitmap` for its leaves), and the
new table has these rows and a chunk in every column (`Materialize`). For the
layouts and literals that break the first of these, see section 5.

How the modules fit together:

    Query          <- QueryPlan         refinement, checked and proved
      QueryPlan    uses the results of  FilterExpr, Materialize
      FilterExpr   uses the results of  FilterBitmap, JitKernels
    RowFilter      <- FilterBitmap      refinement, checked and proved
      FilterBitmap <- KernelLoops       effect of a call, checked and proved
      KernelLoops  uses the results of  LiteralCompare

`MC*` modules hold the instances, `*Proofs` modules the theorems. Definitions
with an underscore and a comment starting with "Mutant" are wrong variants of the
definition after them, listed in `PROJECT.json` with the property each violates;
no specification uses them.

## 3. What the runs show

| Run | Question | States |
|---|---|---|
| `filter_bitmap_small` | Do the two passes compute the comparison, touch only their own bits, fault exactly on short chunks, and implement `RowFilter`? | 157 736 |
| `filter_bitmap_real` | Is the bitmap right with 8-bit bytes on chosen layouts? | 1 839 |
| `filter_bitmap_truncated` | violation: a row left unevaluated | |
| `filter_bitmap_short` | violation: a wrapped length | |
| `kernel_loops_small` | Do the generated loops do to the bitmap what `FilterBitmap` says, never disturb another row, and return? | 230 144 |
| `literal_compare_all` | Is a literal compared as itself, do the operators agree, does rounding keep the order? | 17 694 |
| `filter_expr` | Do both visitors give an expression its meaning and keep what they hold? What do constants do? | 332 114 |
| `jit_kernels` | Does a kernel own its module and run its code? What is left behind? | 617 432 |
| `materialize_small` | Are copied columns the selection, in order and in step, fit for the next filter? Does it end? | 48 719 |
| `query_plan_mixed` | Does the pass keep the query and the user's nodes? Is every bitmap applied? Which queries reach the unreachable branch, which a null pointer? Does `execute` end? | 519 925 |
| `query_plan_refines` | Do plan, pass and visitor answer what comparisons and projections mean? | 1 730 159 |
| `query_plan_empty` | violation: the unreachable branch | |

The runs of a module with proofs also check `IInv`, the inductive invariant
of the proofs; `TypeOK` is its first conjunct. `query_plan_mixed` checks `MInv`,
which is `IInv` and what plans, pass and context mean.

Bounds, and why they are enough:

* `FilterBitmap`, small: `W = 2`, `U8 = 4`, `SizeT = 64`; at most three chunks of
  at most five rows, eight rows in all; every set of matching rows. A chunk can
  start on either bit, be empty, lie inside a byte, cover several bytes, and have
  a length whose low bits are zero (4 rows, the cast gives 0). Three chunks are
  what a byte shared by two, one of them sharing its other byte too, needs.
  `SizeT` is only ever compared with wrapped negative numbers.
* `FilterBitmap`, real: `W = 8`, `U8 = 256`; the layouts of
  `tests/execution_tests/test_filter.cpp` and chunks of 0, 1, 2, 256 and 263 rows
  next to a byte border. `SizeT` is 2^30 as TLC's integers have 32 bits.
* `KernelLoops`: `W = 3`, `I8 = 16`; up to six rows of `filter`, that is none to
  two bytes with and without rows left over, and every `i8` count of
  `filter_remaining`, from every bit; every source and every content of the bytes.
  Counts of 8 and more are negative as signed four-bit numbers, counts from 4 to 7
  go past the byte.
* `LiteralCompare`: integral types of two to five bits, signed and unsigned,
  literals of four, so that the column is narrower than, as wide as and wider than
  `int`; grids of 4, 2 and 1 units for half, float and double, with literals
  between their numbers, half way, and beyond their limits. Every literal meets
  every value.
* `FilterExpr`: `MaxExprs = 4` expressions, which may share operands or have the
  same one twice, so trees of up to three levels; six comparisons: two proper
  ones, whose four rows cover all combinations, and one of each bad kind (column
  missing, type without LLVM type, literal of the wrong kind, column not the
  emitter's); both constants.
* `JitKernels`: `MaxKernels = 3`, `MaxModules = 3`, two names, two comparisons and a
  code that cannot be compiled: a name in the JIT twice, a module removed while
  another kernel's pointers lead into it, and a second compile all occur.
  Names, and the comparisons, are symmetric; no liveness is checked in this run.
* `Materialize`: new chunks of two rows stand for 16 384; up to five rows, so new
  chunks fill up in the middle of old ones, at their ends and several times.
* `QueryPlan`: `MaxQueries` bounds the calls of `project` and `filter`: three
  with four projections, five filters (one that no row satisfies, one on a string
  column, one with a literal of the wrong kind, one constant) and five tables of
  different kinds, four with two projections, three comparisons and three tables.
  Three filters in a row put a constant first, between and last. Four operations
  give two joined filters, a projection and a filter after it on plans that share
  any prefix. `execute` may be called any number of times.

Fairness: `KernelLoops` and `Materialize` are each one sequential call that takes
its next step until it returns, hence weak fairness of the whole next-state
relation. In `QueryPlan` it is required of the steps inside `execute` only
(`VisitInput`, `Optimize`, `Run`): nobody is obliged to build or execute anything.
The other modules state no fairness. The two passes of `FilterBitmap` are counted
loops and the visits of `FilterExpr` follow operands older than their parent, so
that these end is clear from their form and no run asks it; in `JitKernels` and
`LiteralCompare` nothing must happen. Deadlock checking is off because calls end,
a crash ends the program, and the bounds end the rest.

The layout condition of `BitmapCorrect` and of the refinement of `RowFilter`,
`LayoutCovers`, says that a chunk starting inside a byte reaches the end of that
byte, also after its length is cast to `uint8_t`. It is not vacuous: most small
layouts and all of the tests' layouts satisfy it; section 5 shows what happens
without it. `query_plan_refines` uses tables with at least one column and chunk,
no empty projections and no filters by constants; `query_plan_mixed` has them all,
and `UnreachableExactly` and `CrashesExactly` say, both ways, which queries throw
`UnreachableException` and which follow a null pointer because of them. In
`query_plan_refines` a crash is the answer that there is no table, so it is
`CrashesExactly` that tells a null pointer from an answer.

## 4. What is proved

TLAPS checks, for every value of the constants that satisfies the named
assumptions of the modules (TLC evaluates these on the instances):

| Module | Theorems | Assumptions |
|---|---|---|
| `FilterBitmapProofs` | `Invariance`, `TypeCorrect`, `NoMatchDropped`, `BitmapCorrectness`, `FaultExactlyOnShortChunk`, `MainPassIndependent`, `Refinement`, `EveryStepUsesUp` | `WidthAssumption`, `LayoutAssumption`, `MatchAssumption` |
| `KernelLoopsProofs` | `Invariance`, `TypeCorrect`, `CallEffect`, `OnlyOwnBits`, `WideCount`, `EveryStepUsesUp` | `WidthAssumption`, `CallAssumption` |
| `LiteralCompareProofs` | `Invariance`, `TypeCorrect`, `RepresentableExact`, `OperatorsConsistent`, `RoundingOrder` | `TypesAssumption`, `IntegralAssumption`, `FloatingAssumption`, `LiteralAssumption` |
| `FilterExprProofs` | `Invariance`, `TypeCorrect`, `EvaluationCorrect`, `RightConstantsSkipped`, `NullOrigin`, `HeldBitmapsKept`, `EveryStepUsesUp` | `ComparisonAssumption` |
| `JitKernelsProofs` | `Invariance`, `ModulesAlwaysOwned`, `NoOtherModules`, `OwnCode`, `ExecutorRunsOwnCode`, `ExecutorReleasesModules` | `CodesAssumption` |
| `MaterializeProofs` | `Invariance`, `TypeCorrect`, `SelectionCorrect`, `AlwaysReadyForNextFilter`, `PositionsInStep`, `EveryStepUsesUp` | `ChunkAssumption`, `TableAssumption` |
| `QueryPlanProofs` | `Invariance`, `TypeCorrect`, `JoinedFilters`, `NoBitmapLost`, `PlansUnchanged`, `EveryStepUsesUp` | `TablesAssumption` |
| `QueryMeaningProofs` | `PassIsFaithful`, `MeaningInvariance`, `ThrowsUnreachable`, `QueryImplemented` | `TablesAssumption`, `ProjectionsAssumption`, `UnsupportedAssumption` |

`Invariance` is `Spec => []IInv` everywhere, the other theorems follow from it.
In `QueryMeaningProofs` the same part is played by `MeaningInvariance`,
`Spec => []MInv`.

`FilterBitmap`. None of the properties is inductive: the last call finishes the
bitmap only because of what the others did. `IInv` records that the running
offset is the start of the chunk (`OffsetTracks`), that the main pass has
evaluated the rows of the whole bytes inside every chunk it has passed
(`BytesEvaluated`), that the remaining pass has evaluated everything before the
offset, between its two halves everything before the byte the offset is in
(`Frontier`), and that no chunk passed was short. The arithmetic lemmas reduce
`/ 8` and `% 8` to linear facts; `ExecuteCallFacts`, `HeadCallFacts` and
`TailCallFacts` say which rows each call evaluates; `CallAligned` that bit and row
agree; `KernelEffect` what a call does to the bitmap. The head of a chunk joins
the frontier to the whole bytes, the tail is evaluated by its first bits next.

`KernelLoops`. `InFilter` says the bytes before `i` are evaluated, the others
untouched, and `tmp_bitmap` holds the rows of byte `i` before `j`; `InRemaining`
says the same of the rows before `i` of the one byte. `2 * W < I8` keeps `j` from
looking negative, and a call that fits keeps the shifts within the byte.
`BitPlace` and `BitValue` carry bit positions over to the row order of
`FilterBitmap`, `EvaluatedUpTo` says which bits the loops have reached.

`LiteralCompare`. The constant is a function of literal and type, so the
invariant says which; the work is in the arithmetic: the value below a modulus
and the literal it is congruent to are equal when both are in range, signed or
not (`ConstExact`), and rounding moves a number to a neighbour on the grid
(`FloatConstNumber`), so a number of the grid stays on its side of the literal.

`FilterExpr`. The result of an evaluation is right only if every result still
held is. Bitmaps are made in order, so `HeldInOrder` can say that each held
result is older than the ones held further in: no two are the same, and the
in-place operations inside a right operand reach only newer ones. A silent right
operand returns with the field still holding the left operand's result
(`ResultReturned`), which is why it is left out. `DenotationsAgree` supplies the
meaning of operands, `FramesArePath` the place in the expression.

`JitKernels`. Keys are never given twice, so a compiled kernel's module is its
own until its destructor. Pointers of kernels with a name never doubled are the
key of their own module. The executor adds that at most one kernel is alive, so
no name is ever doubled and nothing is abandoned (`OneAtATime`).

`Materialize`. The place a row gets is its rank, the number of selected rows
before it. `SelectionSoFar` says the full new chunks and the filled part of the
buffer hold the selected rows of rank 0, 1, 2, ... and that the number written
is the rank of the current row; `PositionInColumn` that the three positions
agree. `CopyRow` raises the rank exactly if it keeps the row.

`QueryPlan`. What `QueryPlanProofs` shows is said of neighbours in a plan, so no
induction along it is needed. In the user's plans a materialization, and nothing
else, has a filter as its input (`UserPlans`); the active calls are a path in the
plan visited (`CallsArePath`), so the next `on_visit` is for a node whose input
has just been visited; and what the pass has made obeys the same rule, with no
filter after a materialization, while a filter at its end waits for one
(`MadeJoined`, `Optimizing`). `PassStep` and `RunStep` take a node off the path:
the kind of the last node decides what may come next, which is why a bitmap
always meets its materialization (`Executing`). `MadeApart` keeps the pass to its
own nodes.

What a plan means is in `QueryMeaningProofs`. `OpsIn` and `Query`'s `After` are
recursive functions, over the nodes of a plan and over the operations of a query.
That they exist, and what they are on a longer plan or query, is shown by
induction over sets of numbers (`Induction`), which follows from the library's
`WFMin`. A plan means the same in every heap that agrees on its nodes, so new
nodes change no plan, and joining two filters in place gives the plan with the
second one appended. The invariant is then that the plan the pass has made so far
means the operations of the nodes it has returned from (`PassMeans`,
`OpsDone`). It looks weak but suffices: at the end these are all of them
(`PassIsFaithful`).

`BitmapMeans` is about the bitmap that is missing. It says when the context is an
empty input, in terms of the request and the projections done, and that an
operation done has left no bitmap (`Unfiltered`) exactly when the visitor is at a
materialization without one. The step over a filter needs to know which constants
stand by themselves: in the optimized plan filters are apart (`FiltersJoined`), so
the neighbours of an operation in the query are filters exactly if they are in
the same node (`Neighbours`). `ThrowsUnreachable` follows, for all plans,
projections, tables and filters: a call of `execute` that ends with a table or in
`UnreachableException` ends in the exception exactly if one of its operations is a
filter on an empty input or a constant with no filter next to it.

`ContextMeans` is for queries without these: the context holds what `After` gives
for the operations done, a pending bitmap being part of it, so that the step that
throws and the step that returns are each an answer of `Evaluate`. `QueriesBuilt`
says the users' plans are the abstract queries. `QueryImplemented` maps every
step: building is building, `Return`, an exception and a crash are the answer of
the abstract `Reply`, everything else stutters. Its hypotheses are that tables
have columns and chunks, projections have columns, and no filter is a constant.
Literals of the wrong kind are included. `UnsupportedAssumption` says that an
`ExecutionContext` refuses no type filters and materialization are implemented
for: the cases of `create_empty_chunk_metadata` include those of
`materialize_filter`.

Termination. `EveryStepUsesUp` in five of the modules proves that what is left to
do, measured by natural numbers in lexicographic order, gets smaller with every
step (in `FilterExpr` and `QueryPlan`: every step within an evaluation or an
`execute`). It is the part of `Terminates` (in `Materialize`), `Returns` and
`Answered` that is about data; in `FilterBitmap` and `FilterExpr`, where no
liveness property is checked, it stands by itself. The measure says why the loops
end: a new chunk that fills up in the middle of an old one returns to the outer
loop with more room (`TurnsLeft`), no `i8` counter goes around, the active calls
of the visitors are of older and older expressions (`Descending`), and the pass
visits a filter again only after it has dropped a materialization (`DropsLeft`).

Left to model checking: `CrashesExactly`, the runs' counterexamples, and the
other half of the liveness properties, that a call takes its next step at all.
This is what weak fairness says, and rests on `ENABLED`, which the prover does
not handle.

## 5. Findings

1. `kernels/filter.cpp:123`: for a chunk of 256 rows that starts inside a byte the
   number of rows of its head becomes `min(7, (uint8_t) 256) = 0`, and these rows
   are selected whatever they hold (`filter_bitmap_truncated`).
2. `kernels/filter.cpp:107`: for a chunk that starts and ends inside one byte
   `length - offset` wraps (`filter_bitmap_short`). `FaultOnlyOnShortChunk` shows
   that this happens for no other layout.
3. `execution/execution.cpp:158`: a filter on an empty input throws
   `UnreachableException` (`query_plan_empty`). `UnreachableExactly` names the other
   way there, a filter that is nothing but a `BooleanConst`.

Behaviours a user may not expect, but that no document of the repository speaks
about. They are part of the models, and passing properties say exactly how far
they go:

* A `BooleanConst` is never evaluated. As a right operand it is left out
  (`a AND false` is `a`), as a left operand it leads to a null pointer
  (`ConstantsSkipped`, `NullOnlyFromLeaves`). As a filter of its own it leaves no
  bitmap and `execute` throws `UnreachableException`; before another filter, with
  which it is joined, it is a null pointer; after one it is left out
  (`UnreachableExactly`, `CrashesExactly`).
* A literal of a kind the type of its column does not take, a double for an integral
  column say, makes `std::get` throw `std::bad_variant_access` out of `execute`
  (`ImplementsQuery`).
* A second kernel for a field name while the first is alive may run the first
  one's code, or none once that is destroyed; compiling a kernel twice leaves its
  first module in the JIT. The executor does neither (`OwnCodeUnlessCollision`,
  `ModulesAccounted`, `RunsOwnCode`). `m_resolvers` keeps an entry for every module
  ever added.
* An int literal outside the range of its column is cut to its width and another
  number is compared (`RepresentableCompared`, `OperatorsAgree`).
* `NEQ` is false for NaN, as all comparisons are (`OperatorsAgree`).
* `execute_remaining` with an `array_offset` may be asked for more rows than its
  loop's `i8` counter can tell from a negative number; it then does nothing
  (`WideCountIgnored`). The executor never asks.

## 6. Not modelled

* Slices of arrays and null bitmaps: the code reads values from the start of the
  buffer and never a validity bit, so on such arrays it computes something else,
  and no document says whether they are supported.
* Overflow of the `int` positions of `materialize_column` (more than 2^31 rows):
  out of reach of an instance; the proofs are about unbounded integers.
* Half floats, which have a kernel but no materialization, and tables in which
  only some columns have chunks.
* Floating types with exponents: see `LiteralCompare` in section 2.
* Allocation failures and the strings of names, messages and IR.
* LLVM's optimizer and linker, taken to keep what a module computes; Arrow beyond
  the lengths, chunks and buffers its users see; `vendor/`, tests and benchmarks.
