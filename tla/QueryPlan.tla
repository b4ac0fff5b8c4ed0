----------------------------- MODULE QueryPlan -----------------------------
(***************************************************************************)
(* QueryCompiler: plans, the pass that rewrites them and the visitor that  *)
(* runs them.                                                              *)
(*                                                                         *)
(* A plan is a chain of nodes on the heap, each pointing at its input.     *)
(* Queries built from one another share nodes.  execute runs               *)
(* JoinFilterPass over the plan, which makes new nodes, joins a filter     *)
(* into the one before it by writing to that node, and drops the           *)
(* materialization between the two; then ExecutePlanVisitor goes through   *)
(* the plan it made, passing an ExecutionContext (a table and perhaps a    *)
(* filter bitmap for it) from node to node.                                *)
(*                                                                         *)
(* A bitmap is the set of rows it selects, a row keeps its number when     *)
(* others are filtered out: FilterBitmap and Materialize model how the     *)
(* two are computed.  Using a column that is not there follows a null      *)
(* pointer and ends the program ("crash").                                 *)
(*                                                                         *)
(* A filter is a comparison or a constant, each standing for itself        *)
(* (FilterExpr models compound ones); half floats, which have a kernel but *)
(* no materialization, are left out, and the columns of a table either all *)
(* have chunks or all have none.                                           *)
(***************************************************************************)
EXTENDS Integers, Sequences, FiniteSets

CONSTANTS
  Tables,        \* the tables queries are run on
  Projections,   \* the lists of column names projected on
  Exprs,         \* the expressions filtered by: comparisons and
  Consts,        \* ... those that are BooleanConsts
  Mismatched,    \* the comparisons whose literal is of no kind their column has
  ColumnOf,      \* the column an expression refers to
  Satisfying,    \* the rows an expression is true of
  Numeric,       \* the columns filters and materialization are implemented for
  Unsupported,   \* the columns an ExecutionContext refuses
  MaxQueries     \* bound of the model: how often project and filter are called

IsTable(t) == t = [columns |-> t.columns, rows |-> t.rows, chunked |-> t.chunked]

ASSUME TablesAssumption == \A t \in Tables : IsTable(t)

\* A projection is on a std::vector of names.
ASSUME ProjectionsAssumption == \A p \in Projections : p \in Seq({p[i] : i \in DOMAIN p})

\* Every type with a kernel and a materialization has chunk metadata.
ASSUME UnsupportedAssumption == Unsupported \cap Numeric = {}

VARIABLES
  nodes,      \* the heap: node n is nodes[n], and 0 is the null pointer
  user,       \* nodes 1 .. user are the ones project and filter made
  plans,      \* the m_plan of every QueryCompiler
  pc,         \* "idle", "optimize", "execute" or "crash"
  request,    \* the plan and the table execute was called with last
  todo,       \* the active calls of PlanVisitor::visit, the innermost first: the
              \* nodes on_visit has still to be called for
  down,       \* the innermost call has still to visit the input of its node
  m_result,   \* of the pass: the plan made so far
  ctx,        \* the context of ExecutePlanVisitor
  answer      \* what the last call to execute returned or threw

calls == <<todo, down>>
vars == <<nodes, user, plans, pc, request, calls, m_result, ctx, answer>>
heap == <<nodes, user, plans>>

-----------------------------------------------------------------------------
ProjectionNode(input, fields) == [kind |-> "projection", input |-> input, fields |-> fields]
FilterNode(input, exprs) == [kind |-> "filter", input |-> input, exprs |-> exprs]
MaterializeFilterNode(input) == [kind |-> "materialize", input |-> input]

Returned(table) == [result |-> "table", columns |-> table.columns, rows |-> table.rows]
Failed(why) == [result |-> why, columns |-> <<>>, rows |-> {}]

\* ExecutionContext's constructor: a table without a filter bitmap.
Context(table) == [table |-> table, has_bitmap |-> FALSE, bitmap |-> {}]

\* Table::GetColumnByName finds a column only if exactly one has the name.
GetColumnByName(table, name) ==
  Cardinality({i \in DOMAIN table.columns : table.columns[i] = name}) = 1

\* "empty input" of generate_filter_bitmap: no columns, or none with a chunk.
EmptyInput(table) == table.columns = <<>> \/ ~table.chunked

\* Between calls of execute.
NoTable == [columns |-> <<>>, rows |-> {}, chunked |-> FALSE]
NoRequest == [plan |-> 0, table |-> NoTable]

Init ==
  /\ nodes = <<>> /\ user = 0 /\ plans = {0}
  /\ pc = "idle"
  /\ request = NoRequest
  /\ todo = <<>> /\ down = FALSE
  /\ m_result = 0
  /\ ctx = Context(NoTable)
  /\ answer = Failed("none")

-----------------------------------------------------------------------------
\* QueryCompiler::project and ::filter: a new query on top of an old plan.
BuildProject ==
  /\ pc = "idle"
  /\ Cardinality(plans) <= MaxQueries
  /\ \E input \in plans, fields \in Projections :
       nodes' = Append(nodes, ProjectionNode(input, fields))
  /\ user' = user + 1
  /\ plans' = plans \cup {user'}
  /\ answer' = Failed("none")
  /\ UNCHANGED <<pc, request, calls, m_result, ctx>>

\* Mutant: the filter is not followed by a materialization.
BuildFilter_NoMaterialize ==
  /\ pc = "idle"
  /\ Cardinality(plans) <= MaxQueries
  /\ \E input \in plans, expr \in Exprs : nodes' = Append(nodes, FilterNode(input, <<expr>>))
  /\ user' = user + 1
  /\ plans' = plans \cup {user'}
  /\ answer' = Failed("none")
  /\ UNCHANGED <<pc, request, calls, m_result, ctx>>

BuildFilter ==
  /\ pc = "idle"
  /\ Cardinality(plans) <= MaxQueries
  /\ \E input \in plans, expr \in Exprs :
       nodes' = nodes \o <<FilterNode(input, <<expr>>), MaterializeFilterNode(user + 1)>>
  /\ user' = user + 2
  /\ plans' = plans \cup {user'}
  /\ answer' = Failed("none")
  /\ UNCHANGED <<pc, request, calls, m_result, ctx>>

\* PlanVisitor::visit: a node with an input is visited after it.
HasInput(n) == nodes[n].input # 0

Visit(plan) == todo' = <<plan>> /\ down' = HasInput(plan)

VisitInput ==
  /\ pc \in {"optimize", "execute"}
  /\ down
  /\ LET input == nodes[Head(todo)].input
     IN  todo' = <<input>> \o todo /\ down' = HasInput(input)
  /\ UNCHANGED <<heap, pc, request, m_result, ctx, answer>>

\* execute on an empty query visits through the null m_plan.
Execute ==
  /\ pc = "idle"
  /\ \E plan \in plans, table \in Tables :
       /\ request' = [plan |-> plan, table |-> table]
       /\ IF plan = 0 THEN pc' = "crash" /\ UNCHANGED calls
          ELSE pc' = "optimize" /\ Visit(plan)
  /\ answer' = Failed("none")
  /\ UNCHANGED <<heap, m_result, ctx>>

-----------------------------------------------------------------------------
Node == nodes[Head(todo)]
Visiting(phase, kind) == pc = phase /\ ~down /\ todo # <<>> /\ Node.kind = kind
Prev == IF m_result = 0 THEN "none" ELSE nodes[m_result].kind

\* m_result = std::make_shared<...>
NewResult(node) ==
  /\ nodes' = Append(nodes, node)
  /\ m_result' = Len(nodes')

PassProjection ==
  /\ Visiting("optimize", "projection")
  /\ NewResult(ProjectionNode(m_result, Node.fields))
  /\ todo' = Tail(todo)
  /\ UNCHANGED <<user, plans, pc, request, down, ctx, answer>>

PassMaterialize ==
  /\ Visiting("optimize", "materialize")
  /\ NewResult(MaterializeFilterNode(m_result))
  /\ todo' = Tail(todo)
  /\ UNCHANGED <<user, plans, pc, request, down, ctx, answer>>

\* Mutant: the second filter comes before the first.
PassJoinFilter_Swapped ==
  /\ Visiting("optimize", "filter")
  /\ Prev = "filter"
  /\ nodes' = [nodes EXCEPT ![m_result].exprs = Node.exprs \o @]
  /\ todo' = Tail(todo)
  /\ UNCHANGED <<user, plans, pc, request, down, m_result, ctx, answer>>

\* Mutant: the second filter takes the place of the first.
PassJoinFilter_Replaces ==
  /\ Visiting("optimize", "filter")
  /\ Prev = "filter"
  /\ nodes' = [nodes EXCEPT ![m_result].exprs = Node.exprs]
  /\ todo' = Tail(todo)
  /\ UNCHANGED <<user, plans, pc, request, down, m_result, ctx, answer>>

\* JoinFilterPass::on_visit: the filter before it, in place, gets both ...
PassJoinFilter ==
  /\ Visiting("optimize", "filter")
  /\ Prev = "filter"
  /\ nodes' = [nodes EXCEPT ![m_result].exprs = @ \o Node.exprs]
  /\ todo' = Tail(todo)
  /\ UNCHANGED <<user, plans, pc, request, down, m_result, ctx, answer>>

\* Mutant: the node is visited again with m_result as it was.
PassDropMaterialize_Loops ==
  /\ Visiting("optimize", "filter")
  /\ Prev = "materialize"
  /\ UNCHANGED vars

\* ... a materialization before it is dropped and the node visited again ...
PassDropMaterialize ==
  /\ Visiting("optimize", "filter")
  /\ Prev = "materialize"
  /\ m_result' = nodes[m_result].input
  /\ UNCHANGED <<heap, pc, request, calls, ctx, answer>>

\* Mutant: a filter after a materialization may be copied like any other.
PassCopyFilter_AfterMaterialize ==
  /\ Visiting("optimize", "filter")
  /\ Prev # "filter"
  /\ NewResult(FilterNode(m_result, Node.exprs))
  /\ todo' = Tail(todo)
  /\ UNCHANGED <<user, plans, pc, request, down, ctx, answer>>

\* Mutant: the user's node becomes part of the result, without a copy.
PassCopyFilter_Shares ==
  /\ Visiting("optimize", "filter")
  /\ Prev \notin {"filter", "materialize"}
  /\ m_result' = Head(todo)
  /\ todo' = Tail(todo)
  /\ UNCHANGED <<heap, pc, request, down, ctx, answer>>

\* ... and after anything else the filter is copied.
PassCopyFilter ==
  /\ Visiting("optimize", "filter")
  /\ Prev \notin {"filter", "materialize"}
  /\ NewResult(FilterNode(m_result, Node.exprs))
  /\ todo' = Tail(todo)
  /\ UNCHANGED <<user, plans, pc, request, down, ctx, answer>>

-----------------------------------------------------------------------------
\* execute returns or throws: the plan the pass made goes with it.
Leave(what) ==
  /\ answer' = what
  /\ pc' = "idle"
  /\ nodes' = SubSeq(nodes, 1, user)
  /\ m_result' = 0
  /\ todo' = <<>>
  /\ request' = NoRequest
  /\ ctx' = Context(NoTable)
  /\ UNCHANGED <<user, plans, down>>

\* create_empty_chunk_metadata throws for a chunk of a type without metadata.
Refused(table) ==
  table.chunked /\ \E i \in DOMAIN table.columns : table.columns[i] \in Unsupported

\* The optimized plan is executed from a fresh context of the table.
StartExecution ==
  /\ pc = "optimize"
  /\ todo = <<>>
  /\ IF Refused(request.table)
     THEN Leave(Failed("not_implemented"))
     ELSE /\ ctx' = Context(request.table)
          /\ Visit(m_result)
          /\ pc' = "execute"
          /\ UNCHANGED <<heap, request, m_result, answer>>

\* The visitor goes on to the next node with the context `next'.
Continue(next) ==
  /\ ctx' = next
  /\ todo' = Tail(todo)
  /\ UNCHANGED <<heap, pc, request, down, m_result, answer>>

Crash ==
  /\ pc' = "crash"
  /\ UNCHANGED <<heap, request, calls, m_result, ctx, answer>>

RunProjection ==
  /\ Visiting("execute", "projection")
  /\ IF \A i \in DOMAIN Node.fields : GetColumnByName(ctx.table, Node.fields[i])
     THEN Continue(Context([ctx.table EXCEPT
                              !.columns = Node.fields,
                              !.rows = IF Node.fields = <<>> THEN {} ELSE @]))
     ELSE Crash

\* Mutant: the expressions are joined by OR.
SelectedBy_Or(table, exprs) ==
  {r \in table.rows : \E i \in DOMAIN exprs : exprs[i] \in Consts \/ r \in Satisfying[exprs[i]]}

\* Mutant: the bitmap covers rows that are no longer in the table.
SelectedBy_AllRows(table, exprs) ==
  {r \in UNION {Satisfying[e] : e \in Exprs \ Consts} :
     \A i \in DOMAIN exprs : exprs[i] \in Consts \/ r \in Satisfying[exprs[i]]}

\* FilterExprExecutor on expressions joined by AND: the rows all are true of.  A
\* constant after another expression joins that one's bitmap with itself.
SelectedBy(table, exprs) ==
  {r \in table.rows : \A i \in DOMAIN exprs : exprs[i] \in Consts \/ r \in Satisfying[exprs[i]]}

\* The field and the column of a comparison are null.
Missing(expr) == ~GetColumnByName(ctx.table, ColumnOf[expr])

\* What evaluating an expression ends in: no type of LLVM's for the column's, or
\* const_from_variant's std::get.  A constant leaves m_buffer alone.
Error(expr) ==
  IF expr \in Consts THEN "none"
  ELSE IF Missing(expr) THEN "crash"
  ELSE IF ColumnOf[expr] \notin Numeric THEN "not_implemented"
  ELSE IF expr \in Mismatched THEN "bad_variant_access" ELSE "none"

\* The same of the i-th of some joined by AND: the second is evaluated, and then
\* the bitmap a constant first did not leave is followed.
ErrorAt(exprs, i) ==
  IF i = 2 /\ exprs[1] \in Consts /\ Error(exprs[2]) = "none" THEN "crash" ELSE Error(exprs[i])

\* A filter that is nothing but a constant: result() is null.
OnlyConstant(exprs) == Len(exprs) = 1 /\ exprs[1] \in Consts

\* generate_filter_bitmap: the new bitmap takes the place of any other.  The
\* expressions are evaluated from left to right.
RunFilter ==
  /\ Visiting("execute", "filter")
  /\ LET Bad == {i \in DOMAIN Node.exprs : ErrorAt(Node.exprs, i) # "none"}
     IN  IF EmptyInput(ctx.table) \/ OnlyConstant(Node.exprs) THEN Continue(Context(ctx.table))
         ELSE IF Bad = {}
         THEN Continue([Context(ctx.table) EXCEPT
                          !.has_bitmap = TRUE,
                          !.bitmap = SelectedBy(ctx.table, Node.exprs)])
         ELSE LET error == ErrorAt(Node.exprs, CHOOSE i \in Bad : \A j \in Bad : i <= j)
              IN  IF error = "crash" THEN Crash ELSE Leave(Failed(error))

\* Mutant: a table without selected rows gets no chunk.
RunMaterialize_NoEmptyChunk ==
  /\ Visiting("execute", "materialize")
  /\ IF ~ctx.has_bitmap THEN Leave(Failed("unreachable"))
     ELSE IF \E i \in DOMAIN ctx.table.columns : ctx.table.columns[i] \notin Numeric
     THEN Leave(Failed("not_implemented"))
     ELSE Continue(Context([ctx.table EXCEPT !.rows = ctx.bitmap, !.chunked = ctx.bitmap # {}]))

\* materialize_filter, which gives every column at least one chunk.
RunMaterialize ==
  /\ Visiting("execute", "materialize")
  /\ IF ~ctx.has_bitmap THEN Leave(Failed("unreachable"))
     ELSE IF \E i \in DOMAIN ctx.table.columns : ctx.table.columns[i] \notin Numeric
     THEN Leave(Failed("not_implemented"))
     ELSE Continue(Context([ctx.table EXCEPT !.rows = ctx.bitmap, !.chunked = TRUE]))

Return ==
  /\ pc = "execute"
  /\ todo = <<>>
  /\ Leave(Returned(ctx.table))

Optimize == PassProjection \/ PassMaterialize \/ PassJoinFilter \/ PassDropMaterialize
            \/ PassCopyFilter \/ StartExecution
Run == RunProjection \/ RunFilter \/ RunMaterialize \/ Return

Next == BuildProject \/ BuildFilter \/ Execute \/ VisitInput \/ Optimize \/ Run

\* execute is one call and goes on until it returns; nobody has to call it.
Spec == Init /\ [][Next]_vars /\ WF_vars(VisitInput \/ Optimize \/ Run)

-----------------------------------------------------------------------------
\* The operations the nodes from n back to the start of its plan stand for.
NodeOps(node) ==
  CASE node.kind = "projection"  -> <<[op |-> "project", fields |-> node.fields]>>
    [] node.kind = "filter"      -> [i \in DOMAIN node.exprs |->
                                       [op |-> "filter", expr |-> node.exprs[i]]]
    [] node.kind = "materialize" -> <<>>

OpsIn(h, plan) ==
  LET upTo[n \in 0 .. Len(h)] ==
        IF n = 0 THEN <<>> ELSE upTo[h[n].input] \o NodeOps(h[n])
  IN  upTo[plan]

OpsOf(plan) == OpsIn(nodes, plan)

\* The operations of the nodes the visitor has still to go through.
OpsToDo ==
  LET from[k \in 1 .. Len(todo) + 1] ==
        IF k > Len(todo) THEN <<>> ELSE NodeOps(nodes[todo[k]]) \o from[k + 1]
  IN  from[1]

Nodes ==
  [kind : {"projection"}, input : Nat, fields : Projections]
    \cup [kind : {"filter"}, input : Nat, exprs : Seq(Exprs) \ {<<>>}]
    \cup [kind : {"materialize"}, input : Nat]

TypeOK ==
  /\ nodes \in Seq(Nodes)
  /\ \A n \in DOMAIN nodes : nodes[n].input < n
  /\ user \in 0 .. Len(nodes)
  /\ plans \subseteq 0 .. user /\ 0 \in plans
  /\ pc \in {"idle", "optimize", "execute", "crash"}
  /\ request.plan \in plans
  /\ request.table \in Tables \cup {NoTable}
  /\ todo \in Seq(DOMAIN nodes)
  /\ down \in BOOLEAN
  /\ m_result \in 0 .. Len(nodes)
  /\ IsTable(ctx.table)
  /\ ctx = [table |-> ctx.table, has_bitmap |-> ctx.has_bitmap, bitmap |-> ctx.bitmap]
  /\ ctx.has_bitmap \in BOOLEAN
  /\ ctx.bitmap \subseteq ctx.table.rows
  /\ answer.result \in {"none", "table", "unreachable", "not_implemented", "bad_variant_access"}

(***************************************************************************)
(* The pass loses, repeats and reorders nothing: at every point of it the  *)
(* plan made so far and the nodes still to be visited are the query that   *)
(* was asked, although filters are joined by overwriting a node and the    *)
(* materializations between them are thrown away.                          *)
(***************************************************************************)
PassPreservesQuery ==
  /\ pc = "optimize" /\ ~down => OpsOf(m_result) \o OpsToDo = OpsOf(request.plan)
  /\ pc = "execute" => OpsOf(m_result) = OpsOf(request.plan)

\* A filter comes first or after a projection, a materialization after a filter,
\* and nothing else does.
InputKind(n) == IF HasInput(n) THEN nodes[nodes[n].input].kind ELSE "none"

Joined(n) ==
  /\ nodes[n].kind = "filter" => InputKind(n) \in {"none", "projection"}
  /\ nodes[n].kind = "materialize" <=> InputKind(n) = "filter"

(***************************************************************************)
(* What the pass is for: in the plan that is executed, the filters between *)
(* two projections are one filter, applied by one materialization.         *)
(***************************************************************************)
FiltersJoined ==
  pc = "execute" =>
    /\ \A n \in user + 1 .. Len(nodes) : Joined(n)
    /\ nodes[m_result].kind # "filter"

(***************************************************************************)
(* generate_filter_bitmap and project start from a fresh context and drop  *)
(* the bitmap of the one they are given (execution.cpp:107 leaves joining  *)
(* bitmaps to be done), and execute returns the table without looking for  *)
(* one.  No selection is lost that way: when they run, or execute returns, *)
(* the context has no bitmap.                                              *)
(***************************************************************************)
BitmapNeverLost ==
  pc = "execute" /\ (todo = <<>> \/ Node.kind # "materialize") => ~ctx.has_bitmap

(***************************************************************************)
(* Executing one query leaves all others what they were: the nodes project *)
(* and filter made are shared between queries and between runs, and        *)
(* JoinFilterPass writes to nodes, but only to ones it made itself.        *)
(***************************************************************************)
UserPlansNeverChange ==
  [][\A n \in 1 .. user : nodes'[n] = nodes[n]]_vars

EmptyProjection(o) == o.op = "project" /\ o.fields = <<>>
IsFilter(q, i) == i \in DOMAIN q /\ q[i].op = "filter"
ByConstant(q, i) == IsFilter(q, i) /\ q[i].expr \in Consts

\* Operation i of q is a filter that leaves no bitmap: it meets an empty input, a
\* table without chunks or one whose columns are all projected away, or it is a
\* constant with no filter beside it to be joined with.
Unfiltered(q, i) ==
  /\ IsFilter(q, i)
  /\ \/ EmptyInput(request.table)
     \/ \E j \in 1 .. i - 1 : EmptyProjection(q[j])
     \/ ByConstant(q, i) /\ ~IsFilter(q, i - 1) /\ ~IsFilter(q, i + 1)

Decided(result) == pc = "execute" /\ answer'.result = result

(***************************************************************************)
(* execute throws UnreachableException exactly for the queries with a      *)
(* filter that leaves no bitmap: on the empty inputs left to be done       *)
(* (execution.cpp:100), and for a constant by itself, whose result is a    *)
(* null pointer (execution.cpp:109).  Joining filters neither hides one    *)
(* nor makes another, and an empty selection never is one.                 *)
(***************************************************************************)
UnreachableExactly ==
  [][Decided("unreachable") \/ Decided("table") =>
       (Decided("unreachable") <=> \E i \in DOMAIN OpsOf(request.plan) :
                                     Unfiltered(OpsOf(request.plan), i))]_vars

\* The columns operation i of q is applied to: those last projected on.
ColumnsAt(q, i) ==
  LET projected == {j \in 1 .. i - 1 : q[j].op = "project"}
  IN  IF projected = {} THEN request.table.columns
      ELSE q[CHOOSE j \in projected : \A k \in projected : k <= j].fields

\* Operation i of q follows a null pointer: it is the first of some filters and
\* a constant, or it names a column that is not there.
NullAt(q, i) ==
  LET names == IF q[i].op = "project" THEN {q[i].fields[k] : k \in DOMAIN q[i].fields}
               ELSE IF q[i].expr \in Consts THEN {} ELSE {ColumnOf[q[i].expr]}
  IN  \/ ByConstant(q, i) /\ ~IsFilter(q, i - 1) /\ IsFilter(q, i + 1)
      \/ \E name \in names : ~GetColumnByName([columns |-> ColumnsAt(q, i)], name)

(***************************************************************************)
(* execute answers with a table only where its query follows no null       *)
(* pointer, and follows one only where the query says so: joining filters  *)
(* keeps the columns each is applied to and the one that comes first.      *)
(***************************************************************************)
CrashesExactly ==
  [][pc = "execute" /\ (pc' = "crash" \/ Decided("table")) =>
       (pc' = "crash" <=> \E i \in DOMAIN OpsOf(request.plan) :
                            NullAt(OpsOf(request.plan), i))]_vars

\* A call of execute ends: with a table, an exception or a null pointer.
Answered == pc = "optimize" ~> pc \in {"idle", "crash"}

(***************************************************************************)
(* What the exception's name and text, "Unreachable branch invoked"        *)
(* (exceptions.cpp:19), say of the place that throws it.                   *)
(***************************************************************************)
NeverUnreachable == answer.result # "unreachable"

-----------------------------------------------------------------------------
(***************************************************************************)
(* Plans, pass and visitor implement Query for filters that are            *)
(* comparisons and tables that are not empty inputs: a plan is the         *)
(* sequence of its operations and a crash is the answer that there is no   *)
(* table.                                                                  *)
(***************************************************************************)
Asked == IF pc \in {"optimize", "execute"} THEN <<OpsOf(request.plan), request.table>> ELSE <<>>
Answer == IF pc = "crash" /\ request.plan # 0 THEN Failed("no_table") ELSE answer

Abstract == INSTANCE Query WITH
              queries <- {OpsOf(p) : p \in plans}, asked <- Asked, answer <- Answer

ImplementsQuery == Abstract!Spec
-----------------------------------------------------------------------------
(***************************************************************************)
(* The inductive invariant.  In the user's plans a filter is followed by   *)
(* its materialization and by nothing else.  The active calls are a path   *)
(* in the plan visited.  What the pass makes is apart from the user's      *)
(* nodes, and joined but for a filter whose materialization is next.       *)
(***************************************************************************)
UserPlans ==
  /\ \A n \in 1 .. user : nodes[n].kind = "materialize" <=> InputKind(n) = "filter"
  /\ \A p \in plans \ {0} : nodes[p].kind # "filter"

MadeApart ==
  /\ \A n \in user + 1 .. Len(nodes) : ~HasInput(n) \/ nodes[n].input > user
  /\ m_result = 0 \/ m_result > user

MadeJoined == \A n \in user + 1 .. Len(nodes) : Joined(n)

CallsArePath(plan) ==
  /\ \A k \in 1 .. Len(todo) - 1 : nodes[todo[k + 1]].input = todo[k]
  /\ todo # <<>> => todo[Len(todo)] = plan
  /\ down => todo # <<>> /\ HasInput(Head(todo))

Optimizing ==
  /\ request.plan # 0
  /\ CallsArePath(request.plan)
  /\ \A k \in DOMAIN todo : todo[k] <= user
  /\ down => m_result = 0
  /\ IF todo = <<>> THEN Prev \notin {"none", "filter"}
     ELSE ~down => /\ Node.kind = "materialize" => Prev = "filter"
                   /\ Node.kind = "projection" => Prev # "filter"

Executing ==
  /\ m_result # 0 /\ Prev # "filter"
  /\ CallsArePath(m_result)
  /\ \A k \in DOMAIN todo : todo[k] > user
  /\ down => ~ctx.has_bitmap

IInv ==
  /\ TypeOK
  /\ pc = "idle" => Len(nodes) = user /\ todo = <<>> /\ ~down /\ m_result = 0
  /\ UserPlans
  /\ MadeApart
  /\ MadeJoined
  /\ pc = "optimize" => Optimizing
  /\ pc = "execute" => Executing
  /\ BitmapNeverLost
-----------------------------------------------------------------------------
(***************************************************************************)
(* The invariant about what plans mean.  The nodes the visitor is done     *)
(* with are those the innermost active call has as its input, and all when *)
(* no call is active.  The pass has translated them.  Of the operations    *)
(* they stand for, the one that leaves no bitmap is the filter whose       *)
(* materialization is next; and run on a table that no operation makes an  *)
(* empty input, comparisons only have given the context, where a bitmap    *)
(* stands for the rows it selects.                                         *)
(***************************************************************************)
OpsDone(plan) == IF todo = <<>> THEN OpsOf(plan) ELSE OpsOf(nodes[Head(todo)].input)

QueriesBuilt ==
  /\ \A p \in plans \ {0} :
       \E q \in plans, o \in Abstract!Operations : OpsOf(p) = Append(OpsOf(q), o)
  /\ plans = {0} => answer = Failed("none")
  /\ pc \in {"optimize", "execute"} =>
       request.plan # 0 /\ request.table \in Tables /\ answer = Failed("none")

PassMeans ==
  /\ pc = "optimize" /\ ~down => OpsOf(m_result) = OpsDone(request.plan)
  /\ pc = "execute" => OpsOf(m_result) = OpsOf(request.plan)

\* Whether a bitmap is missing: q is the query, d of its operations are done.
BitmapMeans(q, d) ==
  /\ EmptyInput(ctx.table) <=>
       EmptyInput(request.table) \/ \E j \in 1 .. d : EmptyProjection(q[j])
  /\ ctx.has_bitmap => ~EmptyInput(ctx.table)
  /\ (\E i \in 1 .. d : Unfiltered(q, i)) <=>
       todo # <<>> /\ Node.kind = "materialize" /\ ~ctx.has_bitmap

ContextMeans ==
  /\ ~EmptyInput(ctx.table)
  /\ \A i \in DOMAIN ctx.table.columns :
       \E j \in DOMAIN request.table.columns : request.table.columns[j] = ctx.table.columns[i]
  /\ ~down =>
       /\ todo # <<>> /\ Node.kind = "materialize" => ctx.has_bitmap
       /\ Abstract!After(OpsOf(m_result), request.table)[Len(OpsDone(m_result))] =
            [result |-> "table", columns |-> ctx.table.columns,
             rows |-> IF ctx.has_bitmap THEN ctx.bitmap ELSE ctx.table.rows]

\* No operation of the query executed meets an empty input or filters by a constant.
Plain ==
  /\ ~EmptyInput(request.table)
  /\ \A i \in DOMAIN OpsOf(request.plan) :
       ~EmptyProjection(OpsOf(request.plan)[i]) /\ ~ByConstant(OpsOf(request.plan), i)

MInv ==
  /\ IInv
  /\ QueriesBuilt
  /\ PassMeans
  /\ pc = "execute" /\ down => ctx = Context(request.table)
  /\ pc = "execute" /\ ~down => BitmapMeans(OpsOf(m_result), Len(OpsDone(m_result)))
  /\ pc = "execute" /\ Plain => ContextMeans
=============================================================================
