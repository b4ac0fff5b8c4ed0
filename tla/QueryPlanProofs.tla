-------------------------- MODULE QueryPlanProofs --------------------------
(***************************************************************************)
(* Theorems about QueryPlan, for all tables, projections and expressions.  *)
(*                                                                         *)
(* The shape of plans is a matter of neighbours in them and is proved      *)
(* here; what they mean is proved in QueryMeaningProofs.                   *)
(***************************************************************************)
EXTENDS QueryPlan, SequenceTheorems, TLAPS

Kind == {"projection", "filter", "materialize"}

-----------------------------------------------------------------------------
\* The part of the type invariant about the heap.
LEMMA HeapType ==
  ASSUME TypeOK
  PROVE  /\ nodes \in Seq(Nodes) /\ Len(nodes) \in Nat /\ DOMAIN nodes = 1 .. Len(nodes)
         /\ \A n \in 1 .. Len(nodes) : nodes[n] \in Nodes /\ nodes[n].input < n
         /\ user \in 0 .. Len(nodes)
         /\ plans \subseteq 0 .. user /\ 0 \in plans
<1>1. nodes \in Seq(Nodes)
  BY DEF TypeOK
<1>2. Len(nodes) \in Nat /\ DOMAIN nodes = 1 .. Len(nodes)
  BY <1>1
<1>3. \A n \in 1 .. Len(nodes) : nodes[n] \in Nodes
  BY <1>1
<1>4. \A n \in DOMAIN nodes : nodes[n].input < n
  BY Zenon DEF TypeOK
<1>5. user \in 0 .. Len(nodes) /\ plans \subseteq 0 .. user /\ 0 \in plans
  BY Zenon DEF TypeOK
<1> QED
  BY <1>1, <1>2, <1>3, <1>4, <1>5

\* TypeOK in three parts.
HeapOK ==
  /\ nodes \in Seq(Nodes)
  /\ \A n \in DOMAIN nodes : nodes[n].input < n
  /\ user \in 0 .. Len(nodes)
  /\ plans \subseteq 0 .. user /\ 0 \in plans

ControlOK ==
  /\ pc \in {"idle", "optimize", "execute", "crash"}
  /\ request.plan \in plans
  /\ request.table \in Tables \cup {NoTable}
  /\ todo \in Seq(DOMAIN nodes)
  /\ down \in BOOLEAN
  /\ m_result \in 0 .. Len(nodes)
  /\ answer.result \in {"none", "table", "unreachable", "not_implemented", "bad_variant_access"}

ContextOK ==
  /\ IsTable(ctx.table)
  /\ ctx = [table |-> ctx.table, has_bitmap |-> ctx.has_bitmap, bitmap |-> ctx.bitmap]
  /\ ctx.has_bitmap \in BOOLEAN
  /\ ctx.bitmap \subseteq ctx.table.rows

LEMMA TypeParts ==
  /\ TypeOK <=> HeapOK /\ ControlOK /\ ContextOK
  /\ TypeOK' <=> HeapOK' /\ ControlOK' /\ ContextOK'
<1>1. TypeOK <=> HeapOK /\ ControlOK /\ ContextOK
  BY Zenon DEF TypeOK, HeapOK, ControlOK, ContextOK
<1>2. TypeOK' <=> HeapOK' /\ ControlOK' /\ ContextOK'
  BY Zenon DEF TypeOK, HeapOK, ControlOK, ContextOK
<1> QED
  BY <1>1, <1>2

\* The nodes of the heap: an input is an older node or null.
LEMMA NodeAt ==
  ASSUME TypeOK, NEW n \in 1 .. Len(nodes)
  PROVE  /\ nodes[n] \in Nodes /\ nodes[n].kind \in Kind
         /\ nodes[n].input \in 0 .. n - 1
         /\ nodes[n].kind = "projection" => nodes[n].fields \in Projections
         /\ nodes[n].kind = "filter" => nodes[n].exprs \in Seq(Exprs) \ {<<>>}
<1>1. nodes[n] \in Nodes
  BY HeapType
<1>2. nodes[n].input < n
  BY HeapType
<1>3. nodes[n].input \in Nat /\ nodes[n].kind \in Kind
  BY <1>1 DEF Nodes, Kind
<1>4. nodes[n].kind = "projection" => nodes[n].fields \in Projections
  BY <1>1 DEF Nodes
<1>5. nodes[n].kind = "filter" => nodes[n].exprs \in Seq(Exprs) \ {<<>>}
  BY <1>1 DEF Nodes
<1> QED
  BY <1>1, <1>2, <1>3, <1>4, <1>5

\* The constructors make nodes.
LEMMA NewNodes ==
  ASSUME NEW input \in Nat
  PROVE  /\ \A f \in Projections : ProjectionNode(input, f) \in Nodes
         /\ \A e \in Seq(Exprs) \ {<<>>} : FilterNode(input, e) \in Nodes
         /\ MaterializeFilterNode(input) \in Nodes
  BY DEF ProjectionNode, FilterNode, MaterializeFilterNode, Nodes

\* Where nodes keep their kind and their input, the shape of plans is kept.
LEMMA ShapeKept ==
  ASSUME TypeOK, NEW m \in 0 .. Len(nodes),
         \A n \in 1 .. m : nodes'[n].kind = nodes[n].kind /\ nodes'[n].input = nodes[n].input
  PROVE  \A n \in 1 .. m :
           /\ HasInput(n)' <=> HasInput(n)
           /\ InputKind(n)' = InputKind(n)
           /\ Joined(n)' <=> Joined(n)
<1> SUFFICES ASSUME NEW n \in 1 .. m
             PROVE  /\ HasInput(n)' <=> HasInput(n)
                    /\ InputKind(n)' = InputKind(n)
                    /\ Joined(n)' <=> Joined(n)
  OBVIOUS
<1>1. n \in 1 .. Len(nodes)
  OBVIOUS
<1>2. nodes[n].input \in 0 .. n - 1
  BY <1>1, NodeAt
<1>3. HasInput(n)' <=> HasInput(n)
  BY DEF HasInput
<1>4. InputKind(n)' = InputKind(n)
  BY <1>2, <1>3 DEF InputKind, HasInput
<1> QED
  BY <1>3, <1>4 DEF Joined

\* The plans of the user keep their shape with their nodes.
LEMMA UserPlansKept ==
  ASSUME IInv, user' = user, plans' = plans,
         \A n \in 1 .. user : nodes'[n].kind = nodes[n].kind /\ nodes'[n].input = nodes[n].input
  PROVE  UserPlans'
<1>1. user \in 0 .. Len(nodes) /\ plans \subseteq 0 .. user
  BY DEF IInv, TypeOK
<1>2. \A n \in 1 .. user : InputKind(n)' = InputKind(n)
  BY <1>1, ShapeKept DEF IInv
<1> QED
  BY <1>1, <1>2 DEF IInv, UserPlans

\* std::make_shared<...>: the heap has one node more.
LEMMA Allocated ==
  ASSUME TypeOK, NEW node \in Nodes, node.input <= Len(nodes), nodes' = Append(nodes, node)
  PROVE  /\ nodes' \in Seq(Nodes) /\ Len(nodes') = Len(nodes) + 1
         /\ \A n \in 1 .. Len(nodes) : nodes'[n] = nodes[n]
         /\ nodes'[Len(nodes) + 1] = node
         /\ \A n \in DOMAIN nodes' : nodes'[n].input < n
<1>1. nodes \in Seq(Nodes) /\ \A n \in 1 .. Len(nodes) : nodes[n].input < n
  BY HeapType
<1>2. /\ nodes' \in Seq(Nodes) /\ Len(nodes') = Len(nodes) + 1
      /\ \A n \in 1 .. Len(nodes) : nodes'[n] = nodes[n]
      /\ nodes'[Len(nodes) + 1] = node
  BY <1>1
<1>3. node.input < Len(nodes) + 1
  BY <1>1 DEF Nodes
<1>4. DOMAIN nodes' = 1 .. Len(nodes) + 1
  BY <1>2
<1> QED
  BY <1>1, <1>2, <1>3, <1>4

-----------------------------------------------------------------------------
\* execute leaves: the user's nodes stay.
LEMMA LeaveInvariant ==
  ASSUME IInv, ~down, Leave(answer'),
         answer'.result \in {"none", "table", "unreachable", "not_implemented", "bad_variant_access"}
  PROVE  IInv'
<1>1. /\ nodes \in Seq(Nodes) /\ Len(nodes) \in Nat /\ user \in 0 .. Len(nodes)
      /\ \A n \in 1 .. Len(nodes) : nodes[n].input < n
  BY HeapType DEF IInv
<1>2. /\ nodes' \in Seq(Nodes) /\ Len(nodes') = user
      /\ \A n \in 1 .. user : nodes'[n] = nodes[n]
  <2>1. nodes' = SubSeq(nodes, 1, user)
    BY DEF Leave
  <2>2. user <= Len(nodes) /\ user \in Nat
    BY <1>1
  <2>3. nodes \in Seq(Nodes)
    BY <1>1
  <2> QED
    BY <2>1, <2>2, <2>3, SubSeqProperties
<1>3. UserPlans'
  BY <1>2, UserPlansKept DEF Leave
<1>4. IsTable(NoTable)
  BY DEF IsTable, NoTable
<1>5. TypeOK'
  <2>1. (ctx = Context(NoTable))'
    BY DEF Leave
  <2>2. (/\ IsTable(ctx.table) /\ ctx.has_bitmap \in BOOLEAN
         /\ ctx = [table |-> ctx.table, has_bitmap |-> ctx.has_bitmap, bitmap |-> ctx.bitmap]
         /\ ctx.bitmap \subseteq ctx.table.rows)'
    BY <2>1, <1>4 DEF Context
  <2>3. (request.plan \in plans /\ request.table \in Tables \cup {NoTable})'
    BY DEF Leave, NoRequest, IInv, TypeOK
  <2>4. (/\ user \in 0 .. Len(nodes) /\ plans \subseteq 0 .. user /\ 0 \in plans
         /\ nodes \in Seq(Nodes) /\ \A n \in DOMAIN nodes : nodes[n].input < n)'
    <3>1. user' = user /\ plans' = plans
      BY DEF Leave
    <3>2. DOMAIN nodes' = 1 .. user
      <4>1. nodes' \in Seq(Nodes) /\ Len(nodes') = user
        BY <1>2
      <4> QED
        BY <4>1
    <3>3. plans \subseteq 0 .. user /\ 0 \in plans
      BY HeapType DEF IInv
    <3> QED
      BY <1>1, <1>2, <3>1, <3>2, <3>3
  <2>5. (pc \in {"idle", "optimize", "execute", "crash"} /\ down \in BOOLEAN)'
    BY Zenon DEF Leave, calls, IInv, TypeOK
  <2>6. (todo \in Seq(DOMAIN nodes) /\ m_result \in 0 .. Len(nodes))'
    BY <1>1, <1>2 DEF Leave
  <2> QED
    BY <2>2, <2>3, <2>4, <2>5, <2>6, Zenon DEF TypeOK
<1> QED
  BY <1>2, <1>3, <1>5 DEF IInv, Leave, MadeApart, MadeJoined, BitmapNeverLost

-----------------------------------------------------------------------------
\* project and filter: nodes of the user, on top of a plan.
LEMMA BuildProjectInvariant == IInv /\ BuildProject => IInv'
<1> SUFFICES ASSUME IInv, BuildProject PROVE IInv'
  OBVIOUS
<1>1. PICK input \in plans, fields \in Projections :
        nodes' = Append(nodes, ProjectionNode(input, fields))
  BY DEF BuildProject
<1> DEFINE node == ProjectionNode(input, fields)
<1>2. /\ Len(nodes) = user /\ todo = <<>> /\ ~down /\ m_result = 0 /\ pc = "idle"
      /\ nodes \in Seq(Nodes) /\ user \in Nat /\ input \in 0 .. user /\ plans \subseteq 0 .. user
  BY HeapType DEF IInv, BuildProject
<1>3. node \in Nodes /\ node.input = input /\ node.kind = "projection"
  BY <1>2, NewNodes DEF ProjectionNode
<1>4. /\ nodes' \in Seq(Nodes) /\ Len(nodes') = user + 1
      /\ \A n \in 1 .. user : nodes'[n] = nodes[n]
      /\ nodes'[user + 1] = node
      /\ \A n \in DOMAIN nodes' : nodes'[n].input < n
  <2> HIDE DEF node
  <2>1. node.input <= Len(nodes) /\ nodes' = Append(nodes, node)
    BY <1>1, <1>2, <1>3 DEF node
  <2> QED
    BY <1>2, <1>3, <2>1, Allocated DEF IInv
<1> HIDE DEF node
<1>5. user' = user + 1 /\ plans' = plans \cup {user + 1}
  BY DEF BuildProject
<1>6. HeapOK'
  BY <1>2, <1>4, <1>5, TypeParts DEF IInv, HeapOK
<1>7. ControlOK'
  <2>1. UNCHANGED <<pc, request, todo, down, m_result>> /\ answer' = Failed("none")
    BY DEF BuildProject, calls
  <2>2. todo' \in Seq(DOMAIN nodes') /\ m_result' \in 0 .. Len(nodes')
    BY <1>2, <1>4, <2>1
  <2> QED
    BY <1>5, <2>1, <2>2, TypeParts DEF IInv, ControlOK, Failed
<1>8. ContextOK'
  BY TypeParts DEF IInv, ContextOK, BuildProject
<1>9. UserPlans'
  <2>1. \A n \in 1 .. user :
          nodes'[n].kind = nodes[n].kind /\ InputKind(n)' = InputKind(n)
    <3>1. user \in 0 .. Len(nodes)
      BY <1>2
    <3>2. \A n \in 1 .. user :
            nodes'[n].kind = nodes[n].kind /\ nodes'[n].input = nodes[n].input
      BY <1>4
    <3> QED
      BY <3>1, <3>2, ShapeKept DEF IInv
  <2>2. ASSUME NEW n, n = user + 1
        PROVE  nodes'[n].kind = "projection" /\ InputKind(n)' # "filter"
    <3>1. nodes'[n].kind = "projection" /\ nodes'[n].input = input
      BY <1>3, <1>4, <2>2
    <3>2. CASE input = 0
      BY <3>1, <3>2 DEF InputKind, HasInput
    <3>3. CASE input # 0
      <4>1. input \in 1 .. user /\ nodes[input].kind # "filter"
        BY <1>2, <3>3 DEF IInv, UserPlans
      <4>2. nodes'[input] = nodes[input]
        BY <1>4, <4>1
      <4> QED
        BY <3>1, <3>3, <4>1, <4>2 DEF InputKind, HasInput
    <3> QED
      BY <3>1, <3>2, <3>3
  <2>3. \A q \in plans' \ {0} : nodes'[q].kind # "filter"
    BY <1>2, <1>4, <1>5, <2>2 DEF IInv, UserPlans
  <2>4. ASSUME NEW n \in 1 .. user'
        PROVE  (nodes[n].kind = "materialize" <=> InputKind(n) = "filter")'
    <3>1. n \in 1 .. user \/ n = user + 1
      BY <1>2, <1>5
    <3>2. CASE n \in 1 .. user
      BY <2>1, <3>2 DEF IInv, UserPlans
    <3>3. CASE n = user + 1
      BY <2>2, <3>3
    <3> QED
      BY <3>1, <3>2, <3>3
  <2> QED
    BY <2>3, <2>4 DEF UserPlans
<1> QED
  BY <1>2, <1>4, <1>5, <1>6, <1>7, <1>8, <1>9, TypeParts
    DEF IInv, BuildProject, calls, MadeApart, MadeJoined, BitmapNeverLost

LEMMA BuildFilterInvariant == IInv /\ BuildFilter => IInv'
<1> SUFFICES ASSUME IInv, BuildFilter PROVE IInv'
  OBVIOUS
<1>1. PICK input \in plans, expr \in Exprs :
        nodes' = nodes \o <<FilterNode(input, <<expr>>), MaterializeFilterNode(user + 1)>>
  BY DEF BuildFilter
<1>2. /\ Len(nodes) = user /\ todo = <<>> /\ ~down /\ m_result = 0 /\ pc = "idle"
      /\ nodes \in Seq(Nodes) /\ user \in Nat /\ input \in 0 .. user /\ plans \subseteq 0 .. user
      /\ \A n \in 1 .. user : nodes[n].input < n
  BY HeapType DEF IInv, BuildFilter
<1> DEFINE fnode == FilterNode(input, <<expr>>)
           mnode == MaterializeFilterNode(user + 1)
<1>3. /\ fnode \in Nodes /\ fnode.input = input /\ fnode.kind = "filter"
      /\ mnode \in Nodes /\ mnode.input = user + 1 /\ mnode.kind = "materialize"
  <2>1. <<expr>> \in Seq(Exprs) \ {<<>>}
    OBVIOUS
  <2>2. input \in Nat /\ user + 1 \in Nat
    BY <1>2
  <2>3. fnode \in Nodes
    BY <2>1, <2>2, NewNodes
  <2>4. mnode \in Nodes
    BY <2>2, NewNodes
  <2> QED
    BY <2>3, <2>4 DEF FilterNode, MaterializeFilterNode
<1>4. nodes' = nodes \o <<fnode, mnode>>
  BY <1>1
<1> HIDE DEF fnode, mnode
<1>5. /\ nodes' \in Seq(Nodes) /\ Len(nodes') = user + 2
      /\ \A n \in 1 .. user : nodes'[n] = nodes[n]
      /\ nodes'[user + 1] = fnode /\ nodes'[user + 2] = mnode
  <2> DEFINE both == <<fnode, mnode>>
  <2>1. both \in Seq(Nodes) /\ Len(both) = 2 /\ both[1] = fnode /\ both[2] = mnode
    BY <1>3
  <2>2. nodes' = nodes \o both
    BY <1>4
  <2> HIDE DEF both
  <2>3. /\ nodes \o both \in Seq(Nodes) /\ Len(nodes \o both) = Len(nodes) + Len(both)
        /\ \A n \in 1 .. Len(nodes) + Len(both) :
             (nodes \o both)[n] = IF n <= Len(nodes) THEN nodes[n] ELSE both[n - Len(nodes)]
    BY <1>2, <2>1, ConcatProperties
  <2>4. /\ nodes' \in Seq(Nodes) /\ Len(nodes') = user + 2
        /\ \A n \in 1 .. user + 2 :
             nodes'[n] = IF n <= user THEN nodes[n] ELSE both[n - user]
    BY <1>2, <2>1, <2>2, <2>3
  <2> QED
    BY <1>2, <2>1, <2>4
<1>6. \A n \in DOMAIN nodes' : nodes'[n].input < n
  <2>1. DOMAIN nodes' = 1 .. user + 2
    BY <1>5
  <2>2. \A n \in 1 .. user + 2 : n \in 1 .. user \/ n = user + 1 \/ n = user + 2
    BY <1>2
  <2> QED
    BY <1>2, <1>3, <1>5, <2>1, <2>2
<1>7. user' = user + 2 /\ plans' = plans \cup {user + 2}
  BY DEF BuildFilter
<1>8. HeapOK'
  BY <1>2, <1>5, <1>6, <1>7, TypeParts DEF IInv, HeapOK
<1>9. ControlOK'
  <2>1. UNCHANGED <<pc, request, todo, down, m_result>> /\ answer' = Failed("none")
    BY DEF BuildFilter, calls
  <2>2. todo' \in Seq(DOMAIN nodes') /\ m_result' \in 0 .. Len(nodes')
    BY <1>2, <1>5, <2>1
  <2> QED
    BY <1>7, <2>1, <2>2, TypeParts DEF IInv, ControlOK, Failed
<1>10. ContextOK'
  BY TypeParts DEF IInv, ContextOK, BuildFilter
<1>11. UserPlans'
  <2>1. \A n \in 1 .. user :
          nodes'[n].kind = nodes[n].kind /\ InputKind(n)' = InputKind(n)
    <3>1. user \in 0 .. Len(nodes)
      BY <1>2
    <3>2. \A n \in 1 .. user :
            nodes'[n].kind = nodes[n].kind /\ nodes'[n].input = nodes[n].input
      BY <1>5
    <3> QED
      BY <3>1, <3>2, ShapeKept DEF IInv
  <2>2. ASSUME NEW n, n = user + 1
        PROVE  nodes'[n].kind = "filter" /\ InputKind(n)' # "filter"
    <3>1. nodes'[n].kind = "filter" /\ nodes'[n].input = input
      BY <1>3, <1>5, <2>2
    <3>2. CASE input = 0
      BY <3>1, <3>2 DEF InputKind, HasInput
    <3>3. CASE input # 0
      <4>1. input \in 1 .. user /\ nodes[input].kind # "filter"
        BY <1>2, <3>3 DEF IInv, UserPlans
      <4>2. nodes'[input] = nodes[input]
        BY <1>5, <4>1
      <4> QED
        BY <3>1, <3>3, <4>1, <4>2 DEF InputKind, HasInput
    <3> QED
      BY <3>1, <3>2, <3>3
  <2>3. ASSUME NEW n, n = user + 2
        PROVE  nodes'[n].kind = "materialize" /\ InputKind(n)' = "filter"
    <3>1. nodes'[n].kind = "materialize" /\ nodes'[n].input = user + 1 /\ user + 1 # 0
      BY <1>2, <1>3, <1>5, <2>3
    <3>2. nodes'[user + 1].kind = "filter"
      BY <1>3, <1>5
    <3> QED
      BY <3>1, <3>2 DEF InputKind, HasInput
  <2>4. \A q \in plans' \ {0} : nodes'[q].kind # "filter"
    BY <1>2, <1>5, <1>7, <2>3 DEF IInv, UserPlans
  <2>5. ASSUME NEW n \in 1 .. user'
        PROVE  (nodes[n].kind = "materialize" <=> InputKind(n) = "filter")'
    <3>1. n \in 1 .. user \/ n = user + 1 \/ n = user + 2
      BY <1>2, <1>7
    <3>2. CASE n \in 1 .. user
      BY <2>1, <3>2 DEF IInv, UserPlans
    <3>3. CASE n = user + 1
      BY <2>2, <3>3
    <3>4. CASE n = user + 2
      BY <2>3, <3>4
    <3> QED
      BY <3>1, <3>2, <3>3, <3>4
  <2> QED
    BY <2>4, <2>5 DEF UserPlans
<1> QED
  BY <1>2, <1>5, <1>7, <1>8, <1>9, <1>10, <1>11, TypeParts
    DEF IInv, BuildFilter, calls, MadeApart, MadeJoined, BitmapNeverLost

-----------------------------------------------------------------------------
\* A plan is visited from its last node.
LEMMA VisitStarts ==
  ASSUME TypeOK, NEW plan \in 1 .. Len(nodes), Visit(plan)
  PROVE  /\ todo' \in Seq(DOMAIN nodes) /\ down' \in BOOLEAN
         /\ Len(todo') = 1 /\ todo' # <<>> /\ todo'[1] = plan /\ Head(todo') = plan
         /\ down' <=> HasInput(plan)
<1>1. todo' = <<plan>> /\ down' = HasInput(plan)
  BY DEF Visit
<1>2. plan \in DOMAIN nodes
  BY HeapType
<1>3. todo' \in Seq(DOMAIN nodes)
  BY <1>1, <1>2
<1>4. Len(todo') = 1 /\ todo' # <<>> /\ todo'[1] = plan /\ Head(todo') = plan
  BY <1>1
<1>5. down' \in BOOLEAN /\ (down' <=> HasInput(plan))
  BY <1>1, Zenon DEF HasInput
<1> QED
  BY <1>3, <1>4, <1>5

LEMMA ExecuteInvariant == IInv /\ Execute => IInv'
<1> SUFFICES ASSUME IInv, Execute PROVE IInv'
  OBVIOUS
<1>1. PICK plan \in plans, table \in Tables :
        /\ request' = [plan |-> plan, table |-> table]
        /\ IF plan = 0 THEN pc' = "crash" /\ UNCHANGED calls
           ELSE pc' = "optimize" /\ Visit(plan)
  BY DEF Execute
<1>2. /\ Len(nodes) = user /\ todo = <<>> /\ ~down /\ m_result = 0
      /\ UNCHANGED <<nodes, user, plans, m_result, ctx>> /\ answer' = Failed("none")
  BY DEF IInv, Execute, heap
<1>3. HeapOK' /\ ContextOK' /\ UserPlans' /\ MadeApart' /\ MadeJoined'
  BY <1>2, TypeParts
    DEF IInv, HeapOK, ContextOK, UserPlans, MadeApart, MadeJoined, Joined, InputKind, HasInput
<1>4. request'.plan \in plans' /\ request'.table \in Tables \cup {NoTable}
      /\ request'.plan = plan
  BY <1>1, <1>2
<1>5. CASE plan = 0
  <2>1. pc' = "crash" /\ todo' = todo /\ down' = down
    BY <1>1, <1>5 DEF calls
  <2>2. ControlOK'
    BY <1>2, <1>4, <2>1, TypeParts DEF IInv, ControlOK, Failed
  <2> QED
    BY <1>3, <2>1, <2>2, TypeParts DEF IInv, BitmapNeverLost
<1>6. CASE plan # 0
  <2>1. pc' = "optimize" /\ Visit(plan) /\ plan \in 1 .. Len(nodes) /\ plan \in 1 .. user
    BY <1>1, <1>2, <1>6, HeapType DEF IInv
  <2>2. /\ todo' \in Seq(DOMAIN nodes) /\ down' \in BOOLEAN
        /\ Len(todo') = 1 /\ todo' # <<>> /\ todo'[1] = plan /\ Head(todo') = plan
        /\ down' <=> HasInput(plan)
    BY <2>1, VisitStarts DEF IInv
  <2>3. ControlOK'
    BY <1>2, <1>4, <2>1, <2>2, TypeParts DEF IInv, ControlOK, Failed
  <2>4. CallsArePath(request.plan)'
    BY <1>2, <1>4, <2>2 DEF CallsArePath, HasInput
  <2>5. \A k \in DOMAIN todo' : todo'[k] <= user'
    BY <1>2, <2>1, <2>2
  <2>6. ~down' => nodes[plan].kind # "materialize" /\ Prev' # "filter"
    <3>1. Prev' = "none"
      BY <1>2 DEF Prev
    <3>2. ~HasInput(plan) => nodes[plan].kind # "materialize"
      BY <2>1 DEF IInv, UserPlans, InputKind
    <3> QED
      BY <2>2, <3>1, <3>2
  <2>7. Optimizing'
    BY <1>2, <1>4, <1>6, <2>2, <2>4, <2>5, <2>6 DEF Optimizing, Node
  <2> QED
    BY <1>3, <2>1, <2>3, <2>7, TypeParts DEF IInv, BitmapNeverLost
<1> QED
  BY <1>5, <1>6

\* The input of the innermost call is visited.
LEMMA VisitedInput ==
  ASSUME TypeOK, NEW plan, CallsArePath(plan), down, NEW input, input = nodes[Head(todo)].input,
         todo' = <<input>> \o todo
  PROVE  /\ todo # <<>> /\ Head(todo) \in 1 .. Len(nodes) /\ Head(todo) = todo[1]
         /\ HasInput(Head(todo)) /\ input \in 1 .. Head(todo) - 1
         /\ todo' \in Seq(DOMAIN nodes) /\ todo' # <<>> /\ Head(todo') = input
         /\ \A k \in DOMAIN todo' : todo'[k] = input \/ \E j \in DOMAIN todo : todo'[k] = todo[j]
         /\ \A k \in 1 .. Len(todo') - 1 : nodes[todo'[k + 1]].input = todo'[k]
         /\ todo'[Len(todo')] = plan
<1>1. todo \in Seq(DOMAIN nodes) /\ DOMAIN nodes = 1 .. Len(nodes) /\ Len(nodes) \in Nat
  BY TypeParts, HeapType DEF ControlOK
<1>2. todo # <<>> /\ HasInput(Head(todo)) /\ todo[Len(todo)] = plan
  BY DEF CallsArePath
<1>3. Head(todo) \in 1 .. Len(nodes) /\ Head(todo) = todo[1] /\ Len(todo) \in Nat \ {0}
  BY <1>1, <1>2
<1>4. input \in 1 .. Head(todo) - 1
  BY <1>2, <1>3, NodeAt DEF HasInput
<1> DEFINE first == <<input>>
<1>5. first \in Seq(DOMAIN nodes) /\ Len(first) = 1 /\ first[1] = input
  BY <1>1, <1>3, <1>4
<1>6. todo' = first \o todo
  OBVIOUS
<1> HIDE DEF first
<1>7. /\ todo' \in Seq(DOMAIN nodes) /\ Len(todo') = Len(todo) + 1
      /\ \A k \in 1 .. Len(todo) + 1 : todo'[k] = IF k <= 1 THEN first[k] ELSE todo[k - 1]
  <2>1. /\ first \o todo \in Seq(DOMAIN nodes) /\ Len(first \o todo) = Len(first) + Len(todo)
        /\ \A k \in 1 .. Len(first) + Len(todo) :
             (first \o todo)[k] = IF k <= Len(first) THEN first[k] ELSE todo[k - Len(first)]
    BY <1>1, <1>5, ConcatProperties
  <2> QED
    BY <1>3, <1>5, <1>6, <2>1
<1>8. todo'[1] = input /\ \A k \in 2 .. Len(todo) + 1 : todo'[k] = todo[k - 1]
  BY <1>3, <1>5, <1>7
<1>9. DOMAIN todo' = 1 .. Len(todo) + 1 /\ DOMAIN todo = 1 .. Len(todo)
  BY <1>1, <1>7
<1>10. todo' # <<>> /\ Head(todo') = input
  BY <1>3, <1>7, <1>8
<1>11. \A k \in DOMAIN todo' : todo'[k] = input \/ \E j \in DOMAIN todo : todo'[k] = todo[j]
  <2> SUFFICES ASSUME NEW k \in 1 .. Len(todo) + 1, k # 1
               PROVE  \E j \in DOMAIN todo : todo'[k] = todo[j]
    BY <1>8, <1>9
  <2>1. k - 1 \in DOMAIN todo /\ todo'[k] = todo[k - 1]
    BY <1>3, <1>8, <1>9
  <2> QED
    BY <2>1
<1>12. \A k \in 1 .. Len(todo') - 1 : nodes[todo'[k + 1]].input = todo'[k]
  <2>0. Len(todo) \in Nat /\ Len(todo') - 1 = Len(todo)
    BY <1>3, <1>7
  <2> SUFFICES ASSUME NEW k \in 1 .. Len(todo) PROVE nodes[todo'[k + 1]].input = todo'[k]
    BY <2>0, Zenon
  <2>1. todo'[k + 1] = todo[k]
    BY <1>3, <1>8
  <2>2. CASE k = 1
    BY <1>3, <1>8, <2>1, <2>2
  <2>3. CASE k # 1
    <3>1. todo'[k] = todo[k - 1] /\ k - 1 \in 1 .. Len(todo) - 1
      BY <1>3, <1>8, <2>3
    <3>2. nodes[todo[(k - 1) + 1]].input = todo[k - 1]
      BY <3>1 DEF CallsArePath
    <3> QED
      BY <2>1, <3>1, <3>2
  <2> QED
    BY <2>2, <2>3
<1>13. todo'[Len(todo')] = plan
  BY <1>2, <1>3, <1>7, <1>8
<1> QED
  BY <1>2, <1>3, <1>4, <1>7, <1>10, <1>11, <1>12, <1>13

LEMMA VisitInputInvariant == IInv /\ VisitInput => IInv'
<1> SUFFICES ASSUME IInv, VisitInput PROVE IInv'
  OBVIOUS
<1>1. PICK input : input = nodes[Head(todo)].input
  OBVIOUS
<1>2. /\ pc \in {"optimize", "execute"} /\ down
      /\ todo' = <<input>> \o todo /\ down' = HasInput(input)
      /\ UNCHANGED <<nodes, user, plans, pc, request, m_result, ctx, answer>>
  BY <1>1 DEF VisitInput, heap
<1>3. PICK plan : CallsArePath(plan) /\ plan = IF pc = "optimize" THEN request.plan ELSE m_result
  BY <1>2 DEF IInv, Optimizing, Executing
<1>4. /\ todo # <<>> /\ Head(todo) \in 1 .. Len(nodes) /\ Head(todo) = todo[1]
      /\ HasInput(Head(todo)) /\ input \in 1 .. Head(todo) - 1
      /\ todo' \in Seq(DOMAIN nodes) /\ todo' # <<>> /\ Head(todo') = input
      /\ \A k \in DOMAIN todo' : todo'[k] = input \/ \E j \in DOMAIN todo : todo'[k] = todo[j]
      /\ \A k \in 1 .. Len(todo') - 1 : nodes[todo'[k + 1]].input = todo'[k]
      /\ todo'[Len(todo')] = plan
  <2>1. TypeOK
    BY DEF IInv
  <2>2. CallsArePath(plan) /\ down /\ todo' = <<input>> \o todo
    BY <1>2, <1>3
  <2> QED
    BY <1>1, <2>1, <2>2, VisitedInput, SMTT(30)
<1>5. HeapOK' /\ ContextOK' /\ UserPlans' /\ MadeApart' /\ MadeJoined'
  BY <1>2, TypeParts
    DEF IInv, HeapOK, ContextOK, UserPlans, MadeApart, MadeJoined, Joined, InputKind, HasInput
<1>6. down' \in BOOLEAN /\ (down' <=> HasInput(input))
  BY <1>2, Zenon DEF HasInput
<1>7. ControlOK'
  BY <1>2, <1>4, <1>6, TypeParts DEF IInv, ControlOK
<1>8. CallsArePath(plan)'
  BY <1>2, <1>4, <1>6 DEF CallsArePath, HasInput
<1>9. Len(nodes) \in Nat /\ user \in 0 .. Len(nodes) /\ 1 \in DOMAIN todo
  <2>1. todo \in Seq(DOMAIN nodes)
    BY TypeParts DEF IInv, ControlOK
  <2> QED
    BY <1>4, <2>1, HeapType DEF IInv
<1>10. CASE pc = "optimize"
  <2>1. Optimizing /\ Prev = "none"
    BY <1>2, <1>10 DEF IInv, Optimizing, Prev
  <2>2. Head(todo) <= user /\ input \in 1 .. user
    BY <1>4, <1>9, <2>1 DEF Optimizing
  <2>3. \A k \in DOMAIN todo' : todo'[k] <= user'
    BY <1>2, <1>4, <1>9, <2>1, <2>2 DEF Optimizing
  <2>4. ~HasInput(input) => nodes[input].kind # "materialize"
    BY <2>2 DEF IInv, UserPlans, InputKind
  <2>5. Prev' = "none"
    BY <1>2, <2>1 DEF Prev
  <2>6. CallsArePath(request.plan)'
    BY <1>2, <1>3, <1>8, <1>10 DEF CallsArePath
  <2>7. Optimizing'
    BY <1>2, <1>4, <1>6, <2>1, <2>3, <2>4, <2>5, <2>6 DEF Optimizing, Node
  <2> QED
    BY <1>2, <1>5, <1>7, <1>10, <2>7, TypeParts DEF IInv, BitmapNeverLost
<1>11. CASE pc = "execute"
  <2>1. Executing /\ ~ctx.has_bitmap
    BY <1>2, <1>11 DEF IInv, Executing
  <2>2. Head(todo) > user /\ input > user
    BY <1>1, <1>4, <1>9, <2>1 DEF Executing, IInv, MadeApart, HasInput
  <2>3. \A k \in DOMAIN todo' : todo'[k] > user'
    BY <1>2, <1>4, <2>1, <2>2 DEF Executing
  <2>4. CallsArePath(m_result)'
    BY <1>2, <1>3, <1>8, <1>11 DEF CallsArePath
  <2>5. Executing'
    BY <1>2, <2>1, <2>3, <2>4 DEF Executing, Prev
  <2> QED
    BY <1>2, <1>5, <1>7, <1>11, <2>1, <2>5, TypeParts DEF IInv, BitmapNeverLost
<1> QED
  BY <1>2, <1>10, <1>11

-----------------------------------------------------------------------------
\* on_visit returns, and with it the innermost call: the next one is for the
\* node that has this one as its input.
LEMMA Unwound ==
  ASSUME TypeOK, NEW plan, CallsArePath(plan), todo # <<>>, todo' = Tail(todo)
  PROVE  /\ Head(todo) \in 1 .. Len(nodes) /\ \E j \in DOMAIN todo : Head(todo) = todo[j]
         /\ todo' \in Seq(DOMAIN nodes)
         /\ \A k \in DOMAIN todo' : todo'[k] \in 1 .. Len(nodes)
         /\ \A k \in DOMAIN todo' : \E j \in DOMAIN todo : todo'[k] = todo[j]
         /\ \A k \in 1 .. Len(todo') - 1 : k \in DOMAIN todo' /\ k + 1 \in DOMAIN todo'
         /\ \A k \in 1 .. Len(todo') - 1 : nodes[todo'[k + 1]].input = todo'[k]
         /\ todo' # <<>> => /\ todo'[Len(todo')] = plan
                           /\ 1 \in DOMAIN todo' /\ Head(todo') = todo'[1]
                           /\ nodes[Head(todo')].input = Head(todo)
         /\ todo' = <<>> => Head(todo) = plan
<1>1. todo \in Seq(DOMAIN nodes) /\ DOMAIN nodes = 1 .. Len(nodes) /\ Len(nodes) \in Nat
  BY TypeParts, HeapType DEF ControlOK
<1>2. todo[Len(todo)] = plan /\ Len(todo) \in Nat \ {0} /\ Head(todo) = todo[1]
  BY <1>1 DEF CallsArePath
<1>3. /\ todo' \in Seq(DOMAIN nodes) /\ Len(todo') = Len(todo) - 1
      /\ \A k \in 1 .. Len(todo') : todo'[k] = todo[k + 1]
  BY <1>1, HeadTailProperties
<1>4. DOMAIN todo' = 1 .. Len(todo) - 1 /\ DOMAIN todo = 1 .. Len(todo)
  BY <1>1, <1>3
<1>5. Head(todo) \in 1 .. Len(nodes) /\ \E j \in DOMAIN todo : Head(todo) = todo[j]
  <2>1. 1 \in DOMAIN todo
    BY <1>2, <1>4
  <2> QED
    BY <1>1, <1>2, <2>1
<1>6. \A k \in DOMAIN todo' : \E j \in DOMAIN todo : todo'[k] = todo[j]
  <2> SUFFICES ASSUME NEW k \in 1 .. Len(todo) - 1
               PROVE  \E j \in DOMAIN todo : todo'[k] = todo[j]
    BY <1>4
  <2>1. k + 1 \in DOMAIN todo /\ todo'[k] = todo[k + 1]
    BY <1>2, <1>3, <1>4
  <2> QED
    BY <2>1
<1>7. \A k \in DOMAIN todo' : todo'[k] \in 1 .. Len(nodes)
  BY <1>1, <1>3
<1>8. \A k \in 1 .. Len(todo') - 1 : /\ k \in DOMAIN todo' /\ k + 1 \in DOMAIN todo'
                                  /\ nodes[todo'[k + 1]].input = todo'[k]
  <2> SUFFICES ASSUME NEW k \in 1 .. Len(todo) - 2
               PROVE  /\ k \in DOMAIN todo' /\ k + 1 \in DOMAIN todo'
                      /\ nodes[todo'[k + 1]].input = todo'[k]
    BY <1>2, <1>3
  <2>1. k \in 1 .. Len(todo') /\ k + 1 \in 1 .. Len(todo') /\ k + 1 \in 1 .. Len(todo) - 1
    BY <1>2, <1>3
  <2>2. todo'[k] = todo[k + 1] /\ todo'[k + 1] = todo[(k + 1) + 1]
    BY <1>3, <2>1
  <2> QED
    BY <1>3, <1>4, <2>1, <2>2 DEF CallsArePath
<1>9. ASSUME todo' # <<>>
      PROVE  /\ todo'[Len(todo')] = plan
             /\ 1 \in DOMAIN todo' /\ Head(todo') = todo'[1]
             /\ nodes[Head(todo')].input = Head(todo)
  <2>1. Len(todo') # 0 /\ Head(todo') = todo'[1]
    BY <1>3, <1>9
  <2>2. Len(todo') \in 1 .. Len(todo') /\ 1 \in 1 .. Len(todo') /\ 1 \in 1 .. Len(todo) - 1
    BY <1>2, <1>3, <2>1
  <2>3. todo'[Len(todo')] = todo[Len(todo)] /\ todo'[1] = todo[2]
    BY <1>2, <1>3, <2>2
  <2>4. nodes[todo[1 + 1]].input = todo[1]
    BY <2>2 DEF CallsArePath
  <2> QED
    BY <1>2, <1>4, <2>1, <2>2, <2>3, <2>4
<1>10. ASSUME todo' = <<>> PROVE Head(todo) = plan
  <2>1. Len(todo') = 0
    <3>1. todo' \in Seq(DOMAIN nodes) /\ todo' = <<>>
      BY <1>3, <1>10
    <3> QED
      BY <3>1, EmptySeq
  <2>2. Len(todo) = 1
    BY <1>2, <1>3, <2>1
  <2> QED
    BY <1>2, <2>2
<1> QED
  BY <1>3, <1>5, <1>6, <1>7, <1>8, <1>9, <1>10

\* What the steps of the pass have in common: m_result becomes a node of the
\* pass of the kind of the node visited.
LEMMA PassStep ==
  ASSUME IInv, pc = "optimize", ~down, todo # <<>>,
         UNCHANGED <<user, plans, pc, request, down, ctx, answer>>, todo' = Tail(todo),
         nodes' \in Seq(Nodes), Len(nodes) <= Len(nodes'),
         \A n \in DOMAIN nodes' : nodes'[n].input < n,
         \A n \in 1 .. Len(nodes) : nodes'[n].kind = nodes[n].kind /\ nodes'[n].input = nodes[n].input,
         MadeApart', MadeJoined',
         m_result' \in user + 1 .. Len(nodes'), nodes'[m_result'].kind = Node.kind
  PROVE  IInv'
<1>1. TypeOK /\ Optimizing
  BY DEF IInv
<1>2. PICK plan : plan = request.plan
  OBVIOUS
<1>3. /\ Head(todo) \in 1 .. Len(nodes) /\ \E j \in DOMAIN todo : Head(todo) = todo[j]
      /\ todo' \in Seq(DOMAIN nodes)
      /\ \A k \in DOMAIN todo' : todo'[k] \in 1 .. Len(nodes)
      /\ \A k \in DOMAIN todo' : \E j \in DOMAIN todo : todo'[k] = todo[j]
      /\ \A k \in 1 .. Len(todo') - 1 : k \in DOMAIN todo' /\ k + 1 \in DOMAIN todo'
      /\ \A k \in 1 .. Len(todo') - 1 : nodes[todo'[k + 1]].input = todo'[k]
      /\ todo' # <<>> => /\ todo'[Len(todo')] = plan
                        /\ 1 \in DOMAIN todo' /\ Head(todo') = todo'[1]
                        /\ nodes[Head(todo')].input = Head(todo)
      /\ todo' = <<>> => Head(todo) = plan
  <2>1. CallsArePath(plan)
    BY <1>1, <1>2 DEF Optimizing
  <2> QED
    BY <1>1, <2>1, Unwound
<1>4. /\ Len(nodes) \in Nat /\ Len(nodes') \in Nat /\ user \in 0 .. Len(nodes)
      /\ DOMAIN nodes = 1 .. Len(nodes) /\ DOMAIN nodes' = 1 .. Len(nodes')
      /\ plans \subseteq 0 .. user /\ 0 \in plans
  BY <1>1, HeapType
<1>5. HeapOK'
  BY <1>4 DEF HeapOK
<1>6. ControlOK'
  <2>1. todo' \in Seq(DOMAIN nodes')
    BY <1>3, <1>4
  <2> QED
    BY <1>1, <1>4, <2>1, TypeParts DEF ControlOK
<1>7. ContextOK'
  BY <1>1, TypeParts DEF ContextOK
<1>8. UserPlans'
  BY <1>4, UserPlansKept
<1>9. CallsArePath(request.plan)'
  <2>1. \A k \in 1 .. Len(todo') - 1 : nodes'[todo'[k + 1]].input = todo'[k]
    BY <1>3
  <2> QED
    BY <1>2, <1>3, <2>1 DEF CallsArePath
<1>10. \A k \in DOMAIN todo' : todo'[k] <= user'
  BY <1>1, <1>3 DEF Optimizing
<1>11. Head(todo) \in 1 .. user /\ Node.kind \in Kind /\ Prev' = Node.kind
  <2>1. Head(todo) \in 1 .. user
    <3>1. PICK j \in DOMAIN todo : Head(todo) = todo[j]
      BY <1>3
    <3>2. todo[j] <= user
      BY <1>1 DEF Optimizing
    <3>3. Head(todo) \in 1 .. Len(nodes)
      BY <1>3
    <3> QED
      BY <1>4, <3>1, <3>2, <3>3
  <2>2. m_result' # 0
    BY <1>4
  <2> QED
    BY <1>1, <1>3, <2>1, <2>2, NodeAt DEF Node, Prev
<1>12. CASE todo' = <<>>
  <2>1. Node.kind # "filter"
    BY <1>1, <1>2, <1>3, <1>12, TypeParts DEF IInv, UserPlans, Node, Optimizing, ControlOK
  <2>2. Optimizing'
    BY <1>1, <1>9, <1>10, <1>11, <1>12, <2>1 DEF Optimizing, Kind
  <2> QED
    BY <1>5, <1>6, <1>7, <1>8, <2>2, TypeParts DEF IInv, BitmapNeverLost
<1>13. CASE todo' # <<>>
  <2>1. PICK next : next = Head(todo')
    OBVIOUS
  <2>2. next \in 1 .. user /\ nodes[next].input = Head(todo)
    <3>1. /\ 1 \in DOMAIN todo' /\ next = todo'[1]
          /\ nodes[next].input = Head(todo)
      BY <1>3, <1>13, <2>1
    <3>2. next \in 1 .. Len(nodes) /\ next <= user'
      BY <1>3, <1>10, <3>1
    <3> QED
      BY <1>4, <3>1, <3>2
  <2>3. InputKind(next) = Node.kind
    BY <1>11, <2>2 DEF InputKind, HasInput, Node
  <2>4. nodes'[next].kind = "materialize" <=> Node.kind = "filter"
    BY <1>4, <2>2, <2>3 DEF IInv, UserPlans
  <2>5. Node' = nodes'[next]
    BY <2>1 DEF Node
  <2>6. Optimizing'
    BY <1>1, <1>9, <1>10, <1>11, <1>13, <2>4, <2>5 DEF Optimizing
  <2> QED
    BY <1>5, <1>6, <1>7, <1>8, <2>6, TypeParts DEF IInv, BitmapNeverLost
<1> QED
  BY <1>12, <1>13

\* A node of the kind visited is made on top of m_result.
LEMMA PassMakes ==
  ASSUME IInv, pc = "optimize", ~down, todo # <<>>,
         UNCHANGED <<user, plans, pc, request, down, ctx, answer>>, todo' = Tail(todo),
         NEW node \in Nodes, node.input = m_result, node.kind = Node.kind,
         nodes' = Append(nodes, node), m_result' = Len(nodes'),
         node.kind = "filter" => Prev \in {"none", "projection"}
  PROVE  IInv'
<1>1. TypeOK /\ Optimizing
  BY DEF IInv
<1>2. Len(nodes) \in Nat /\ user \in 0 .. Len(nodes) /\ m_result \in 0 .. Len(nodes)
  BY <1>1, HeapType, TypeParts DEF ControlOK
<1>3. /\ nodes' \in Seq(Nodes) /\ Len(nodes') = Len(nodes) + 1
      /\ \A n \in 1 .. Len(nodes) : nodes'[n] = nodes[n]
      /\ nodes'[Len(nodes) + 1] = node
      /\ \A n \in DOMAIN nodes' : nodes'[n].input < n
  BY <1>1, <1>2, Allocated
<1>4. node.kind = "materialize" <=> Prev = "filter"
  <2>1. node.kind \in Kind
    BY DEF Nodes, Kind
  <2> QED
    BY <1>1, <2>1 DEF Optimizing, Kind
<1>5. ASSUME NEW n, n = Len(nodes) + 1 PROVE Joined(n)'
  <2>1. nodes'[n] = node
    BY <1>3, <1>5
  <2>2. InputKind(n)' = Prev
    <3>1. CASE m_result = 0
      BY <2>1, <3>1 DEF InputKind, HasInput, Prev
    <3>2. CASE m_result # 0
      <4>1. nodes'[m_result] = nodes[m_result]
        BY <1>2, <1>3, <3>2
      <4> QED
        BY <2>1, <3>2, <4>1 DEF InputKind, HasInput, Prev
    <3> QED
      BY <3>1, <3>2
  <2> QED
    BY <1>4, <2>1, <2>2 DEF Joined
<1>6. MadeJoined'
  <2> SUFFICES ASSUME NEW n \in user' + 1 .. Len(nodes') PROVE Joined(n)'
    BY DEF MadeJoined
  <2>1. CASE n = Len(nodes) + 1
    BY <1>5, <2>1
  <2>2. CASE n # Len(nodes) + 1
    <3>1. n \in user + 1 .. Len(nodes) /\ n \in 1 .. Len(nodes)
      BY <1>2, <1>3, <2>2
    <3>2. Len(nodes) \in 0 .. Len(nodes)
      BY <1>2
    <3>3. \A k \in 1 .. Len(nodes) :
            nodes'[k].kind = nodes[k].kind /\ nodes'[k].input = nodes[k].input
      BY <1>3
    <3>4. Joined(n)' <=> Joined(n)
      BY <1>1, <3>1, <3>2, <3>3, ShapeKept
    <3> QED
      BY <3>1, <3>4 DEF IInv, MadeJoined
  <2> QED
    BY <2>1, <2>2
<1>7. MadeApart'
  <2> SUFFICES ASSUME NEW n \in user' + 1 .. Len(nodes')
               PROVE  (~HasInput(n) \/ nodes[n].input > user)'
    BY <1>2, <1>3 DEF MadeApart
  <2>1. CASE n = Len(nodes) + 1
    BY <1>2, <1>3, <2>1 DEF IInv, MadeApart, HasInput
  <2>2. CASE n # Len(nodes) + 1
    <3>1. n \in user + 1 .. Len(nodes) /\ nodes'[n] = nodes[n]
      BY <1>2, <1>3, <2>2
    <3> QED
      BY <3>1 DEF IInv, MadeApart, HasInput
  <2> QED
    BY <2>1, <2>2
<1>8. m_result' \in user + 1 .. Len(nodes') /\ nodes'[m_result'].kind = Node.kind
  BY <1>2, <1>3
<1>9. \A n \in 1 .. Len(nodes) : nodes'[n].kind = nodes[n].kind /\ nodes'[n].input = nodes[n].input
  BY <1>3
<1>10. Len(nodes) <= Len(nodes')
  BY <1>2, <1>3
<1> QED
  BY <1>3, <1>6, <1>7, <1>8, <1>9, <1>10, PassStep

\* The node visited is one of the user's.
LEMMA VisitedNode ==
  ASSUME IInv, pc \in {"optimize", "execute"}, todo # <<>>
  PROVE  Head(todo) \in 1 .. Len(nodes)
<1>1. todo \in Seq(DOMAIN nodes)
  BY TypeParts DEF IInv, ControlOK
<1> QED
  BY <1>1, HeapType DEF IInv

LEMMA PassProjectionInvariant == IInv /\ PassProjection => IInv'
<1> SUFFICES ASSUME IInv, PassProjection PROVE IInv'
  OBVIOUS
<1>1. PICK node : node = ProjectionNode(m_result, Node.fields)
  OBVIOUS
<1>2. /\ pc = "optimize" /\ ~down /\ todo # <<>> /\ Node.kind = "projection"
      /\ nodes' = Append(nodes, node) /\ m_result' = Len(nodes')
      /\ UNCHANGED <<user, plans, pc, request, down, ctx, answer>> /\ todo' = Tail(todo)
  BY <1>1 DEF PassProjection, Visiting, NewResult
<1>3. m_result \in Nat
  BY HeapType, TypeParts DEF IInv, ControlOK
<1>4. Node.fields \in Projections
  BY <1>2, VisitedNode, NodeAt DEF IInv, Node
<1>5. node \in Nodes /\ node.input = m_result /\ node.kind = "projection"
  BY <1>1, <1>3, <1>4, NewNodes DEF ProjectionNode
<1> QED
  BY <1>2, <1>5, PassMakes

LEMMA PassMaterializeInvariant == IInv /\ PassMaterialize => IInv'
<1> SUFFICES ASSUME IInv, PassMaterialize PROVE IInv'
  OBVIOUS
<1>1. PICK node : node = MaterializeFilterNode(m_result)
  OBVIOUS
<1>2. /\ pc = "optimize" /\ ~down /\ todo # <<>> /\ Node.kind = "materialize"
      /\ nodes' = Append(nodes, node) /\ m_result' = Len(nodes')
      /\ UNCHANGED <<user, plans, pc, request, down, ctx, answer>> /\ todo' = Tail(todo)
  BY <1>1 DEF PassMaterialize, Visiting, NewResult
<1>3. m_result \in Nat
  BY HeapType, TypeParts DEF IInv, ControlOK
<1>4. node \in Nodes /\ node.input = m_result /\ node.kind = "materialize"
  BY <1>1, <1>3, NewNodes DEF MaterializeFilterNode
<1> QED
  BY <1>2, <1>4, PassMakes

LEMMA PassCopyFilterInvariant == IInv /\ PassCopyFilter => IInv'
<1> SUFFICES ASSUME IInv, PassCopyFilter PROVE IInv'
  OBVIOUS
<1>1. PICK node : node = FilterNode(m_result, Node.exprs)
  OBVIOUS
<1>2. /\ pc = "optimize" /\ ~down /\ todo # <<>> /\ Node.kind = "filter"
      /\ Prev \notin {"filter", "materialize"}
      /\ nodes' = Append(nodes, node) /\ m_result' = Len(nodes')
      /\ UNCHANGED <<user, plans, pc, request, down, ctx, answer>> /\ todo' = Tail(todo)
  BY <1>1 DEF PassCopyFilter, Visiting, NewResult
<1>3. m_result \in 0 .. Len(nodes) /\ m_result \in Nat
  BY HeapType, TypeParts DEF IInv, ControlOK
<1>4. Node.exprs \in Seq(Exprs) \ {<<>>}
  BY <1>2, VisitedNode, NodeAt DEF IInv, Node
<1>5. node \in Nodes /\ node.input = m_result /\ node.kind = "filter"
  <2>1. node \in Nodes
    BY <1>1, <1>3, <1>4, NewNodes
  <2> QED
    BY <1>1, <2>1 DEF FilterNode
<1>6. Prev \in {"none", "projection"}
  <2>1. Prev \in Kind \cup {"none"}
    BY <1>3, NodeAt DEF IInv, Prev
  <2> QED
    BY <1>2, <2>1 DEF Kind
<1> QED
  BY <1>2, <1>5, <1>6, PassMakes

LEMMA PassJoinFilterInvariant == IInv /\ PassJoinFilter => IInv'
<1> SUFFICES ASSUME IInv, PassJoinFilter PROVE IInv'
  OBVIOUS
<1>1. /\ pc = "optimize" /\ ~down /\ todo # <<>> /\ Node.kind = "filter" /\ Prev = "filter"
      /\ nodes' = [nodes EXCEPT ![m_result].exprs = nodes[m_result].exprs \o Node.exprs]
      /\ UNCHANGED <<user, plans, pc, request, down, m_result, ctx, answer>> /\ todo' = Tail(todo)
  BY DEF PassJoinFilter, Visiting
<1>2. TypeOK /\ nodes \in Seq(Nodes) /\ Len(nodes) \in Nat /\ user \in 0 .. Len(nodes)
  BY HeapType DEF IInv
<1>3. /\ m_result \in 1 .. Len(nodes) /\ m_result \in user + 1 .. Len(nodes)
      /\ nodes[m_result].kind = "filter"
  <2>1. m_result # 0 /\ nodes[m_result].kind = "filter"
    BY <1>1 DEF Prev
  <2>2. m_result \in 0 .. Len(nodes)
    BY <1>2, TypeParts DEF ControlOK
  <2> QED
    BY <1>2, <2>1, <2>2 DEF IInv, MadeApart
<1>4. PICK exprs : exprs = nodes[m_result].exprs \o Node.exprs
  OBVIOUS
<1>5. exprs \in Seq(Exprs) \ {<<>>}
  <2>1. nodes[m_result].exprs \in Seq(Exprs) \ {<<>>}
    BY <1>2, <1>3, NodeAt
  <2>2. Node.exprs \in Seq(Exprs) \ {<<>>}
    BY <1>1, <1>2, VisitedNode, NodeAt DEF Node
  <2> QED
    BY <1>4, <2>1, <2>2, ConcatProperties, ConcatEqualIffEmpty
<1>6. PICK joined : joined = [nodes[m_result] EXCEPT !.exprs = exprs]
  OBVIOUS
<1>7. joined \in Nodes /\ joined.kind = "filter" /\ joined.input = nodes[m_result].input
  <2>1. nodes[m_result] \in Nodes
    BY <1>2, <1>3
  <2>2. nodes[m_result] \in [kind : {"filter"}, input : Nat, exprs : Seq(Exprs) \ {<<>>}]
    BY <1>3, <2>1 DEF Nodes
  <2>3. joined \in [kind : {"filter"}, input : Nat, exprs : Seq(Exprs) \ {<<>>}]
    BY <1>5, <1>6, <2>2
  <2> QED
    BY <1>6, <2>2, <2>3 DEF Nodes
<1>8. nodes' = [nodes EXCEPT ![m_result] = joined]
  BY <1>1, <1>4, <1>6
<1>9. nodes' \in Seq(Nodes) /\ Len(nodes') = Len(nodes)
  <2>1. DOMAIN nodes = 1 .. Len(nodes)
    BY <1>2
  <2> QED
    BY <1>2, <1>3, <1>7, <1>8, <2>1, ExceptSeq
<1>10. /\ nodes'[m_result] = joined
       /\ \A n \in 1 .. Len(nodes) : n # m_result => nodes'[n] = nodes[n]
  BY <1>2, <1>3, <1>8
<1>11. \A n \in 1 .. Len(nodes) : nodes'[n].kind = nodes[n].kind /\ nodes'[n].input = nodes[n].input
  <2> SUFFICES ASSUME NEW n \in 1 .. Len(nodes)
               PROVE  nodes'[n].kind = nodes[n].kind /\ nodes'[n].input = nodes[n].input
    OBVIOUS
  <2>1. CASE n = m_result
    BY <1>3, <1>7, <1>10, <2>1
  <2>2. CASE n # m_result
    BY <1>10, <2>2
  <2> QED
    BY <2>1, <2>2
<1>12. \A n \in DOMAIN nodes' : nodes'[n].input < n
  <2>1. DOMAIN nodes' = 1 .. Len(nodes)
    BY <1>9
  <2> QED
    BY <1>2, <1>11, <2>1, HeapType
<1>13. MadeJoined' /\ MadeApart'
  <2>1. Len(nodes) \in 0 .. Len(nodes)
    BY <1>2
  <2>2. \A n \in 1 .. Len(nodes) : (HasInput(n)' <=> HasInput(n)) /\ (Joined(n)' <=> Joined(n))
    BY <1>2, <1>11, <2>1, ShapeKept
  <2>3. \A n \in user + 1 .. Len(nodes) : n \in 1 .. Len(nodes)
    BY <1>2
  <2>4. MadeJoined'
    BY <1>1, <1>9, <2>2, <2>3 DEF IInv, MadeJoined
  <2>5. MadeApart'
    BY <1>1, <1>9, <1>11, <2>3 DEF IInv, MadeApart, HasInput
  <2> QED
    BY <2>4, <2>5
<1>14. m_result' \in user + 1 .. Len(nodes') /\ nodes'[m_result'].kind = Node.kind
  BY <1>1, <1>3, <1>7, <1>9, <1>10
<1>15. Len(nodes) <= Len(nodes')
  BY <1>2, <1>9
<1> QED
  BY <1>1, <1>9, <1>11, <1>12, <1>13, <1>14, <1>15, PassStep

LEMMA PassDropMaterializeInvariant == IInv /\ PassDropMaterialize => IInv'
<1> SUFFICES ASSUME IInv, PassDropMaterialize PROVE IInv'
  OBVIOUS
<1>1. /\ pc = "optimize" /\ ~down /\ todo # <<>> /\ Node.kind = "filter" /\ Prev = "materialize"
      /\ m_result' = nodes[m_result].input
      /\ UNCHANGED <<nodes, user, plans, pc, request, todo, down, ctx, answer>>
  BY DEF PassDropMaterialize, Visiting, heap, calls
<1>2. TypeOK /\ Len(nodes) \in Nat /\ user \in 0 .. Len(nodes) /\ Optimizing
  BY <1>1, HeapType DEF IInv
<1>3. /\ m_result \in 1 .. Len(nodes) /\ m_result \in user + 1 .. Len(nodes)
      /\ nodes[m_result].kind = "materialize"
  <2>1. m_result # 0 /\ nodes[m_result].kind = "materialize"
    BY <1>1 DEF Prev
  <2>2. m_result \in 0 .. Len(nodes)
    BY <1>2, TypeParts DEF ControlOK
  <2> QED
    BY <1>2, <2>1, <2>2 DEF IInv, MadeApart
<1>4. m_result' \in user + 1 .. Len(nodes) /\ nodes[m_result'].kind = "filter"
  <2>1. InputKind(m_result) = "filter"
    BY <1>3 DEF IInv, MadeJoined, Joined
  <2>2. HasInput(m_result) /\ nodes[nodes[m_result].input].kind = "filter"
    BY <2>1 DEF InputKind
  <2>3. nodes[m_result].input \in 0 .. m_result - 1 /\ nodes[m_result].input > user
    BY <1>2, <1>3, <2>2, NodeAt DEF IInv, MadeApart
  <2> QED
    BY <1>1, <1>2, <1>3, <2>2, <2>3
<1>5. HeapOK' /\ ContextOK' /\ UserPlans' /\ MadeJoined'
  BY <1>1, TypeParts
    DEF IInv, HeapOK, ContextOK, UserPlans, MadeJoined, Joined, InputKind, HasInput
<1>6. ControlOK'
  BY <1>1, <1>2, <1>4, TypeParts DEF ControlOK
<1>7. MadeApart'
  BY <1>1, <1>2, <1>4 DEF IInv, MadeApart, HasInput
<1>8. Optimizing'
  <2>1. CallsArePath(request.plan)'
    BY <1>1, <1>2 DEF Optimizing, CallsArePath, HasInput
  <2>2. Node' = Node
    BY <1>1 DEF Node
  <2> QED
    BY <1>1, <1>2, <2>1, <2>2 DEF Optimizing
<1> QED
  BY <1>1, <1>5, <1>6, <1>7, <1>8, TypeParts DEF IInv, BitmapNeverLost

-----------------------------------------------------------------------------
LEMMA StartExecutionInvariant == IInv /\ StartExecution => IInv'
<1> SUFFICES ASSUME IInv, StartExecution PROVE IInv'
  OBVIOUS
<1>1. pc = "optimize" /\ todo = <<>> /\ TypeOK /\ Optimizing
  BY DEF IInv, StartExecution
<1>2. ~down /\ m_result # 0 /\ Prev \notin {"none", "filter"}
  BY <1>1 DEF Optimizing, CallsArePath, Prev
<1>3. CASE Refused(request.table)
  <2>1. Leave(Failed("not_implemented"))
    BY <1>3 DEF StartExecution
  <2>2. Leave(answer') /\ answer'.result = "not_implemented"
    BY <2>1 DEF Leave, Failed
  <2> QED
    BY <1>2, <2>2, LeaveInvariant
<1>4. CASE ~Refused(request.table)
  <2>1. /\ ctx' = Context(request.table) /\ Visit(m_result) /\ pc' = "execute"
        /\ UNCHANGED <<nodes, user, plans, request, m_result, answer>>
    BY <1>4 DEF StartExecution, heap
  <2>2. m_result \in 1 .. Len(nodes) /\ m_result > user
    BY <1>1, <1>2, TypeParts DEF ControlOK, IInv, MadeApart
  <2>3. /\ todo' \in Seq(DOMAIN nodes) /\ down' \in BOOLEAN
        /\ Len(todo') = 1 /\ todo' # <<>> /\ todo'[1] = m_result /\ Head(todo') = m_result
        /\ down' <=> HasInput(m_result)
    BY <1>1, <2>1, <2>2, VisitStarts
  <2>4. HeapOK' /\ UserPlans' /\ MadeApart' /\ MadeJoined'
    BY <1>1, <2>1, TypeParts
      DEF IInv, HeapOK, UserPlans, MadeApart, MadeJoined, Joined, InputKind, HasInput
  <2>5. ControlOK'
    BY <1>1, <2>1, <2>3, TypeParts DEF ControlOK
  <2>6. ContextOK' /\ ~ctx'.has_bitmap
    <3>1. IsTable(request.table)
      <4>1. request.table \in Tables \/ request.table = NoTable
        BY <1>1, TypeParts DEF ControlOK
      <4>2. IsTable(NoTable)
        BY DEF IsTable, NoTable
      <4> QED
        BY <4>1, <4>2, TablesAssumption
    <3> QED
      BY <2>1, <3>1 DEF ContextOK, Context
  <2>7. CallsArePath(m_result)'
    BY <2>1, <2>3 DEF CallsArePath, HasInput
  <2>8. \A k \in DOMAIN todo' : todo'[k] > user'
    BY <2>1, <2>2, <2>3
  <2>9. Executing'
    BY <1>2, <2>1, <2>6, <2>7, <2>8 DEF Executing, Prev
  <2> QED
    BY <2>1, <2>4, <2>5, <2>6, <2>9, TypeParts DEF IInv, BitmapNeverLost
<1> QED
  BY <1>3, <1>4

-----------------------------------------------------------------------------
LEMMA CrashInvariant == IInv /\ pc = "execute" /\ Crash => IInv'
<1> SUFFICES ASSUME IInv, pc = "execute", Crash PROVE IInv'
  OBVIOUS
<1>1. /\ pc' = "crash"
      /\ UNCHANGED <<nodes, user, plans, request, todo, down, m_result, ctx, answer>>
  BY DEF Crash, heap, calls
<1>2. HeapOK' /\ ControlOK' /\ ContextOK'
  BY <1>1, TypeParts DEF IInv, HeapOK, ControlOK, ContextOK
<1>3. UserPlans' /\ MadeApart' /\ MadeJoined'
  BY <1>1 DEF IInv, UserPlans, MadeApart, MadeJoined, Joined, InputKind, HasInput
<1> QED
  BY <1>1, <1>2, <1>3, TypeParts DEF IInv, BitmapNeverLost

\* What the steps of the visitor have in common: only a filter leaves a bitmap
\* behind, and the node after it is its materialization.
LEMMA RunStep ==
  ASSUME IInv, pc = "execute", ~down, todo # <<>>, todo' = Tail(todo),
         UNCHANGED <<nodes, user, plans, pc, request, down, m_result, answer>>,
         ContextOK', ctx'.has_bitmap => Node.kind = "filter"
  PROVE  IInv'
<1>1. TypeOK /\ Executing
  BY DEF IInv
<1>2. PICK plan : plan = m_result
  OBVIOUS
<1>3. /\ Head(todo) \in 1 .. Len(nodes) /\ \E j \in DOMAIN todo : Head(todo) = todo[j]
      /\ todo' \in Seq(DOMAIN nodes)
      /\ \A k \in DOMAIN todo' : todo'[k] \in 1 .. Len(nodes)
      /\ \A k \in DOMAIN todo' : \E j \in DOMAIN todo : todo'[k] = todo[j]
      /\ \A k \in 1 .. Len(todo') - 1 : k \in DOMAIN todo' /\ k + 1 \in DOMAIN todo'
      /\ \A k \in 1 .. Len(todo') - 1 : nodes[todo'[k + 1]].input = todo'[k]
      /\ todo' # <<>> => /\ todo'[Len(todo')] = plan
                        /\ 1 \in DOMAIN todo' /\ Head(todo') = todo'[1]
                        /\ nodes[Head(todo')].input = Head(todo)
      /\ todo' = <<>> => Head(todo) = plan
  <2>1. CallsArePath(plan)
    BY <1>1, <1>2 DEF Executing
  <2> QED
    BY <1>1, <2>1, Unwound
<1>4. HeapOK' /\ UserPlans' /\ MadeApart' /\ MadeJoined'
  BY <1>1, TypeParts
    DEF IInv, HeapOK, UserPlans, MadeApart, MadeJoined, Joined, InputKind, HasInput
<1>5. ControlOK'
  BY <1>1, <1>3, TypeParts DEF ControlOK
<1>6. Executing'
  <2>1. CallsArePath(m_result)'
    BY <1>2, <1>3 DEF CallsArePath
  <2>2. \A k \in DOMAIN todo' : todo'[k] > user'
    BY <1>1, <1>3 DEF Executing
  <2> QED
    BY <1>1, <2>1, <2>2 DEF Executing, Prev
<1>7. BitmapNeverLost'
  <2> SUFFICES ASSUME Node.kind = "filter" PROVE todo' # <<>> /\ Node'.kind = "materialize"
    BY DEF BitmapNeverLost
  <2>1. todo' # <<>>
    BY <1>1, <1>2, <1>3 DEF Executing, Prev, Node
  <2>2. PICK next : next = Head(todo')
    OBVIOUS
  <2>3. next \in user + 1 .. Len(nodes) /\ nodes[next].input = Head(todo)
    <3>1. /\ 1 \in DOMAIN todo' /\ next = todo'[1]
          /\ nodes[next].input = Head(todo)
      BY <1>3, <2>1, <2>2
    <3>2. next \in 1 .. Len(nodes) /\ next > user
      BY <1>3, <1>6, <3>1 DEF Executing
    <3> QED
      BY <1>1, <3>1, <3>2, HeapType
  <2>4. InputKind(next) = "filter"
    BY <1>1, <1>3, <2>3, HeapType DEF InputKind, HasInput, Node
  <2>5. nodes'[next].kind = "materialize"
    BY <2>3, <2>4 DEF IInv, MadeJoined, Joined
  <2> QED
    BY <2>1, <2>2, <2>5 DEF Node
<1> QED
  BY <1>4, <1>5, <1>6, <1>7, TypeParts DEF IInv

LEMMA RunProjectionInvariant == IInv /\ RunProjection => IInv'
<1> SUFFICES ASSUME IInv, RunProjection PROVE IInv'
  OBVIOUS
<1>1. pc = "execute" /\ ~down /\ todo # <<>>
  BY DEF RunProjection, Visiting
<1>2. PICK next : next = Context([ctx.table EXCEPT
                              !.columns = Node.fields,
                              !.rows = IF Node.fields = <<>> THEN {} ELSE @])
  OBVIOUS
<1>3. Crash \/ Continue(next)
  BY <1>2 DEF RunProjection
<1>4. CASE Crash
  BY <1>1, <1>4, CrashInvariant
<1>5. CASE Continue(next)
  <2>1. /\ ctx' = next /\ todo' = Tail(todo)
        /\ UNCHANGED <<nodes, user, plans, pc, request, down, m_result, answer>>
    BY <1>5 DEF Continue, heap
  <2>2. ContextOK' /\ ~ctx'.has_bitmap
    <3>1. IsTable(ctx.table)
      BY DEF IInv, TypeOK
    <3> QED
      BY <1>2, <2>1, <3>1 DEF ContextOK, Context, IsTable
  <2> QED
    BY <1>1, <2>1, <2>2, RunStep
<1> QED
  BY <1>3, <1>4, <1>5

\* What the evaluation of filters may end in.
LEMMA ErrorType ==
  ASSUME NEW exprs, NEW i
  PROVE  ErrorAt(exprs, i) \in {"none", "crash", "not_implemented", "bad_variant_access"}
<1>1. \A expr : Error(expr) \in {"none", "crash", "not_implemented", "bad_variant_access"}
  BY Zenon DEF Error
<1> QED
  BY <1>1 DEF ErrorAt

LEMMA RunFilterInvariant == IInv /\ RunFilter => IInv'
<1> SUFFICES ASSUME IInv, RunFilter PROVE IInv'
  OBVIOUS
<1>1. pc = "execute" /\ ~down /\ todo # <<>> /\ Node.kind = "filter"
  BY DEF RunFilter, Visiting
<1>2. IsTable(ctx.table)
  BY DEF IInv, TypeOK
<1>3. PICK chosen : chosen = SelectedBy(ctx.table, Node.exprs)
  OBVIOUS
<1>4. chosen \subseteq ctx.table.rows
  BY <1>3 DEF SelectedBy
<1>5. PICK fresh : fresh = Context(ctx.table)
  OBVIOUS
<1>6. PICK next : next = [Context(ctx.table) EXCEPT !.has_bitmap = TRUE, !.bitmap = chosen]
  OBVIOUS
<1>7. \/ Continue(fresh) \/ Continue(next) \/ Crash
      \/ \E i : ErrorAt(Node.exprs, i) # "crash" /\ Leave(Failed(ErrorAt(Node.exprs, i)))
  BY <1>3, <1>5, <1>6, Zenon DEF RunFilter
<1>8. ASSUME NEW new \in {fresh, next}, Continue(new) PROVE IInv'
  <2>1. /\ ctx' = new /\ todo' = Tail(todo)
        /\ UNCHANGED <<nodes, user, plans, pc, request, down, m_result, answer>>
    BY <1>8 DEF Continue, heap
  <2>2. ContextOK'
    <3>1. fresh = [table |-> ctx.table, has_bitmap |-> FALSE, bitmap |-> {}]
      BY <1>5 DEF Context
    <3>2. next = [table |-> ctx.table, has_bitmap |-> TRUE, bitmap |-> chosen]
      BY <1>6 DEF Context
    <3>3. CASE new = fresh
      BY <1>2, <2>1, <3>1, <3>3 DEF ContextOK
    <3>4. CASE new = next
      BY <1>2, <1>4, <2>1, <3>2, <3>4 DEF ContextOK
    <3> QED
      BY <3>3, <3>4
  <2> QED
    BY <1>1, <2>1, <2>2, RunStep
<1>9. ASSUME NEW i, ErrorAt(Node.exprs, i) # "crash", Leave(Failed(ErrorAt(Node.exprs, i)))
      PROVE  IInv'
  <2>1. PICK error : error = ErrorAt(Node.exprs, i)
    OBVIOUS
  <2>2. Leave(answer') /\ answer'.result = error
    BY <1>9, <2>1 DEF Leave, Failed
  <2>3. error \in {"none", "crash", "not_implemented", "bad_variant_access"}
    BY <2>1, ErrorType, Zenon
  <2>4. error # "crash"
    BY <1>9, <2>1
  <2> QED
    BY <1>1, <2>2, <2>3, <2>4, LeaveInvariant
<1>10. CASE Crash
  BY <1>1, <1>10, CrashInvariant
<1> QED
  BY <1>7, <1>8, <1>9, <1>10

LEMMA RunMaterializeInvariant == IInv /\ RunMaterialize => IInv'
<1> SUFFICES ASSUME IInv, RunMaterialize PROVE IInv'
  OBVIOUS
<1>1. pc = "execute" /\ ~down /\ todo # <<>>
  BY DEF RunMaterialize, Visiting
<1>2. PICK next : next = Context([ctx.table EXCEPT !.rows = ctx.bitmap, !.chunked = TRUE])
  OBVIOUS
<1>3. \/ Leave(Failed("unreachable")) \/ Leave(Failed("not_implemented"))
      \/ Continue(next)
  BY <1>2, Zenon DEF RunMaterialize
<1>4. ASSUME NEW why \in {"unreachable", "not_implemented"}, Leave(Failed(why)) PROVE IInv'
  <2>1. Leave(answer') /\ answer'.result = why
    BY <1>4 DEF Leave, Failed
  <2> QED
    BY <1>1, <1>4, <2>1, LeaveInvariant
<1>5. CASE Continue(next)
  <2>1. /\ ctx' = next /\ todo' = Tail(todo)
        /\ UNCHANGED <<nodes, user, plans, pc, request, down, m_result, answer>>
    BY <1>5 DEF Continue, heap
  <2>2. ContextOK' /\ ~ctx'.has_bitmap
    <3>1. IsTable(ctx.table)
      BY DEF IInv, TypeOK
    <3> QED
      BY <1>2, <2>1, <3>1 DEF ContextOK, Context, IsTable
  <2> QED
    BY <1>1, <2>1, <2>2, RunStep
<1> QED
  BY <1>3, <1>4, <1>5

LEMMA ReturnInvariant == IInv /\ Return => IInv'
<1> SUFFICES ASSUME IInv, Return PROVE IInv'
  OBVIOUS
<1>1. Leave(answer') /\ answer'.result = "table"
  BY DEF Return, Leave, Returned
<1>2. ~down
  BY DEF Return, IInv, Executing, CallsArePath
<1> QED
  BY <1>1, <1>2, LeaveInvariant

-----------------------------------------------------------------------------
LEMMA InitInvariant == Init => IInv
<1> SUFFICES ASSUME Init PROVE IInv
  OBVIOUS
<1>1. /\ nodes = <<>> /\ user = 0 /\ plans = {0} /\ pc = "idle" /\ request = NoRequest
      /\ todo = <<>> /\ ~down /\ down \in BOOLEAN /\ m_result = 0 /\ ctx = Context(NoTable)
      /\ answer.result = "none"
  BY DEF Init, Failed
<1>2. nodes \in Seq(Nodes) /\ Len(nodes) = 0 /\ DOMAIN nodes = {}
  BY <1>1
<1>3. todo \in Seq(DOMAIN nodes)
  BY <1>1
<1>4. HeapOK
  BY <1>1, <1>2 DEF HeapOK
<1>5. ControlOK
  BY <1>1, <1>2, <1>3 DEF ControlOK, NoRequest
<1>6. ContextOK
  BY <1>1 DEF ContextOK, Context, NoTable, IsTable
<1> QED
  BY <1>1, <1>2, <1>4, <1>5, <1>6, TypeParts
    DEF IInv, UserPlans, MadeApart, MadeJoined, BitmapNeverLost

LEMMA StepInvariant == IInv /\ [Next]_vars => IInv'
<1> SUFFICES ASSUME IInv, [Next]_vars PROVE IInv'
  OBVIOUS
<1>1. CASE UNCHANGED vars
  <2>1. UNCHANGED <<nodes, user, plans, pc, request, todo, down, m_result, ctx, answer>>
    BY <1>1 DEF vars, calls
  <2>2. HeapOK' /\ ControlOK' /\ ContextOK'
    BY <2>1, TypeParts DEF IInv, HeapOK, ControlOK, ContextOK
  <2>3. UserPlans' /\ MadeApart' /\ MadeJoined' /\ BitmapNeverLost'
    BY <2>1 DEF IInv, UserPlans, MadeApart, MadeJoined, Joined, InputKind, HasInput,
                BitmapNeverLost, Node
  <2>4. pc' = "optimize" => Optimizing'
    BY <2>1 DEF IInv, Optimizing, CallsArePath, HasInput, Prev, Node
  <2>5. pc' = "execute" => Executing'
    BY <2>1 DEF IInv, Executing, CallsArePath, HasInput, Prev
  <2> QED
    BY <2>1, <2>2, <2>3, <2>4, <2>5, TypeParts DEF IInv
<1>2. CASE BuildProject
  BY <1>2, BuildProjectInvariant
<1>3. CASE BuildFilter
  BY <1>3, BuildFilterInvariant
<1>4. CASE Execute
  BY <1>4, ExecuteInvariant
<1>5. CASE VisitInput
  BY <1>5, VisitInputInvariant
<1>6. CASE Optimize
  BY <1>6, PassProjectionInvariant, PassMaterializeInvariant, PassJoinFilterInvariant,
     PassDropMaterializeInvariant, PassCopyFilterInvariant, StartExecutionInvariant DEF Optimize
<1>7. CASE Run
  BY <1>7, RunProjectionInvariant, RunFilterInvariant, RunMaterializeInvariant,
     ReturnInvariant DEF Run
<1> QED
  BY <1>1, <1>2, <1>3, <1>4, <1>5, <1>6, <1>7 DEF Next

-----------------------------------------------------------------------------
(***************************************************************************)
(* Whatever queries are built from one another and executed, and wherever  *)
(* execute stops: a filter of the user is followed by its materialization, *)
(* the calls of PlanVisitor::visit are a path in the plan visited, and the *)
(* nodes JoinFilterPass has made are joined and apart from the user's.     *)
(***************************************************************************)
THEOREM Invariance == Spec => []IInv
<1>1. Init => IInv
  BY InitInvariant
<1>2. IInv /\ [Next]_vars => IInv'
  BY StepInvariant
<1> QED
  BY <1>1, <1>2, PTL DEF Spec

(***************************************************************************)
(* Heap, calls and context keep their types: nodes point at older nodes,   *)
(* so that no plan has a cycle, and a bitmap selects rows of its table.    *)
(***************************************************************************)
THEOREM TypeCorrect == Spec => []TypeOK
<1>1. IInv => TypeOK
  BY DEF IInv
<1> QED
  BY <1>1, Invariance, PTL

(***************************************************************************)
(* JoinFilterPass joins all filters between two projections: the plan that *)
(* is executed applies them by one filter and one materialization.         *)
(***************************************************************************)
THEOREM JoinedFilters == Spec => []FiltersJoined
<1>1. IInv => FiltersJoined
  <2> SUFFICES ASSUME IInv, pc = "execute"
               PROVE  MadeJoined /\ nodes[m_result].kind # "filter"
    BY DEF FiltersJoined, MadeJoined
  <2> QED
    BY DEF IInv, Executing, Prev
<1> QED
  BY <1>1, Invariance, PTL

(***************************************************************************)
(* ExecutePlanVisitor never drops a filter bitmap: project, a second       *)
(* filter and the end of execute meet a context without one.               *)
(***************************************************************************)
THEOREM NoBitmapLost == Spec => []BitmapNeverLost
<1>1. IInv => BitmapNeverLost
  BY DEF IInv
<1> QED
  BY <1>1, Invariance, PTL

\* No step writes to a node that project or filter made.
LEMMA UserNodesKept ==
  IInv /\ [Next]_vars => user <= user' /\ \A n \in 1 .. user : nodes'[n] = nodes[n]
<1> SUFFICES ASSUME IInv, [Next]_vars
             PROVE  user <= user' /\ \A n \in 1 .. user : nodes'[n] = nodes[n]
  OBVIOUS
<1>1. nodes \in Seq(Nodes) /\ user \in 0 .. Len(nodes) /\ Len(nodes) \in Nat /\ user \in Nat
  BY HeapType DEF IInv
<1>2. m_result = 0 \/ m_result > user
  BY DEF IInv, MadeApart
<1>3. user <= user'
  <2>1. ASSUME NEW what, Leave(what) PROVE user' = user
    BY <2>1 DEF Leave
  <2>2. BuildProject => user' = user + 1
    BY DEF BuildProject
  <2>3. BuildFilter => user' = user + 2
    BY DEF BuildFilter
  <2>4. Execute \/ VisitInput \/ Optimize \/ Run \/ UNCHANGED vars => user' = user
    BY <2>1 DEF Execute, VisitInput, Optimize, PassProjection, PassMaterialize, PassJoinFilter,
                PassDropMaterialize, PassCopyFilter, StartExecution, Run, RunProjection, RunFilter,
                RunMaterialize, Return, Continue, Crash, heap, vars
  <2> QED
    BY <1>1, <2>2, <2>3, <2>4 DEF Next
<1>4. ASSUME NEW n \in 1 .. user PROVE nodes'[n] = nodes[n]
  <2>1. n \in 1 .. Len(nodes)
    BY <1>1
  <2>2. ASSUME NEW node, nodes' = Append(nodes, node) PROVE nodes'[n] = nodes[n]
    BY <1>1, <2>1, <2>2
  <2>3. CASE BuildProject
    BY <2>2, <2>3 DEF BuildProject
  <2>4. CASE BuildFilter
    BY <1>1, <2>1, <2>4 DEF BuildFilter
  <2>5. CASE Execute \/ VisitInput \/ UNCHANGED vars
    BY <2>5 DEF Execute, VisitInput, heap, vars
  <2>6. CASE PassProjection \/ PassMaterialize \/ PassCopyFilter
    BY <2>2, <2>6 DEF PassProjection, PassMaterialize, PassCopyFilter, NewResult
  <2>7. CASE PassJoinFilter
    <3>1. m_result # n
      BY <1>1, <1>2, <2>7 DEF PassJoinFilter, Prev
    <3> QED
      BY <1>1, <2>1, <2>7, <3>1 DEF PassJoinFilter
  <2>8. ASSUME NEW what, Leave(what) PROVE nodes'[n] = nodes[n]
    <3>1. nodes' = SubSeq(nodes, 1, user)
      BY <2>8 DEF Leave
    <3> QED
      BY <1>1, <2>1, <3>1, SubSeqProperties
  <2>9. CASE PassDropMaterialize \/ StartExecution \/ Run
    BY <2>8, <2>9 DEF PassDropMaterialize, StartExecution, Run, RunProjection, RunFilter,
                      RunMaterialize, Return, Continue, Crash, heap
  <2> QED
    BY <2>3, <2>4, <2>5, <2>6, <2>7, <2>9 DEF Next, Optimize
<1> QED
  BY <1>3, <1>4

(***************************************************************************)
(* Executing a query, JoinFilterPass's writes to nodes included, changes   *)
(* no node that project or filter made: queries may share them.            *)
(***************************************************************************)
THEOREM PlansUnchanged == Spec => UserPlansNeverChange
<1>1. IInv /\ [Next]_vars => [\A n \in 1 .. user : nodes'[n] = nodes[n]]_vars
  BY UserNodesKept
<1> QED
  BY <1>1, Invariance, PTL DEF Spec, UserPlansNeverChange
-----------------------------------------------------------------------------
(***************************************************************************)
(* What a call of execute has left to do: the pass and the visitor; of the *)
(* path, nodes to go down to and nodes to come back to; and the            *)
(* materialization at the end of the plan made so far, which the pass may  *)
(* drop without leaving the node it visits.                                *)
(***************************************************************************)
Busy == pc \in {"optimize", "execute"}

PhasesLeft == IF pc = "optimize" THEN 2 ELSE IF pc = "execute" THEN 1 ELSE 0
PathLeft == 2 * Len(todo) + (IF down THEN 3 * Head(todo) ELSE 0)
DropsLeft == IF pc = "optimize" /\ Prev = "materialize" THEN 1 ELSE 0

\* The pair <<PhasesLeft, PathLeft + DropsLeft>> goes down.
UsesUp ==
  \/ PhasesLeft' < PhasesLeft
  \/ PhasesLeft' = PhasesLeft /\ PathLeft' + DropsLeft' < PathLeft + DropsLeft

LEMMA PathLeftType ==
  ASSUME IInv
  PROVE  /\ PhasesLeft \in Nat /\ DropsLeft \in 0 .. 1
         /\ Len(todo) \in Nat
         /\ Busy => PathLeft \in Nat
<1>1. todo \in Seq(DOMAIN nodes) /\ down \in BOOLEAN
  BY TypeParts DEF IInv, ControlOK
<1>2. Len(todo) \in Nat
  BY <1>1
<1>3. ASSUME Busy, down PROVE Head(todo) \in Nat
  <2>1. todo # <<>>
    BY <1>3 DEF IInv, Optimizing, Executing, CallsArePath, Busy
  <2>2. Head(todo) \in 1 .. Len(nodes)
    BY <1>3, <2>1, VisitedNode DEF Busy
  <2>3. Len(nodes) \in Nat
    BY HeapType DEF IInv
  <2> QED
    BY <2>2, <2>3
<1> QED
  BY <1>2, <1>3 DEF PhasesLeft, PathLeft, DropsLeft

\* A node visited is a node less.
LEMMA NodeUsesUp ==
  ASSUME IInv, IInv', Busy, pc' = pc, ~down, down' = down, todo # <<>>, todo' = Tail(todo),
         DropsLeft' <= DropsLeft + 1
  PROVE  UsesUp
<1>1. todo \in Seq(DOMAIN nodes)
  BY TypeParts DEF IInv, ControlOK
<1>2. Len(todo) \in Nat /\ Len(todo') = Len(todo) - 1
  BY <1>1, HeadTailProperties
<1>3. DropsLeft \in 0 .. 1 /\ DropsLeft' \in 0 .. 1
  BY DEF DropsLeft
<1>4. PathLeft = 2 * Len(todo) /\ PathLeft' = 2 * Len(todo')
  BY DEF PathLeft
<1> QED
  BY <1>2, <1>3, <1>4 DEF UsesUp, PhasesLeft

LEMMA VisitInputUsesUp ==
  ASSUME IInv, IInv', VisitInput
  PROVE  UsesUp
<1>1. /\ Busy /\ down /\ pc' = pc
      /\ todo' = <<nodes[Head(todo)].input>> \o todo
      /\ UNCHANGED <<nodes, m_result>>
  BY DEF VisitInput, Busy, heap
<1>2. PICK input, plan :
        /\ input = nodes[Head(todo)].input
        /\ CallsArePath(plan)
  <2>1. CallsArePath(request.plan) \/ CallsArePath(m_result)
    BY <1>1 DEF IInv, Optimizing, Executing, Busy
  <2>2. PICK requested, made : requested = request.plan /\ made = m_result
    OBVIOUS
  <2>3. CallsArePath(requested) \/ CallsArePath(made)
    BY <2>1, <2>2 DEF CallsArePath
  <2> QED
    BY <2>3
<1>3. /\ todo # <<>> /\ Head(todo) \in 1 .. Len(nodes) /\ input \in 1 .. Head(todo) - 1
      /\ Head(todo') = input
  BY <1>1, <1>2, VisitedInput DEF IInv
<1>4. Len(todo) \in Nat /\ Len(todo') = Len(todo) + 1 /\ Head(todo) \in Nat
  <2>1. todo \in Seq(DOMAIN nodes) /\ Len(nodes) \in Nat /\ DOMAIN nodes = 1 .. Len(nodes)
    BY TypeParts, HeapType DEF IInv, ControlOK
  <2>2. <<input>> \in Seq(DOMAIN nodes) /\ Len(<<input>>) = 1
    BY <1>3, <2>1
  <2> QED
    BY <1>1, <1>2, <1>3, <2>1, <2>2, ConcatProperties
<1>5. PathLeft = 2 * Len(todo) + 3 * Head(todo) /\ PathLeft' <= 2 * (Len(todo) + 1) + 3 * input
  <2>1. PathLeft' = 2 * Len(todo') + (IF down' THEN 3 * input ELSE 0)
    BY <1>3 DEF PathLeft
  <2> QED
    BY <1>1, <1>3, <1>4, <2>1 DEF PathLeft
<1>6. PathLeft' < PathLeft /\ PathLeft' \in Int /\ PathLeft \in Int
  <2>1. PathLeft' = 2 * Len(todo') + (IF down' THEN 3 * input ELSE 0)
    BY <1>3 DEF PathLeft
  <2> QED
    BY <1>3, <1>4, <1>5, <2>1
<1>7. DropsLeft' = DropsLeft /\ DropsLeft \in 0 .. 1
  BY <1>1 DEF DropsLeft, Prev
<1>8. PhasesLeft' = PhasesLeft
  BY <1>1 DEF PhasesLeft
<1>9. PathLeft' + DropsLeft' < PathLeft + DropsLeft
  <2>1. DropsLeft \in Int
    BY <1>7
  <2>2. ASSUME NEW a \in Int, NEW b \in Int, NEW d \in Int, a < b PROVE a + d < b + d
    BY <2>2
  <2>3. PathLeft' + DropsLeft < PathLeft + DropsLeft
    BY <1>6, <2>1, <2>2
  <2> QED
    BY <1>7, <2>3
<1> QED
  BY <1>8, <1>9 DEF UsesUp

LEMMA DropUsesUp ==
  ASSUME IInv, IInv', PassDropMaterialize
  PROVE  UsesUp
<1>1. /\ pc = "optimize" /\ Prev = "materialize" /\ m_result' = nodes[m_result].input
      /\ UNCHANGED <<nodes, user, pc, todo, down>>
  BY DEF PassDropMaterialize, Visiting, heap, calls
<1>2. m_result \in user + 1 .. Len(nodes) /\ nodes[m_result].kind = "materialize"
  <2>1. m_result # 0 /\ nodes[m_result].kind = "materialize"
    BY <1>1 DEF Prev
  <2>2. m_result \in 0 .. Len(nodes) /\ user \in Nat /\ Len(nodes) \in Nat
    BY TypeParts, HeapType DEF IInv, ControlOK
  <2> QED
    BY <2>1, <2>2 DEF IInv, MadeApart
<1>3. InputKind(m_result) = "filter"
  BY <1>2 DEF IInv, MadeJoined, Joined
<1>4. nodes[m_result'].kind = "filter"
  BY <1>1, <1>3 DEF InputKind
<1>5. DropsLeft = 1 /\ DropsLeft' = 0
  BY <1>1, <1>4 DEF DropsLeft, Prev
<1>6. PathLeft' = PathLeft /\ PathLeft \in Nat
  BY <1>1, PathLeftType DEF PathLeft, Busy
<1>7. PhasesLeft' = PhasesLeft
  BY <1>1 DEF PhasesLeft
<1>8. PathLeft' + DropsLeft' < PathLeft + DropsLeft
  BY <1>5, <1>6
<1> QED
  BY <1>7, <1>8 DEF UsesUp

LEMMA StepUsesUp ==
  ASSUME IInv, IInv', VisitInput \/ Optimize \/ Run
  PROVE  UsesUp
<1>1. DropsLeft' <= DropsLeft + 1
  BY DEF DropsLeft
<1>2. CASE PassProjection \/ PassMaterialize \/ PassJoinFilter \/ PassCopyFilter
  <2>1. /\ pc = "optimize" /\ pc' = pc /\ ~down /\ down' = down /\ todo # <<>>
        /\ todo' = Tail(todo)
    BY <1>2 DEF PassProjection, PassMaterialize, PassJoinFilter, PassCopyFilter, Visiting
  <2> QED
    BY <1>1, <2>1, NodeUsesUp DEF Busy
<1>3. ASSUME Busy, NEW what, Leave(what) PROVE UsesUp
  BY <1>3 DEF Leave, UsesUp, PhasesLeft, Busy
<1>4. CASE StartExecution
  <2>1. CASE Refused(request.table)
    BY <1>3, <1>4, <2>1 DEF StartExecution, Busy
  <2>2. CASE ~Refused(request.table)
    BY <1>4, <2>2 DEF StartExecution, UsesUp, PhasesLeft
  <2> QED
    BY <2>1, <2>2
<1>5. ASSUME pc = "execute", ~down, todo # <<>>, NEW next, Continue(next) PROVE UsesUp
  <2>1. pc' = pc /\ down' = down /\ todo' = Tail(todo)
    BY <1>5 DEF Continue
  <2> QED
    BY <1>1, <1>5, <2>1, NodeUsesUp DEF Busy
<1>6. ASSUME Busy, Crash PROVE UsesUp
  BY <1>6 DEF Crash, UsesUp, PhasesLeft, Busy
<1>7. CASE Run
  <2>1. pc = "execute" /\ Busy
    BY <1>7 DEF Run, RunProjection, RunFilter, RunMaterialize, Return, Visiting, Busy
  <2>2. CASE RunProjection
    BY <1>5, <1>6, <2>1, <2>2 DEF RunProjection, Visiting
  <2>3. CASE RunFilter
    BY <1>3, <1>5, <1>6, <2>1, <2>3, Zenon DEF RunFilter, Visiting
  <2>4. CASE RunMaterialize
    BY <1>3, <1>5, <2>1, <2>4, Zenon DEF RunMaterialize, Visiting
  <2>5. CASE Return
    BY <1>3, <2>1, <2>5, Zenon DEF Return
  <2> QED
    BY <1>7, <2>2, <2>3, <2>4, <2>5 DEF Run
<1> QED
  BY <1>2, <1>4, <1>7, VisitInputUsesUp, DropUsesUp DEF Optimize

(***************************************************************************)
(* Why execute ends: every step of the pass and of the visitor uses up     *)
(* some of what is left, the second visit of a filter for which a          *)
(* materialization was dropped included.                                   *)
(***************************************************************************)
THEOREM EveryStepUsesUp ==
  Spec => /\ [](Busy => PhasesLeft \in Nat /\ PathLeft + DropsLeft \in Nat)
          /\ [][Busy => UsesUp]_vars
<1>1. IInv => (Busy => PhasesLeft \in Nat /\ PathLeft + DropsLeft \in Nat)
  <2> SUFFICES ASSUME IInv, Busy PROVE PhasesLeft \in Nat /\ PathLeft + DropsLeft \in Nat
    OBVIOUS
  <2>1. PhasesLeft \in Nat /\ DropsLeft \in 0 .. 1 /\ PathLeft \in Nat
    BY PathLeftType
  <2> QED
    BY <2>1
<1>2. IInv /\ IInv' /\ [Next]_vars => [Busy => UsesUp]_vars
  <2>1. Busy => ~(BuildProject \/ BuildFilter \/ Execute)
    BY DEF Busy, BuildProject, BuildFilter, Execute
  <2> QED
    BY <2>1, StepUsesUp DEF Next
<1> QED
  BY Invariance, <1>1, <1>2, PTL DEF Spec
=============================================================================
