------------------------- MODULE QueryMeaningProofs -------------------------
(***************************************************************************)
(* Theorems about what plans mean, for all tables, projections and         *)
(* expressions: the pass preserves queries, and plans, pass and visitor    *)
(* implement Query.                                                        *)
(*                                                                         *)
(* Meaning is a recursive function over the nodes of a plan, and the       *)
(* answer to a query one over its operations.  That they are defined, and  *)
(* what they are, needs induction: it is taken from the well-foundedness   *)
(* of the natural numbers, for sets instead of formulas (Induction).       *)
(***************************************************************************)
EXTENDS QueryPlanProofs, WellFoundedInduction, FiniteSetTheorems

-----------------------------------------------------------------------------
LEMMA LeastNumber ==
  ASSUME NEW T \in SUBSET Nat, T # {}
  PROVE  \E n \in T : \A m \in T : n <= m
<1>1. PICK R : R = OpToRel(<, Nat)
  OBVIOUS
<1>2. \A x, y \in Nat : <<y, x>> \in R <=> y < x
  BY <1>1 DEF OpToRel
<1>3. IsWellFoundedOn(R, Nat)
  BY <1>1, NatLessThanWellFounded
<1>4. T \subseteq Nat
  OBVIOUS
<1>5. PICK n \in T : \A m \in T : ~ (<<m, n>> \in R)
  BY <1>3, <1>4, WFMin
<1>6. \A m \in T : ~ (m < n)
  BY <1>2, <1>4, <1>5
<1> QED
  BY <1>4, <1>6

\* Induction, for the set of numbers a claim is true of.
LEMMA Induction ==
  ASSUME NEW S, \A n \in Nat : (\A m \in 0 .. n - 1 : m \in S) => n \in S
  PROVE  \A n \in Nat : n \in S
<1> SUFFICES ASSUME NEW n \in Nat, n \notin S PROVE FALSE
  OBVIOUS
<1> DEFINE T == {m \in Nat : m \notin S}
<1>1. T \in SUBSET Nat /\ T # {}
  OBVIOUS
<1>2. PICK least \in T : \A m \in T : least <= m
  <2> HIDE DEF T
  <2> QED
    BY <1>1, LeastNumber
<1>3. \A m \in 0 .. least - 1 : m \in S
  BY <1>2
<1> QED
  BY <1>2, <1>3

-----------------------------------------------------------------------------
\* Heaps, that is all values of the variable nodes.
IsHeap(h) == h \in Seq(Nodes) /\ \A n \in 1 .. Len(h) : h[n].input \in 0 .. n - 1

UpTo(h, m, f) ==
  f = [n \in 0 .. m |-> IF n = 0 THEN <<>> ELSE f[h[n].input] \o NodeOps(h[n])]

LEMMA HeapIsHeap == TypeOK => IsHeap(nodes)
  BY HeapType, NodeAt DEF IsHeap

\* The recursion that gives the operations of a plan is defined ...
LEMMA UpToExists ==
  ASSUME NEW h, IsHeap(h)
  PROVE  \A m \in Nat : m <= Len(h) => \E f : UpTo(h, m, f)
<1> DEFINE S == {m \in Nat : m <= Len(h) => \E f : UpTo(h, m, f)}
<1>1. ASSUME NEW m \in Nat, \A k \in 0 .. m - 1 : k \in S, m <= Len(h)
      PROVE  \E f : UpTo(h, m, f)
  <2>1. CASE m = 0
    <3>1. PICK f : f = [n \in 0 .. 0 |-> <<>>]
      OBVIOUS
    <3>2. [n \in 0 .. 0 |-> <<>>]
            = [n \in 0 .. m |-> IF n = 0 THEN <<>> ELSE f[h[n].input] \o NodeOps(h[n])]
      BY <2>1
    <3> QED
      BY <3>1, <3>2 DEF UpTo
  <2>2. CASE m # 0
    <3>1. m - 1 \in 0 .. m - 1 /\ m - 1 <= Len(h) /\ m \in 1 .. Len(h)
      BY <1>1, <2>2 DEF IsHeap
    <3>2. PICK f : UpTo(h, m - 1, f)
      BY <1>1, <3>1
    <3>3. PICK g : g = [n \in 0 .. m |-> IF n < m THEN f[n] ELSE f[h[m].input] \o NodeOps(h[m])]
      OBVIOUS
    <3>4. ASSUME NEW n \in 0 .. m
          PROVE  g[n] = IF n = 0 THEN <<>> ELSE g[h[n].input] \o NodeOps(h[n])
      <4>1. CASE n = 0
        <5>1. n < m /\ n \in 0 .. m - 1
          BY <2>2, <4>1
        <5>2. g[n] = f[n]
          BY <3>3, <5>1
        <5>3. f[n] = <<>>
          BY <3>2, <4>1, <5>1 DEF UpTo
        <5> QED
          BY <4>1, <5>2, <5>3
      <4>2. CASE n # 0
        <5>1. h[n].input \in 0 .. n - 1
          BY <3>1, <4>2 DEF IsHeap
        <5>2. g[h[n].input] = f[h[n].input]
          BY <3>3, <5>1
        <5>3. CASE n = m
          <6>1. ~(n < m)
            BY <5>3
          <6>2. g[n] = f[h[n].input] \o NodeOps(h[n])
            BY <3>3, <5>3, <6>1
          <6> QED
            BY <4>2, <5>2, <6>2
        <5>4. CASE n # m
          <6>1. n \in 0 .. m - 1 /\ g[n] = f[n]
            BY <3>3, <5>4
          <6>2. f[n] = f[h[n].input] \o NodeOps(h[n])
            BY <3>2, <4>2, <6>1 DEF UpTo
          <6> QED
            BY <4>2, <5>2, <6>1, <6>2
        <5> QED
          BY <5>3, <5>4
      <4> QED
        BY <4>1, <4>2
    <3> QED
      BY <3>3, <3>4 DEF UpTo
  <2> QED
    BY <2>1, <2>2
<1>2. \A m \in Nat : (\A k \in 0 .. m - 1 : k \in S) => m \in S
  BY <1>1
<1>3. \A m \in Nat : m \in S
  <2> HIDE DEF S
  <2> QED
    BY <1>2, Induction
<1> QED
  BY <1>3

\* ... and gives the operations of a node's input and then its own.
LEMMA OpsInNode ==
  ASSUME NEW h, IsHeap(h)
  PROVE  /\ OpsIn(h, 0) = <<>>
         /\ \A n \in 1 .. Len(h) : OpsIn(h, n) = OpsIn(h, h[n].input) \o NodeOps(h[n])
<1>1. Len(h) \in Nat /\ Len(h) <= Len(h)
  BY DEF IsHeap
<1> DEFINE g == CHOOSE f : UpTo(h, Len(h), f)
<1>2. UpTo(h, Len(h), g)
  BY <1>1, UpToExists, Zenon
<1>3. \A n : OpsIn(h, n) = g[n]
  BY Zenon DEF OpsIn, UpTo
<1> HIDE DEF g
<1>4. g[0] = <<>>
  BY <1>1, <1>2 DEF UpTo
<1>5. ASSUME NEW n \in 1 .. Len(h) PROVE g[n] = g[h[n].input] \o NodeOps(h[n])
  <2>1. n \in 0 .. Len(h) /\ n # 0
    BY <1>1
  <2> QED
    BY <1>2, <2>1, Zenon DEF UpTo
<1> QED
  BY <1>3, <1>4, <1>5

-----------------------------------------------------------------------------
Ops == Abstract!Operations

\* The operations of a node are operations; a filter has one for each expression.
LEMMA NodeOpsType ==
  ASSUME NEW node \in Nodes
  PROVE  /\ NodeOps(node) \in Seq(Ops)
         /\ node.kind = "projection" => NodeOps(node) = <<[op |-> "project", fields |-> node.fields]>>
         /\ node.kind = "materialize" => NodeOps(node) = <<>>
         /\ node.kind = "filter" => /\ Len(NodeOps(node)) = Len(node.exprs)
                                    /\ node.exprs \in Seq(Exprs) \ {<<>>}
                                    /\ \A i \in 1 .. Len(node.exprs) :
                                         NodeOps(node)[i] = [op |-> "filter", expr |-> node.exprs[i]]
<1>1. CASE node.kind = "projection"
  <2>1. NodeOps(node) = <<[op |-> "project", fields |-> node.fields]>>
    BY <1>1 DEF NodeOps
  <2>2. node.fields \in Projections
    BY <1>1 DEF Nodes
  <2>3. [op |-> "project", fields |-> node.fields] \in Ops
    BY <2>2 DEF Ops, Abstract!Operations
  <2> QED
    BY <1>1, <2>1, <2>3
<1>2. CASE node.kind = "materialize"
  BY <1>2 DEF NodeOps
<1>3. CASE node.kind = "filter"
  <2>1. node.exprs \in Seq(Exprs) \ {<<>>}
    BY <1>3 DEF Nodes
  <2>2. NodeOps(node) = [i \in 1 .. Len(node.exprs) |-> [op |-> "filter", expr |-> node.exprs[i]]]
    BY <1>3, <2>1 DEF NodeOps
  <2>3. \A i \in 1 .. Len(node.exprs) : [op |-> "filter", expr |-> node.exprs[i]] \in Ops
    BY <2>1 DEF Ops, Abstract!Operations
  <2>4. NodeOps(node) \in Seq(Ops) /\ Len(NodeOps(node)) = Len(node.exprs)
    BY <2>1, <2>2, <2>3
  <2> QED
    BY <1>3, <2>1, <2>2, <2>4
<1> QED
  BY <1>1, <1>2, <1>3 DEF Nodes

LEMMA OpsInType ==
  ASSUME NEW h, IsHeap(h)
  PROVE  \A n \in 0 .. Len(h) : OpsIn(h, n) \in Seq(Ops)
<1> DEFINE S == {n \in Nat : n <= Len(h) => OpsIn(h, n) \in Seq(Ops)}
<1>1. ASSUME NEW n \in Nat, \A k \in 0 .. n - 1 : k \in S, n <= Len(h)
      PROVE  OpsIn(h, n) \in Seq(Ops)
  <2>1. CASE n = 0
    <3>1. OpsIn(h, n) = <<>>
      BY <2>1, OpsInNode
    <3> QED
      BY <3>1
  <2>2. CASE n # 0
    <3>1. n \in 1 .. Len(h) /\ h[n] \in Nodes /\ h[n].input \in 0 .. n - 1 /\ Len(h) \in Nat
      BY <1>1, <2>2 DEF IsHeap
    <3>2. OpsIn(h, h[n].input) \in Seq(Ops)
      BY <1>1, <3>1
    <3>3. OpsIn(h, n) = OpsIn(h, h[n].input) \o NodeOps(h[n])
      BY <3>1, OpsInNode
    <3> QED
      BY <3>1, <3>2, <3>3, NodeOpsType, ConcatProperties
  <2> QED
    BY <2>1, <2>2
<1>2. \A n \in Nat : (\A k \in 0 .. n - 1 : k \in S) => n \in S
  BY <1>1
<1>3. \A n \in Nat : n \in S
  <2> HIDE DEF S
  <2> QED
    BY <1>2, Induction
<1>4. Len(h) \in Nat
  BY DEF IsHeap
<1> QED
  BY <1>3, <1>4

\* Plans mean the same on two heaps that agree on their nodes.
LEMMA OpsInKept ==
  ASSUME NEW h, NEW g, IsHeap(h), IsHeap(g), NEW m \in Nat, m <= Len(h), m <= Len(g),
         \A n \in 1 .. m : h[n] = g[n]
  PROVE  \A n \in 0 .. m : OpsIn(h, n) = OpsIn(g, n)
<1> DEFINE S == {n \in Nat : n <= m => OpsIn(h, n) = OpsIn(g, n)}
<1>1. ASSUME NEW n \in Nat, \A k \in 0 .. n - 1 : k \in S, n <= m
      PROVE  OpsIn(h, n) = OpsIn(g, n)
  <2>1. CASE n = 0
    BY <2>1, OpsInNode
  <2>2. CASE n # 0
    <3>1. /\ n \in 1 .. Len(h) /\ n \in 1 .. Len(g) /\ h[n] = g[n]
          /\ h[n].input \in 0 .. n - 1
      BY <1>1, <2>2 DEF IsHeap
    <3>2. OpsIn(h, h[n].input) = OpsIn(g, h[n].input)
      BY <1>1, <3>1
    <3>3. OpsIn(h, n) = OpsIn(h, h[n].input) \o NodeOps(h[n])
      BY <3>1, OpsInNode
    <3>4. OpsIn(g, n) = OpsIn(g, g[n].input) \o NodeOps(g[n])
      BY <3>1, OpsInNode
    <3> QED
      BY <3>1, <3>2, <3>3, <3>4
  <2> QED
    BY <2>1, <2>2
<1>2. \A n \in Nat : (\A k \in 0 .. n - 1 : k \in S) => n \in S
  BY <1>1
<1>3. \A n \in Nat : n \in S
  <2> HIDE DEF S
  <2> QED
    BY <1>2, Induction
<1> QED
  BY <1>3

\* The same of the values of nodes before and after a step.
LEMMA OpsOfIn == /\ \A n : OpsOf(n) = OpsIn(nodes, n)
                 /\ \A n : OpsOf(n)' = OpsIn(nodes', n)
  BY Zenon DEF OpsOf

LEMMA OpsOfNode ==
  ASSUME TypeOK
  PROVE  /\ OpsOf(0) = <<>>
         /\ \A n \in 1 .. Len(nodes) : OpsOf(n) = OpsOf(nodes[n].input) \o NodeOps(nodes[n])
         /\ \A n \in 0 .. Len(nodes) : OpsOf(n) \in Seq(Ops)
<1>1. PICK h : h = nodes
  OBVIOUS
<1>2. IsHeap(h)
  BY <1>1, HeapIsHeap
<1>3. \A n : OpsOf(n) = OpsIn(h, n)
  BY <1>1, OpsOfIn
<1>4. OpsIn(h, 0) = <<>> /\ \A n \in 1 .. Len(h) : OpsIn(h, n) = OpsIn(h, h[n].input) \o NodeOps(h[n])
  BY <1>2, OpsInNode
<1>5. \A n \in 0 .. Len(h) : OpsIn(h, n) \in Seq(Ops)
  BY <1>2, OpsInType
<1> QED
  BY <1>1, <1>3, <1>4, <1>5

LEMMA NextHeapIsHeap ==
  ASSUME TypeOK', NEW g, g = nodes'
  PROVE  IsHeap(g)
<1>1. g \in Seq(Nodes) /\ \A n \in DOMAIN g : g[n].input < n
  BY Zenon DEF TypeOK
<1>2. \A n \in 1 .. Len(g) : g[n] \in Nodes /\ n \in DOMAIN g
  BY <1>1
<1>3. \A n \in 1 .. Len(g) : g[n].input \in Nat
  BY <1>2 DEF Nodes
<1> QED
  BY <1>1, <1>2, <1>3 DEF IsHeap

LEMMA OpsInNext ==
  ASSUME TypeOK'
  PROVE  /\ OpsIn(nodes', 0) = <<>>
         /\ \A n \in 1 .. Len(nodes') :
              OpsIn(nodes', n) = OpsIn(nodes', nodes'[n].input) \o NodeOps(nodes'[n])
<1>1. PICK g : g = nodes'
  OBVIOUS
<1>2. IsHeap(g)
  BY <1>1, NextHeapIsHeap
<1> QED
  BY <1>1, <1>2, OpsInNode

LEMMA OpsOfKept ==
  ASSUME TypeOK, TypeOK', NEW m \in Nat, m <= Len(nodes), m <= Len(nodes'),
         \A n \in 1 .. m : nodes'[n] = nodes[n]
  PROVE  \A n \in 0 .. m : OpsIn(nodes', n) = OpsIn(nodes, n)
<1>1. PICK h, g : h = nodes /\ g = nodes'
  OBVIOUS
<1>2. IsHeap(h) /\ IsHeap(g)
  BY <1>1, HeapIsHeap, NextHeapIsHeap
<1>3. \A n \in 0 .. m : OpsIn(h, n) = OpsIn(g, n)
  BY <1>1, <1>2, OpsInKept
<1> QED
  BY <1>1, <1>3
-----------------------------------------------------------------------------
(***************************************************************************)
(* The operations of the active calls, which form a path.                  *)
(***************************************************************************)
IsPath(h, t) ==
  /\ t \in Seq(1 .. Len(h)) /\ t # <<>>
  /\ \A k \in 1 .. Len(t) - 1 : h[t[k + 1]].input = t[k]

RestFrom(h, t, m, f) ==
  f = [k \in m .. Len(t) + 1 |-> IF k > Len(t) THEN <<>> ELSE NodeOps(h[t[k]]) \o f[k + 1]]

LEMMA RestExists ==
  ASSUME NEW h, IsHeap(h), NEW t \in Seq(1 .. Len(h))
  PROVE  \A n \in Nat : n <= Len(t) => \E f : RestFrom(h, t, Len(t) + 1 - n, f)
<1> DEFINE S == {n \in Nat : n <= Len(t) => \E f : RestFrom(h, t, Len(t) + 1 - n, f)}
<1>1. ASSUME NEW n \in Nat, \A k \in 0 .. n - 1 : k \in S, n <= Len(t)
      PROVE  \E f : RestFrom(h, t, Len(t) + 1 - n, f)
  <2>1. Len(t) \in Nat
    OBVIOUS
  <2>2. CASE n = 0
    <3>1. PICK m : m = Len(t) + 1 - n
      OBVIOUS
    <3>2. \A k \in m .. Len(t) + 1 : k > Len(t)
      BY <2>1, <2>2, <3>1
    <3>3. PICK f : f = [k \in m .. Len(t) + 1 |-> <<>>]
      OBVIOUS
    <3>4. RestFrom(h, t, m, f)
      BY <3>2, <3>3, Zenon DEF RestFrom
    <3> QED
      BY <3>1, <3>4
  <2>3. CASE n # 0
    <3>1. PICK m : m = Len(t) + 1 - n
      OBVIOUS
    <3>2. /\ n - 1 \in 0 .. n - 1 /\ n - 1 <= Len(t) /\ m \in 1 .. Len(t)
          /\ Len(t) + 1 - (n - 1) = m + 1
      BY <1>1, <2>1, <2>3, <3>1
    <3>3. PICK f : RestFrom(h, t, m + 1, f)
      BY <1>1, <3>2
    <3>4. PICK g : g = [k \in m .. Len(t) + 1 |->
                          IF k = m THEN NodeOps(h[t[m]]) \o f[m + 1] ELSE f[k]]
      OBVIOUS
    <3>5. ASSUME NEW k \in m .. Len(t) + 1
          PROVE  g[k] = IF k > Len(t) THEN <<>> ELSE NodeOps(h[t[k]]) \o g[k + 1]
      <4>1. CASE k = m
        <5>1. g[k + 1] = f[k + 1]
          BY <2>1, <3>2, <3>4, <4>1
        <5>2. g[k] = NodeOps(h[t[k]]) \o f[k + 1]
          BY <3>4, <4>1, Zenon
        <5>3. ~(k > Len(t))
          BY <2>1, <3>2, <4>1
        <5> QED
          BY <5>1, <5>2, <5>3, Zenon
      <4>2. CASE k # m
        <5>1. k \in m + 1 .. Len(t) + 1 /\ g[k] = f[k]
          BY <2>1, <3>2, <3>4, <4>2
        <5>2. f[k] = IF k > Len(t) THEN <<>> ELSE NodeOps(h[t[k]]) \o f[k + 1]
          BY <3>3, <5>1, Zenon DEF RestFrom
        <5>3. k <= Len(t) => g[k + 1] = f[k + 1]
          BY <2>1, <3>2, <3>4, <5>1
        <5>4. CASE k > Len(t)
          BY <5>1, <5>2, <5>4, Zenon
        <5>5. CASE ~(k > Len(t))
          <6>1. g[k + 1] = f[k + 1]
            BY <2>1, <5>1, <5>3, <5>5
          <6> QED
            BY <5>1, <5>2, <5>5, <6>1
        <5> QED
          BY <5>4, <5>5
      <4> QED
        BY <4>1, <4>2
    <3> QED
      BY <3>1, <3>4, <3>5 DEF RestFrom
  <2> QED
    BY <2>2, <2>3
<1>2. \A n \in Nat : (\A k \in 0 .. n - 1 : k \in S) => n \in S
  BY <1>1
<1>3. \A n \in Nat : n \in S
  <2> HIDE DEF S
  <2> QED
    BY <1>2, Induction
<1> QED
  BY <1>3

\* The plan at the end of a path is what precedes the path, and the path.
SplitsPath(h, t, f, k) ==
  /\ f[k] \in Seq(Ops) /\ f[k + 1] \in Seq(Ops)
  /\ f[k] = NodeOps(h[t[k]]) \o f[k + 1]
  /\ OpsIn(h, t[Len(t)]) = OpsIn(h, h[t[k]].input) \o f[k]

LEMMA RestOnPath ==
  ASSUME NEW h, IsHeap(h), NEW t, IsPath(h, t), NEW f, RestFrom(h, t, 1, f), NEW k \in 1 .. Len(t)
  PROVE  SplitsPath(h, t, f, k)
<1> DEFINE S == {n \in Nat : n < Len(t) =>
                   /\ f[Len(t) - n] \in Seq(Ops) /\ f[Len(t) - n + 1] \in Seq(Ops)
                   /\ f[Len(t) - n] = NodeOps(h[t[Len(t) - n]]) \o f[Len(t) - n + 1]
                   /\ OpsIn(h, t[Len(t)]) = OpsIn(h, h[t[Len(t) - n]].input) \o f[Len(t) - n]}
<1>1. Len(t) \in Nat \ {0} /\ Len(h) \in Nat /\ t \in Seq(1 .. Len(h))
  BY DEF IsPath, IsHeap
<1>2. f[Len(t) + 1] = <<>>
  BY <1>1 DEF RestFrom
<1>3. \A i \in 1 .. Len(t) : f[i] = NodeOps(h[t[i]]) \o f[i + 1]
  <2> SUFFICES ASSUME NEW i \in 1 .. Len(t) PROVE f[i] = NodeOps(h[t[i]]) \o f[i + 1]
    OBVIOUS
  <2>1. i \in 1 .. Len(t) + 1 /\ ~(i > Len(t))
    BY <1>1
  <2> QED
    BY <2>1, Zenon DEF RestFrom
<1>4. ASSUME NEW i \in 1 .. Len(t)
      PROVE  /\ t[i] \in 1 .. Len(h) /\ NodeOps(h[t[i]]) \in Seq(Ops)
             /\ h[t[i]].input \in 0 .. Len(h) /\ OpsIn(h, h[t[i]].input) \in Seq(Ops)
             /\ OpsIn(h, t[i]) = OpsIn(h, h[t[i]].input) \o NodeOps(h[t[i]])
  <2>1. t[i] \in 1 .. Len(h)
    BY <1>1
  <2>2. h[t[i]] \in Nodes /\ h[t[i]].input \in 0 .. Len(h)
    BY <1>1, <2>1 DEF IsHeap
  <2> QED
    BY <2>1, <2>2, NodeOpsType, OpsInType, OpsInNode
<1>5. ASSUME NEW n \in Nat, \A j \in 0 .. n - 1 : j \in S, n < Len(t),
             NEW i, i = Len(t) - n
      PROVE  /\ f[i] \in Seq(Ops) /\ f[i + 1] \in Seq(Ops)
             /\ f[i] = NodeOps(h[t[i]]) \o f[i + 1]
             /\ OpsIn(h, t[Len(t)]) = OpsIn(h, h[t[i]].input) \o f[i]
  <2>1. i \in 1 .. Len(t)
    BY <1>1, <1>5
  <2>2. f[i] = NodeOps(h[t[i]]) \o f[i + 1]
    BY <1>3, <2>1
  <2>3. CASE n = 0
    <3>1. i = Len(t) /\ f[i + 1] = <<>>
      BY <1>1, <1>2, <1>5, <2>3
    <3>2. f[i + 1] \in Seq(Ops)
      BY <3>1
    <3>3. f[i] = NodeOps(h[t[i]])
      BY <1>4, <2>1, <2>2, <3>1, ConcatEmptySeq
    <3>4. f[i] \in Seq(Ops) /\ OpsIn(h, t[i]) = OpsIn(h, h[t[i]].input) \o f[i]
      BY <1>4, <2>1, <3>3
    <3> QED
      BY <2>2, <3>1, <3>2, <3>4
  <2>4. CASE n # 0
    <3>1. n - 1 \in 0 .. n - 1 /\ Len(t) - (n - 1) = i + 1 /\ n - 1 < Len(t) /\ i + 1 \in 1 .. Len(t)
          /\ i \in 1 .. Len(t) - 1
      BY <1>1, <1>5, <2>4
    <3>2. /\ f[i + 1] \in Seq(Ops)
          /\ OpsIn(h, t[Len(t)]) = OpsIn(h, h[t[i + 1]].input) \o f[i + 1]
      BY <1>5, <3>1
    <3>3. h[t[i + 1]].input = t[i]
      BY <3>1 DEF IsPath
    <3>4. OpsIn(h, t[i]) = OpsIn(h, h[t[i]].input) \o NodeOps(h[t[i]])
      BY <1>4, <2>1
    <3>5. OpsIn(h, t[Len(t)]) = OpsIn(h, h[t[i]].input) \o (NodeOps(h[t[i]]) \o f[i + 1])
      <4>1. PICK before, own, after :
              before = OpsIn(h, h[t[i]].input) /\ own = NodeOps(h[t[i]]) /\ after = f[i + 1]
        OBVIOUS
      <4>2. before \in Seq(Ops) /\ own \in Seq(Ops) /\ after \in Seq(Ops)
        BY <1>4, <2>1, <3>2, <4>1
      <4>3. OpsIn(h, t[Len(t)]) = (before \o own) \o after
        BY <3>2, <3>3, <3>4, <4>1
      <4>4. OpsIn(h, t[Len(t)]) = before \o (own \o after)
        BY <4>2, <4>3, ConcatAssociative
      <4> QED
        BY <4>1, <4>4
    <3>6. f[i] \in Seq(Ops)
      BY <1>4, <2>1, <2>2, <3>2, ConcatProperties
    <3> QED
      BY <2>2, <3>2, <3>5, <3>6
  <2> QED
    BY <2>3, <2>4
<1>6. \A n \in Nat : (\A j \in 0 .. n - 1 : j \in S) => n \in S
  BY <1>5
<1>7. \A n \in Nat : n \in S
  <2> HIDE DEF S
  <2> QED
    BY <1>6, Induction
<1>8. Len(t) - k \in Nat /\ Len(t) - k < Len(t) /\ Len(t) - (Len(t) - k) = k
  BY <1>1
<1>9. Len(t) - k \in S
  BY <1>7, <1>8, Zenon
<1> QED
  BY <1>8, <1>9 DEF SplitsPath

LEMMA OpsToDoFirst ==
  ASSUME NEW h, IsHeap(h), NEW t \in Seq(1 .. Len(h)), h = nodes, t = todo
  PROVE  \E f : RestFrom(h, t, 1, f) /\ OpsToDo = f[1]
<1> DEFINE g == CHOOSE f : RestFrom(h, t, 1, f)
<1>1. RestFrom(h, t, 1, g)
  <2>1. Len(t) \in Nat /\ Len(t) <= Len(t) /\ Len(t) + 1 - Len(t) = 1
    OBVIOUS
  <2>2. \E f : RestFrom(h, t, Len(t) + 1 - Len(t), f)
    BY <2>1, RestExists
  <2>3. \E f : RestFrom(h, t, 1, f)
    BY <2>1, <2>2
  <2> QED
    BY <2>3, Zenon
<1>2. OpsToDo = g[1]
  BY Zenon DEF OpsToDo, RestFrom
<1> QED
  BY <1>1, <1>2, Zenon

LEMMA NothingToDo == TypeOK /\ todo = <<>> => OpsToDo = <<>>
<1> SUFFICES ASSUME TypeOK, todo = <<>> PROVE OpsToDo = <<>>
  OBVIOUS
<1>1. PICK h, t : h = nodes /\ t = todo
  OBVIOUS
<1>2. IsHeap(h) /\ t \in Seq(1 .. Len(h)) /\ Len(t) = 0
  BY <1>1, HeapIsHeap
<1>3. PICK f : RestFrom(h, t, 1, f) /\ OpsToDo = f[1]
  BY <1>1, <1>2, OpsToDoFirst
<1>4. f[1] = <<>>
  BY <1>2, <1>3 DEF RestFrom
<1> QED
  BY <1>3, <1>4

\* The plan visited is what precedes the innermost call, its node, and the rest.
LEMMA OpsOnPath ==
  ASSUME TypeOK, NEW plan, CallsArePath(plan), todo # <<>>
  PROVE  /\ Head(todo) \in 1 .. Len(nodes)
         /\ OpsOf(plan) = OpsOf(nodes[Head(todo)].input) \o OpsToDo
         /\ \E rest \in Seq(Ops) : OpsOf(plan) = OpsOf(Head(todo)) \o rest
<1>1. PICK h, t : h = nodes /\ t = todo
  OBVIOUS
<1>2. IsHeap(h)
  BY <1>1, HeapIsHeap
<1>3. IsPath(h, t)
  <2>1. todo \in Seq(DOMAIN nodes) /\ DOMAIN nodes = 1 .. Len(nodes)
    BY HeapType, TypeParts DEF ControlOK
  <2> QED
    BY <1>1, <2>1 DEF IsPath, CallsArePath
<1>0. t[Len(t)] = plan
  BY <1>1 DEF CallsArePath
<1>4. PICK f : RestFrom(h, t, 1, f) /\ OpsToDo = f[1]
  BY <1>1, <1>2, <1>3, OpsToDoFirst DEF IsPath
<1>5. /\ f[1] \in Seq(Ops) /\ f[1 + 1] \in Seq(Ops) /\ f[1] = NodeOps(h[t[1]]) \o f[1 + 1]
      /\ OpsIn(h, t[Len(t)]) = OpsIn(h, h[t[1]].input) \o f[1]
      /\ t[1] \in 1 .. Len(h) /\ Head(t) = t[1]
  <2>1. 1 \in 1 .. Len(t) /\ t[1] \in 1 .. Len(h) /\ Head(t) = t[1]
    BY <1>3 DEF IsPath
  <2>2. PICK k \in 1 .. Len(t) : k = 1
    BY <2>1
  <2>3. /\ f[k] \in Seq(Ops) /\ f[k + 1] \in Seq(Ops) /\ f[k] = NodeOps(h[t[k]]) \o f[k + 1]
        /\ OpsIn(h, t[Len(t)]) = OpsIn(h, h[t[k]].input) \o f[k]
    <3>1. RestFrom(h, t, 1, f)
      BY <1>4
    <3>2. SplitsPath(h, t, f, k)
      BY <1>2, <1>3, <3>1, RestOnPath, Zenon
    <3> QED
      BY <3>2, Zenon DEF SplitsPath
  <2> QED
    BY <2>1, <2>2, <2>3, Zenon
<1>6. OpsIn(h, t[Len(t)]) = OpsIn(h, t[1]) \o f[1 + 1]
  <2>1. PICK before, own, after :
          before = OpsIn(h, h[t[1]].input) /\ own = NodeOps(h[t[1]]) /\ after = f[1 + 1]
    OBVIOUS
  <2>2. before \in Seq(Ops) /\ own \in Seq(Ops) /\ after \in Seq(Ops)
    <3>1. h[t[1]] \in Nodes /\ h[t[1]].input \in 0 .. Len(h)
      BY <1>2, <1>5 DEF IsHeap
    <3> QED
      BY <1>2, <1>5, <2>1, <3>1, OpsInType, NodeOpsType
  <2>3. OpsIn(h, t[1]) = before \o own
    BY <1>2, <1>5, <2>1, OpsInNode
  <2>4. OpsIn(h, t[Len(t)]) = before \o (own \o after)
    BY <1>5, <2>1
  <2>5. (before \o own) \o after = before \o (own \o after)
    BY <2>2, ConcatAssociative
  <2> QED
    BY <2>1, <2>3, <2>4, <2>5, Zenon
<1>7. \A n : OpsOf(n) = OpsIn(h, n)
  BY <1>1, OpsOfIn
<1> QED
  BY <1>0, <1>1, <1>4, <1>5, <1>6, <1>7
-----------------------------------------------------------------------------
(***************************************************************************)
(* The pass keeps what the plan means.                                     *)
(***************************************************************************)
LEMMA DoneParts ==
  /\ PassMeans <=>
       /\ pc = "optimize" /\ ~down =>
            OpsIn(nodes, m_result) = IF todo = <<>> THEN OpsIn(nodes, request.plan)
                                     ELSE OpsIn(nodes, nodes[Head(todo)].input)
       /\ pc = "execute" => OpsIn(nodes, m_result) = OpsIn(nodes, request.plan)
  /\ PassMeans' <=>
       /\ pc' = "optimize" /\ ~down' =>
            OpsIn(nodes', m_result') = IF todo' = <<>> THEN OpsIn(nodes', request'.plan)
                                       ELSE OpsIn(nodes', nodes'[Head(todo')].input)
       /\ pc' = "execute" => OpsIn(nodes', m_result') = OpsIn(nodes', request'.plan)
<1>1. PassMeans <=>
       /\ pc = "optimize" /\ ~down =>
            OpsIn(nodes, m_result) = IF todo = <<>> THEN OpsIn(nodes, request.plan)
                                     ELSE OpsIn(nodes, nodes[Head(todo)].input)
       /\ pc = "execute" => OpsIn(nodes, m_result) = OpsIn(nodes, request.plan)
  BY Zenon DEF PassMeans, OpsDone, OpsOf
<1>2. PassMeans' <=>
       /\ pc' = "optimize" /\ ~down' =>
            OpsIn(nodes', m_result') = IF todo' = <<>> THEN OpsIn(nodes', request'.plan)
                                       ELSE OpsIn(nodes', nodes'[Head(todo')].input)
       /\ pc' = "execute" => OpsIn(nodes', m_result') = OpsIn(nodes', request'.plan)
  BY Zenon DEF PassMeans, OpsDone, OpsOf
<1> QED
  BY <1>1, <1>2, Zenon

\* A node is translated: the plan made so far gets the operations of the node.
LEMMA TranslatedMeans ==
  ASSUME IInv, IInv', PassMeans, pc = "optimize", ~down, todo # <<>>,
         pc' = pc, request' = request, user' = user, todo' = Tail(todo),
         \A n \in 1 .. user : nodes'[n] = nodes[n],
         OpsIn(nodes', m_result') = OpsIn(nodes, m_result) \o NodeOps(Node)
  PROVE  PassMeans'
<1>1. TypeOK /\ TypeOK' /\ Optimizing
  BY DEF IInv
<1>2. CallsArePath(request.plan) /\ \A k \in DOMAIN todo : todo[k] <= user
  BY <1>1 DEF Optimizing
<1>3. PICK plan : plan = request.plan
  OBVIOUS
<1>4. /\ Head(todo) \in 1 .. Len(nodes) /\ \E j \in DOMAIN todo : Head(todo) = todo[j]
      /\ \A k \in DOMAIN todo' : \E j \in DOMAIN todo : todo'[k] = todo[j]
      /\ \A k \in DOMAIN todo' : todo'[k] \in 1 .. Len(nodes)
      /\ todo' # <<>> => /\ 1 \in DOMAIN todo' /\ Head(todo') = todo'[1]
                         /\ nodes[Head(todo')].input = Head(todo)
      /\ todo' = <<>> => Head(todo) = plan
  BY <1>1, <1>2, <1>3, Unwound
<1>5. /\ user \in Nat /\ user <= Len(nodes) /\ user <= Len(nodes')
  <2>1. user \in 0 .. Len(nodes) /\ Len(nodes) \in Nat
    BY <1>1, HeapType
  <2>2. user' \in 0 .. Len(nodes')
    BY <1>1, TypeParts DEF HeapOK
  <2> QED
    BY <2>1, <2>2
<1>6. \A n \in 0 .. user : OpsIn(nodes', n) = OpsIn(nodes, n)
  BY <1>1, <1>5, OpsOfKept
<1>7. Head(todo) \in 1 .. user
  BY <1>2, <1>4, <1>5
<1>8. OpsIn(nodes', m_result') = OpsIn(nodes', Head(todo))
  <2>1. OpsIn(nodes, m_result) = OpsIn(nodes, Node.input)
    BY DoneParts, Zenon DEF Node
  <2>2. OpsIn(nodes, Head(todo)) = OpsIn(nodes, Node.input) \o NodeOps(Node)
    BY <1>1, <1>4, OpsOfNode DEF OpsOf, Node
  <2> QED
    BY <1>6, <1>7, <2>1, <2>2
<1>9. CASE todo' = <<>>
  BY <1>3, <1>4, <1>8, <1>9, DoneParts
<1>10. CASE todo' # <<>>
  <2>1. Head(todo') \in 1 .. user /\ nodes[Head(todo')].input = Head(todo)
    <3>1. PICK j \in DOMAIN todo : todo'[1] = todo[j]
      BY <1>4, <1>10
    <3>2. todo'[1] <= user /\ todo'[1] \in 1 .. Len(nodes)
      BY <1>2, <1>4, <1>10, <3>1
    <3> QED
      BY <1>4, <1>5, <1>10, <3>2
  <2>2. nodes'[Head(todo')].input = Head(todo)
    BY <2>1
  <2> QED
    BY <1>8, <1>10, <2>2, DoneParts
<1> QED
  BY <1>9, <1>10

\* The nodes of the user before and after a step of the pass that adds a node.
LEMMA NewResultMeans ==
  ASSUME IInv, IInv', PassMeans, pc = "optimize", ~down, todo # <<>>,
         UNCHANGED <<user, plans, pc, request, down, ctx, answer>>, todo' = Tail(todo),
         NEW node \in Nodes, node.input = m_result, NodeOps(node) = NodeOps(Node),
         nodes' = Append(nodes, node), m_result' = Len(nodes')
  PROVE  PassMeans'
<1>1. TypeOK /\ TypeOK'
  BY DEF IInv
<1>2. Len(nodes) \in Nat /\ user \in 0 .. Len(nodes) /\ m_result \in 0 .. Len(nodes)
  BY <1>1, HeapType, TypeParts DEF ControlOK
<1>3. /\ Len(nodes') = Len(nodes) + 1
      /\ \A n \in 1 .. Len(nodes) : nodes'[n] = nodes[n]
      /\ nodes'[Len(nodes) + 1] = node
  BY <1>1, <1>2, Allocated
<1>4. OpsIn(nodes', m_result) = OpsIn(nodes, m_result)
  BY <1>1, <1>2, <1>3, OpsOfKept
<1>5. m_result' \in 1 .. Len(nodes') /\ nodes'[m_result'] = node
  BY <1>2, <1>3
<1>6. OpsIn(nodes', m_result') = OpsIn(nodes', node.input) \o NodeOps(node)
  BY <1>1, <1>5, OpsInNext
<1>7. \A n \in 1 .. user : nodes'[n] = nodes[n]
  BY <1>2, <1>3
<1> QED
  BY <1>4, <1>6, <1>7, TranslatedMeans
\* What a node does is in its kind, fields and expressions.
LEMMA SameOps ==
  ASSUME NEW a \in Nodes, NEW b \in Nodes, a.kind = b.kind,
         a.kind = "projection" => a.fields = b.fields,
         a.kind = "filter" => a.exprs = b.exprs
  PROVE  NodeOps(a) = NodeOps(b)
<1>1. CASE a.kind = "projection"
  BY <1>1, NodeOpsType
<1>2. CASE a.kind = "materialize"
  BY <1>2, NodeOpsType
<1>3. CASE a.kind = "filter"
  <2>1. /\ NodeOps(a) \in Seq(Ops) /\ Len(NodeOps(a)) = Len(a.exprs) /\ a.exprs \in Seq(Exprs)
        /\ \A i \in 1 .. Len(a.exprs) : NodeOps(a)[i] = [op |-> "filter", expr |-> a.exprs[i]]
    BY <1>3, NodeOpsType
  <2>2. /\ NodeOps(b) \in Seq(Ops) /\ Len(NodeOps(b)) = Len(a.exprs)
        /\ \A i \in 1 .. Len(a.exprs) : NodeOps(b)[i] = [op |-> "filter", expr |-> a.exprs[i]]
    BY <1>3, NodeOpsType
  <2>3. PICK opsA, opsB : opsA = NodeOps(a) /\ opsB = NodeOps(b)
    OBVIOUS
  <2>4. /\ opsA \in Seq(Ops) /\ opsB \in Seq(Ops) /\ Len(opsA) = Len(opsB)
        /\ \A i \in 1 .. Len(opsA) : opsA[i] = opsB[i]
    BY <2>1, <2>2, <2>3
  <2> QED
    BY <2>3, <2>4, SeqEqual
<1> QED
  BY <1>1, <1>2, <1>3 DEF Nodes

\* A filter with the expressions of two does what they do, one after the other.
LEMMA JoinedOps ==
  ASSUME NEW a \in Nodes, NEW b \in Nodes, NEW c \in Nodes,
         a.kind = "filter", b.kind = "filter", c.kind = "filter", c.exprs = a.exprs \o b.exprs
  PROVE  NodeOps(c) = NodeOps(a) \o NodeOps(b)
<1>1. PICK x, y : x = a.exprs /\ y = b.exprs
  OBVIOUS
<1>2. x \in Seq(Exprs) /\ y \in Seq(Exprs)
  BY <1>1, NodeOpsType
<1>3. PICK p, q, both : p = NodeOps(a) /\ q = NodeOps(b) /\ both = NodeOps(c)
  OBVIOUS
<1>4. /\ p \in Seq(Ops) /\ Len(p) = Len(x)
      /\ \A i \in 1 .. Len(x) : p[i] = [op |-> "filter", expr |-> x[i]]
  BY <1>1, <1>3, NodeOpsType
<1>5. /\ q \in Seq(Ops) /\ Len(q) = Len(y)
      /\ \A i \in 1 .. Len(y) : q[i] = [op |-> "filter", expr |-> y[i]]
  BY <1>1, <1>3, NodeOpsType
<1>6. PICK z : z = x \o y
  OBVIOUS
<1>7. /\ both \in Seq(Ops) /\ Len(both) = Len(z)
      /\ \A i \in 1 .. Len(z) : both[i] = [op |-> "filter", expr |-> z[i]]
  BY <1>1, <1>3, <1>6, NodeOpsType, ZenonT(60)
<1>8. /\ Len(z) = Len(x) + Len(y)
      /\ \A i \in 1 .. Len(x) + Len(y) : z[i] = IF i <= Len(x) THEN x[i] ELSE y[i - Len(x)]
  BY <1>2, <1>6, ConcatProperties
<1>9. PICK s : s = p \o q
  OBVIOUS
<1>10. /\ s \in Seq(Ops) /\ Len(s) = Len(p) + Len(q)
       /\ \A i \in 1 .. Len(p) + Len(q) : s[i] = IF i <= Len(p) THEN p[i] ELSE q[i - Len(p)]
  <2>1. p \in Seq(Ops) /\ q \in Seq(Ops)
    BY <1>4, <1>5
  <2> QED
    BY <1>9, <2>1, ConcatProperties
<1>11. Len(x) \in Nat /\ Len(y) \in Nat
  BY <1>2
<1>12. ASSUME NEW i \in 1 .. Len(x) + Len(y) PROVE both[i] = s[i]
  <2>1. CASE i <= Len(x)
    BY <1>4, <1>5, <1>7, <1>8, <1>10, <1>11, <2>1
  <2>2. CASE ~(i <= Len(x))
    <3>1. i - Len(x) \in 1 .. Len(y)
      BY <1>11, <2>2
    <3> QED
      BY <1>4, <1>5, <1>7, <1>8, <1>10, <1>11, <2>2, <3>1, ZenonT(60)
  <2> QED
    BY <2>1, <2>2
<1>13. both = s
  BY <1>4, <1>5, <1>7, <1>8, <1>10, <1>12, SeqEqual
<1> QED
  BY <1>3, <1>9, <1>13

-----------------------------------------------------------------------------
LEMMA PassProjectionMeans == IInv /\ IInv' /\ PassMeans /\ PassProjection => PassMeans'
<1> SUFFICES ASSUME IInv, IInv', PassMeans, PassProjection PROVE PassMeans'
  OBVIOUS
<1>1. PICK node : node = ProjectionNode(m_result, Node.fields)
  OBVIOUS
<1>2. /\ pc = "optimize" /\ ~down /\ todo # <<>> /\ Node.kind = "projection"
      /\ nodes' = Append(nodes, node) /\ m_result' = Len(nodes')
      /\ UNCHANGED <<user, plans, pc, request, down, ctx, answer>> /\ todo' = Tail(todo)
  BY <1>1 DEF PassProjection, Visiting, NewResult
<1>3. m_result \in Nat
  BY HeapType, TypeParts DEF IInv, ControlOK
<1>4. Node \in Nodes /\ Node.fields \in Projections
  BY <1>2, VisitedNode, NodeAt DEF IInv, Node
<1>5. node \in Nodes /\ node.input = m_result /\ node.kind = "projection" /\ node.fields = Node.fields
  BY <1>1, <1>3, <1>4, NewNodes DEF ProjectionNode
<1>6. NodeOps(node) = NodeOps(Node)
  BY <1>2, <1>4, <1>5, SameOps
<1> QED
  BY <1>2, <1>5, <1>6, NewResultMeans

LEMMA PassMaterializeMeans == IInv /\ IInv' /\ PassMeans /\ PassMaterialize => PassMeans'
<1> SUFFICES ASSUME IInv, IInv', PassMeans, PassMaterialize PROVE PassMeans'
  OBVIOUS
<1>1. PICK node : node = MaterializeFilterNode(m_result)
  OBVIOUS
<1>2. /\ pc = "optimize" /\ ~down /\ todo # <<>> /\ Node.kind = "materialize"
      /\ nodes' = Append(nodes, node) /\ m_result' = Len(nodes')
      /\ UNCHANGED <<user, plans, pc, request, down, ctx, answer>> /\ todo' = Tail(todo)
  BY <1>1 DEF PassMaterialize, Visiting, NewResult
<1>3. m_result \in Nat
  BY HeapType, TypeParts DEF IInv, ControlOK
<1>4. Node \in Nodes
  BY <1>2, VisitedNode, NodeAt DEF IInv, Node
<1>5. node \in Nodes /\ node.input = m_result /\ node.kind = "materialize"
  BY <1>1, <1>3, NewNodes DEF MaterializeFilterNode
<1>6. NodeOps(node) = NodeOps(Node)
  BY <1>2, <1>4, <1>5, SameOps
<1> QED
  BY <1>2, <1>5, <1>6, NewResultMeans

LEMMA PassCopyFilterMeans == IInv /\ IInv' /\ PassMeans /\ PassCopyFilter => PassMeans'
<1> SUFFICES ASSUME IInv, IInv', PassMeans, PassCopyFilter PROVE PassMeans'
  OBVIOUS
<1>1. PICK node : node = FilterNode(m_result, Node.exprs)
  OBVIOUS
<1>2. /\ pc = "optimize" /\ ~down /\ todo # <<>> /\ Node.kind = "filter"
      /\ nodes' = Append(nodes, node) /\ m_result' = Len(nodes')
      /\ UNCHANGED <<user, plans, pc, request, down, ctx, answer>> /\ todo' = Tail(todo)
  BY <1>1 DEF PassCopyFilter, Visiting, NewResult
<1>3. m_result \in Nat
  BY HeapType, TypeParts DEF IInv, ControlOK
<1>4. Node \in Nodes /\ Node.exprs \in Seq(Exprs) \ {<<>>}
  BY <1>2, VisitedNode, NodeAt DEF IInv, Node
<1>5. node \in Nodes
  BY <1>1, <1>3, <1>4, NewNodes
<1>6. node.input = m_result /\ node.kind = "filter" /\ node.exprs = Node.exprs
  BY <1>1 DEF FilterNode
<1>7. NodeOps(node) = NodeOps(Node)
  BY <1>2, <1>4, <1>5, <1>6, SameOps
<1> QED
  BY <1>2, <1>5, <1>6, <1>7, NewResultMeans
LEMMA PassJoinFilterMeans == IInv /\ IInv' /\ PassMeans /\ PassJoinFilter => PassMeans'
<1> SUFFICES ASSUME IInv, IInv', PassMeans, PassJoinFilter PROVE PassMeans'
  OBVIOUS
<1>1. /\ pc = "optimize" /\ ~down /\ todo # <<>> /\ Node.kind = "filter" /\ Prev = "filter"
      /\ nodes' = [nodes EXCEPT ![m_result].exprs = nodes[m_result].exprs \o Node.exprs]
      /\ UNCHANGED <<user, plans, pc, request, down, m_result, ctx, answer>> /\ todo' = Tail(todo)
  BY DEF PassJoinFilter, Visiting
<1>2. TypeOK /\ TypeOK' /\ nodes \in Seq(Nodes) /\ Len(nodes) \in Nat /\ user \in 0 .. Len(nodes)
  BY HeapType DEF IInv
<1>3. /\ m_result \in user + 1 .. Len(nodes) /\ m_result \in 1 .. Len(nodes)
      /\ nodes[m_result].kind = "filter"
  <2>1. m_result # 0 /\ nodes[m_result].kind = "filter"
    BY <1>1 DEF Prev
  <2>2. m_result \in 0 .. Len(nodes)
    BY <1>2, TypeParts DEF ControlOK
  <2> QED
    BY <1>2, <2>1, <2>2 DEF IInv, MadeApart
<1>4. PICK old, node : old = nodes[m_result] /\ node = Node
  OBVIOUS
<1>5. old \in Nodes /\ node \in Nodes /\ old.kind = "filter" /\ node.kind = "filter"
      /\ old.input \in 0 .. m_result - 1
  BY <1>1, <1>2, <1>3, <1>4, VisitedNode, NodeAt DEF Node
<1>6. PICK joined : joined = [old EXCEPT !.exprs = old.exprs \o node.exprs]
  OBVIOUS
<1>7. Len(nodes') = Len(nodes) /\ nodes'[m_result] = joined
      /\ \A n \in 1 .. Len(nodes) : n # m_result => nodes'[n] = nodes[n]
  <2>1. nodes' = [nodes EXCEPT ![m_result] = joined]
    BY <1>1, <1>4, <1>6
  <2>2. DOMAIN nodes = 1 .. Len(nodes)
    BY <1>2
  <2>3. Len(nodes') = Len(nodes)
    <3>1. nodes' \in Seq(Nodes) /\ DOMAIN nodes' = 1 .. Len(nodes)
      BY <1>2, <2>1, <2>2, TypeParts DEF HeapOK
    <3> QED
      BY <1>2, <3>1
  <2> QED
    BY <1>3, <2>1, <2>2, <2>3
<1>8. /\ joined \in Nodes /\ joined.kind = "filter" /\ joined.input = old.input
      /\ joined.exprs = old.exprs \o node.exprs
  <2>1. old \in [kind : {"filter"}, input : Nat, exprs : Seq(Exprs) \ {<<>>}]
    BY <1>5 DEF Nodes
  <2>2. nodes' \in Seq(Nodes)
    BY <1>2, TypeParts DEF HeapOK
  <2> QED
    BY <1>3, <1>6, <1>7, <2>1, <2>2
<1>9. NodeOps(joined) = NodeOps(old) \o NodeOps(node)
  BY <1>5, <1>8, JoinedOps
<1>10. PICK m : m = m_result - 1
  OBVIOUS
<1>11. /\ m \in Nat /\ m <= Len(nodes) /\ m <= Len(nodes') /\ old.input \in 0 .. m
       /\ \A n \in 1 .. m : nodes'[n] = nodes[n]
  BY <1>2, <1>3, <1>5, <1>7, <1>10
<1>12. OpsIn(nodes', old.input) = OpsIn(nodes, old.input)
  BY <1>2, <1>11, OpsOfKept
<1>13. OpsIn(nodes', m_result) = OpsIn(nodes', old.input) \o NodeOps(joined)
  BY <1>2, <1>3, <1>7, <1>8, OpsInNext
<1>14. OpsIn(nodes, m_result) = OpsIn(nodes, old.input) \o NodeOps(old)
  BY <1>2, <1>3, <1>4, OpsOfNode DEF OpsOf
<1>15. OpsIn(nodes', m_result') = OpsIn(nodes, m_result) \o NodeOps(Node)
  <2>1. PICK before, first, second :
          before = OpsIn(nodes, old.input) /\ first = NodeOps(old) /\ second = NodeOps(node)
    OBVIOUS
  <2>2. before \in Seq(Ops) /\ first \in Seq(Ops) /\ second \in Seq(Ops)
    <3>1. old.input \in 0 .. Len(nodes)
      BY <1>2, <1>3, <1>5
    <3>2. before \in Seq(Ops)
      BY <1>2, <2>1, <3>1, OpsOfNode DEF OpsOf
    <3> QED
      BY <1>5, <2>1, <3>2, NodeOpsType
  <2>3. before \o (first \o second) = (before \o first) \o second
    BY <2>2, ConcatAssociative
  <2>4. OpsIn(nodes', m_result') = before \o (first \o second)
    BY <1>1, <1>9, <1>12, <1>13, <2>1
  <2>5. OpsIn(nodes, m_result) \o NodeOps(Node) = (before \o first) \o second
    BY <1>4, <1>14, <2>1
  <2> QED
    BY <2>3, <2>4, <2>5
<1>16. \A n \in 1 .. user : nodes'[n] = nodes[n]
  BY <1>2, <1>3, <1>7
<1> QED
  BY <1>1, <1>15, <1>16, TranslatedMeans

LEMMA PassDropMaterializeMeans == IInv /\ IInv' /\ PassMeans /\ PassDropMaterialize => PassMeans'
<1> SUFFICES ASSUME IInv, IInv', PassMeans, PassDropMaterialize PROVE PassMeans'
  OBVIOUS
<1>1. /\ pc = "optimize" /\ ~down /\ todo # <<>> /\ Prev = "materialize"
      /\ m_result' = nodes[m_result].input
      /\ UNCHANGED <<nodes, user, plans, pc, request, todo, down, ctx, answer>>
  BY DEF PassDropMaterialize, Visiting, heap, calls
<1>2. TypeOK
  BY DEF IInv
<1>3. m_result \in 1 .. Len(nodes) /\ nodes[m_result].kind = "materialize"
  <2>1. m_result # 0 /\ nodes[m_result].kind = "materialize"
    BY <1>1 DEF Prev
  <2>2. m_result \in 0 .. Len(nodes) /\ Len(nodes) \in Nat
    BY <1>2, HeapType, TypeParts DEF ControlOK
  <2> QED
    BY <2>1, <2>2
<1>4. PICK node, before : node = nodes[m_result] /\ before = OpsIn(nodes, node.input)
  OBVIOUS
<1>5. node \in Nodes /\ node.input \in 0 .. Len(nodes)
  BY <1>2, <1>3, <1>4, HeapType, NodeAt
<1>6. OpsIn(nodes, m_result) = before \o NodeOps(node)
  BY <1>2, <1>3, <1>4, OpsOfNode DEF OpsOf
<1>7. NodeOps(node) = <<>>
  BY <1>3, <1>4, <1>5, NodeOpsType
<1>8. before \in Seq(Ops)
  BY <1>2, <1>4, <1>5, OpsOfNode DEF OpsOf
<1>9. OpsIn(nodes, m_result) = before
  BY <1>6, <1>7, <1>8, ConcatEmptySeq
<1>10. OpsIn(nodes', m_result') = OpsIn(nodes, m_result)
  BY <1>1, <1>4, <1>9
<1> QED
  BY <1>1, <1>10, DoneParts

LEMMA StartExecutionMeans == IInv /\ PassMeans /\ StartExecution => PassMeans'
<1> SUFFICES ASSUME IInv, PassMeans, StartExecution PROVE PassMeans'
  OBVIOUS
<1>1. pc = "optimize" /\ todo = <<>> /\ ~down
  BY DEF StartExecution, IInv, Optimizing, CallsArePath
<1>2. CASE Refused(request.table)
  BY <1>2, DoneParts DEF StartExecution, Leave
<1>3. CASE ~Refused(request.table)
  <2>1. pc' = "execute" /\ UNCHANGED <<nodes, request, m_result>>
    BY <1>3 DEF StartExecution, heap
  <2> QED
    BY <1>1, <2>1, DoneParts
<1> QED
  BY <1>2, <1>3

LEMMA VisitInputMeans == IInv /\ IInv' /\ PassMeans /\ VisitInput => PassMeans'
<1> SUFFICES ASSUME IInv, IInv', PassMeans, VisitInput PROVE PassMeans'
  OBVIOUS
<1>1. PICK input : input = nodes[Head(todo)].input
  OBVIOUS
<1>2. /\ pc \in {"optimize", "execute"} /\ down
      /\ todo' = <<input>> \o todo /\ down' = HasInput(input)
      /\ UNCHANGED <<nodes, user, plans, pc, request, m_result, ctx, answer>>
  BY <1>1 DEF VisitInput, heap
<1>3. CASE pc = "optimize"
  <2>1. m_result = 0 /\ CallsArePath(request.plan) /\ TypeOK
    BY <1>2, <1>3 DEF IInv, Optimizing
  <2>2. PICK plan : plan = request.plan
    OBVIOUS
  <2>3. todo' # <<>> /\ Head(todo') = input
    BY <1>1, <1>2, <2>1, <2>2, VisitedInput
  <2>4. ~down' => nodes[input].input = 0
    BY <1>2 DEF HasInput
  <2> QED
    BY <1>2, <1>3, <2>1, <2>3, <2>4, DoneParts
<1>4. CASE pc = "execute"
  BY <1>2, <1>4, DoneParts
<1> QED
  BY <1>2, <1>3, <1>4

LEMMA ExecuteMeans == IInv /\ Execute => PassMeans'
<1> SUFFICES ASSUME IInv, Execute PROVE PassMeans'
  OBVIOUS
<1>1. PICK plan \in plans :
        IF plan = 0 THEN pc' = "crash" /\ UNCHANGED calls ELSE pc' = "optimize" /\ Visit(plan)
  BY DEF Execute
<1>2. pc = "idle" /\ UNCHANGED <<nodes, m_result>> /\ m_result = 0
  BY DEF Execute, heap, IInv
<1>3. CASE plan = 0
  BY <1>1, <1>3, DoneParts
<1>4. CASE plan # 0
  <2>1. plan \in 1 .. Len(nodes) /\ TypeOK
    BY <1>4, HeapType DEF IInv
  <2>2. /\ pc' = "optimize" /\ Visit(plan)
    BY <1>1, <1>4
  <2>3. /\ todo' # <<>> /\ Head(todo') = plan
        /\ down' <=> HasInput(plan)
    BY <2>1, <2>2, VisitStarts
  <2>4. ~down' => nodes[plan].input = 0
    BY <2>3 DEF HasInput
  <2> QED
    BY <1>2, <2>2, <2>3, <2>4, DoneParts
<1> QED
  BY <1>3, <1>4

\* What the visitor does leaves the heap, or execute.
LEMMA RunMeans == PassMeans /\ Run => PassMeans'
<1> SUFFICES ASSUME PassMeans, Run PROVE PassMeans'
  OBVIOUS
<1>1. pc = "execute"
  BY DEF Run, RunProjection, RunFilter, RunMaterialize, Return, Visiting
<1>2. \/ pc' \notin {"optimize", "execute"}
      \/ pc' = pc /\ UNCHANGED <<nodes, request, m_result>>
  <2>1. ASSUME NEW next, Continue(next) PROVE pc' = pc /\ UNCHANGED <<nodes, request, m_result>>
    BY <2>1 DEF Continue, heap
  <2>2. ASSUME NEW what, Leave(what) PROVE pc' \notin {"optimize", "execute"}
    BY <2>2 DEF Leave
  <2>3. Crash => pc' \notin {"optimize", "execute"}
    BY DEF Crash
  <2>4. CASE RunProjection
    BY <2>1, <2>3, <2>4, Zenon DEF RunProjection
  <2>5. CASE RunFilter
    BY <2>1, <2>2, <2>3, <2>5, Zenon DEF RunFilter
  <2>6. CASE RunMaterialize
    BY <2>1, <2>2, <2>6, Zenon DEF RunMaterialize
  <2>7. CASE Return
    BY <2>2, <2>7, Zenon DEF Return
  <2> QED
    BY <2>4, <2>5, <2>6, <2>7 DEF Run
<1> QED
  BY <1>1, <1>2, DoneParts

LEMMA PassMeansStep == IInv /\ IInv' /\ PassMeans /\ [Next]_vars => PassMeans'
<1> SUFFICES ASSUME IInv, IInv', PassMeans, [Next]_vars PROVE PassMeans'
  OBVIOUS
<1>1. CASE UNCHANGED vars
  BY <1>1, DoneParts DEF vars, calls
<1>2. CASE BuildProject \/ BuildFilter
  BY <1>2, DoneParts DEF BuildProject, BuildFilter
<1>3. CASE Optimize
  BY <1>3, PassProjectionMeans, PassMaterializeMeans, PassJoinFilterMeans, PassDropMaterializeMeans,
     PassCopyFilterMeans, StartExecutionMeans DEF Optimize
<1> QED
  BY <1>1, <1>2, <1>3, ExecuteMeans, VisitInputMeans, RunMeans DEF Next

(***************************************************************************)
(* The pass loses, repeats and reorders nothing, whatever was built.       *)
(***************************************************************************)
THEOREM PassIsFaithful == Spec => []PassPreservesQuery
<1>1. Init => PassMeans
  BY DEF Init, PassMeans
<1>2. IInv /\ PassMeans => PassPreservesQuery
  <2> SUFFICES ASSUME IInv, PassMeans PROVE PassPreservesQuery
    OBVIOUS
  <2>1. ASSUME pc = "optimize", ~down
        PROVE  OpsOf(m_result) \o OpsToDo = OpsOf(request.plan)
    <3>1. TypeOK /\ CallsArePath(request.plan)
      BY <2>1 DEF IInv, Optimizing
    <3>2. OpsOf(m_result) = OpsDone(request.plan)
      BY <2>1 DEF PassMeans
    <3>3. CASE todo = <<>>
      <4>1. OpsToDo = <<>> /\ OpsOf(m_result) = OpsOf(request.plan)
        BY <3>1, <3>2, <3>3, NothingToDo DEF OpsDone
      <4>2. m_result \in 0 .. Len(nodes)
        BY <3>1, TypeParts DEF ControlOK
      <4>3. PICK all : all = OpsOf(m_result)
        OBVIOUS
      <4>4. all \in Seq(Ops)
        BY <3>1, <4>2, <4>3, OpsOfNode
      <4>5. all \o <<>> = all
        BY <4>4, ConcatEmptySeq
      <4> QED
        BY <4>1, <4>3, <4>5, Zenon
    <3>4. CASE todo # <<>>
      <4>1. PICK plan : plan = request.plan
        OBVIOUS
      <4>2. OpsOf(plan) = OpsOf(nodes[Head(todo)].input) \o OpsToDo
        BY <3>1, <3>4, <4>1, OpsOnPath
      <4>3. OpsOf(m_result) = OpsOf(nodes[Head(todo)].input)
        BY <3>2, <3>4, Zenon DEF OpsDone
      <4> QED
        BY <4>1, <4>2, <4>3
    <3> QED
      BY <3>3, <3>4
  <2> QED
    BY <2>1 DEF PassPreservesQuery, PassMeans
<1>3. IInv /\ IInv' /\ PassMeans /\ [Next]_vars => PassMeans'
  BY PassMeansStep
<1> QED
  BY <1>1, <1>2, <1>3, Invariance, PTL DEF Spec
-----------------------------------------------------------------------------
(***************************************************************************)
(* The answers Query gives to the first operations of a query.             *)
(***************************************************************************)
Table(columns, rows) == [result |-> "table", columns |-> columns, rows |-> rows]

Gives(q, t, n, columns, rows) == Abstract!After(q, t)[n] = Table(columns, rows)

HasColumn(columns, name) == Cardinality({i \in DOMAIN columns : columns[i] = name}) = 1

AnswersTo(q, t, m, f) ==
  f = [n \in 0 .. m |-> IF n = 0 THEN Table(t.columns, t.rows) ELSE Abstract!Apply(f[n - 1], q[n])]

LEMMA AnswersExist ==
  ASSUME NEW q, NEW t
  PROVE  \A m \in Nat : \E f : AnswersTo(q, t, m, f)
<1> DEFINE S == {m \in Nat : \E f : AnswersTo(q, t, m, f)}
<1>1. ASSUME NEW m \in Nat, \A k \in 0 .. m - 1 : k \in S
      PROVE  \E f : AnswersTo(q, t, m, f)
  <2>1. CASE m = 0
    <3>1. PICK f : f = [n \in 0 .. 0 |-> Table(t.columns, t.rows)]
      OBVIOUS
    <3>2. [n \in 0 .. 0 |-> Table(t.columns, t.rows)]
            = [n \in 0 .. m |-> IF n = 0 THEN Table(t.columns, t.rows)
                                ELSE Abstract!Apply(f[n - 1], q[n])]
      BY <2>1
    <3> QED
      BY <3>1, <3>2 DEF AnswersTo
  <2>2. CASE m # 0
    <3>1. m - 1 \in 0 .. m - 1
      BY <2>2
    <3>2. PICK f : AnswersTo(q, t, m - 1, f)
      BY <1>1, <3>1
    <3>3. PICK g : g = [n \in 0 .. m |-> IF n < m THEN f[n] ELSE Abstract!Apply(f[m - 1], q[m])]
      OBVIOUS
    <3>4. ASSUME NEW n \in 0 .. m
          PROVE  g[n] = IF n = 0 THEN Table(t.columns, t.rows) ELSE Abstract!Apply(g[n - 1], q[n])
      <4>1. CASE n = 0
        BY <2>2, <3>2, <3>3, <4>1 DEF AnswersTo
      <4>2. CASE n # 0
        <5>1. g[n - 1] = f[n - 1]
          BY <3>3, <4>2
        <5>2. CASE n = m
          BY <3>3, <4>2, <5>1, <5>2
        <5>3. CASE n # m
          <6>1. n \in 0 .. m - 1 /\ g[n] = f[n]
            BY <3>3, <5>3
          <6>2. f[n] = Abstract!Apply(f[n - 1], q[n])
            BY <3>2, <4>2, <6>1 DEF AnswersTo
          <6> QED
            BY <4>2, <5>1, <6>1, <6>2
        <5> QED
          BY <5>2, <5>3
      <4> QED
        BY <4>1, <4>2
    <3> QED
      BY <3>3, <3>4 DEF AnswersTo
  <2> QED
    BY <2>1, <2>2
<1>2. \A m \in Nat : (\A k \in 0 .. m - 1 : k \in S) => m \in S
  BY <1>1
<1>3. \A m \in Nat : m \in S
  <2> HIDE DEF S
  <2> QED
    BY <1>2, Induction
<1> QED
  BY <1>3

LEMMA AfterUnfolds ==
  ASSUME NEW q \in Seq(Ops), NEW t
  PROVE  /\ Abstract!After(q, t)[0] = Table(t.columns, t.rows)
         /\ \A n \in 1 .. Len(q) :
              Abstract!After(q, t)[n] = Abstract!Apply(Abstract!After(q, t)[n - 1], q[n])
<1>1. Len(q) \in Nat
  OBVIOUS
<1> DEFINE g == CHOOSE f : AnswersTo(q, t, Len(q), f)
<1>2. AnswersTo(q, t, Len(q), g)
  BY <1>1, AnswersExist, Zenon
<1>3. Abstract!After(q, t) = g
  BY Zenon DEF Abstract!After, AnswersTo, Table
<1> HIDE DEF g
<1>4. g[0] = Table(t.columns, t.rows)
  BY <1>1, <1>2 DEF AnswersTo
<1>5. ASSUME NEW n \in 1 .. Len(q) PROVE g[n] = Abstract!Apply(g[n - 1], q[n])
  <2>1. n \in 0 .. Len(q) /\ n # 0
    BY <1>1
  <2> QED
    BY <1>2, <2>1, Zenon DEF AnswersTo
<1> QED
  BY <1>3, <1>4, <1>5

\* Nothing follows a failure.
LEMMA FailureLasts ==
  ASSUME NEW q \in Seq(Ops), NEW t, NEW n \in 0 .. Len(q), Abstract!After(q, t)[n].result # "table"
  PROVE  Abstract!After(q, t)[Len(q)] = Abstract!After(q, t)[n]
<1>1. PICK f : f = Abstract!After(q, t)
  OBVIOUS
<1>2. \A m \in 1 .. Len(q) : f[m] = Abstract!Apply(f[m - 1], q[m])
  BY <1>1, AfterUnfolds, Zenon
<1>3. Len(q) \in Nat
  OBVIOUS
<1> DEFINE S == {k \in Nat : n + k <= Len(q) => f[n + k] = f[n]}
<1>4. ASSUME NEW k \in Nat, \A j \in 0 .. k - 1 : j \in S, n + k <= Len(q)
      PROVE  f[n + k] = f[n]
  <2>1. CASE k = 0
    BY <2>1
  <2>2. CASE k # 0
    <3>1. PICK m : m = n + k
      OBVIOUS
    <3>2. k - 1 \in 0 .. k - 1 /\ m \in 1 .. Len(q) /\ n + (k - 1) = m - 1 /\ m - 1 <= Len(q)
      BY <1>3, <1>4, <2>2, <3>1
    <3>3. f[m - 1] = f[n]
      BY <1>4, <3>2
    <3>4. f[m] = Abstract!Apply(f[n], q[m])
      BY <1>2, <3>2, <3>3
    <3>5. f[n].result # "table"
      BY <1>1
    <3> QED
      BY <3>1, <3>4, <3>5 DEF Abstract!Apply
  <2> QED
    BY <2>1, <2>2
<1>5. \A k \in Nat : (\A j \in 0 .. k - 1 : j \in S) => k \in S
  BY <1>4
<1>6. \A k \in Nat : k \in S
  <2> HIDE DEF S
  <2> QED
    BY <1>5, Induction
<1>7. Len(q) - n \in S /\ n + (Len(q) - n) = Len(q) /\ Len(q) <= Len(q)
  BY <1>3, <1>6
<1> QED
  BY <1>1, <1>7
\* Query and QueryPlan look for a column in the same way.
LEMMA NamedColumn ==
  ASSUME NEW before, NEW name
  PROVE  Abstract!Named(before, name) <=> HasColumn(before.columns, name)
<1>1. \A S : Abstract!Cardinality(S) = Cardinality(S)
  BY Zenon DEF Abstract!Cardinality, Cardinality
<1> QED
  BY <1>1, Zenon DEF Abstract!Named, HasColumn

\* One operation on a table.
LEMMA FilterApplied ==
  ASSUME NEW columns, NEW rows, NEW expr
  PROVE  Abstract!Apply(Table(columns, rows), [op |-> "filter", expr |-> expr]) =
           IF ~HasColumn(columns, ColumnOf[expr]) THEN Failed("no_table")
           ELSE IF expr \in Mismatched THEN Failed("bad_variant_access")
           ELSE Table(columns, rows \cap Satisfying[expr])
<1>1. PICK before, o : before = Table(columns, rows) /\ o = [op |-> "filter", expr |-> expr]
  OBVIOUS
<1>2. before.result = "table" /\ o.op = "filter" /\ o.op # "project" /\ o.expr = expr
  BY <1>1 DEF Table
<1>3. Abstract!Applicable(before, o) <=> HasColumn(columns, ColumnOf[expr])
  <2>1. before.columns = columns
    BY <1>1 DEF Table
  <2> QED
    <3>1. Abstract!Applicable(before, o) <=> Abstract!Named(before, ColumnOf[expr])
      BY <1>2 DEF Abstract!Applicable
    <3>2. Abstract!Named(before, ColumnOf[expr]) <=> HasColumn(before.columns, ColumnOf[expr])
      BY NamedColumn
    <3> QED
      BY <2>1, <3>1, <3>2
<1>4. Abstract!Select(before, expr) = Table(columns, rows \cap Satisfying[expr])
  <2>1. PICK left : left = rows \cap Satisfying[expr]
    OBVIOUS
  <2>2. before = [result |-> "table", columns |-> columns, rows |-> rows]
    BY <1>1 DEF Table
  <2>3. [before EXCEPT !.rows = left] = [result |-> "table", columns |-> columns, rows |-> left]
    BY <2>2
  <2>4. Abstract!Select(before, expr) = [before EXCEPT !.rows = left]
    BY <2>1, <2>2 DEF Abstract!Select
  <2> QED
    BY <2>1, <2>3, <2>4 DEF Table
<1>5. \A why : Abstract!Failed(why) = Failed(why)
  BY DEF Abstract!Failed, Failed
<1> QED
  BY <1>1, <1>2, <1>3, <1>4, <1>5 DEF Abstract!Apply

LEMMA ProjectionApplied ==
  ASSUME NEW columns, NEW rows, NEW fields
  PROVE  Abstract!Apply(Table(columns, rows), [op |-> "project", fields |-> fields]) =
           IF \A i \in DOMAIN fields : HasColumn(columns, fields[i])
           THEN Table(fields, IF fields = <<>> THEN {} ELSE rows) ELSE Failed("no_table")
<1>1. PICK before, o : before = Table(columns, rows) /\ o = [op |-> "project", fields |-> fields]
  OBVIOUS
<1>2. before.result = "table" /\ o.op = "project" /\ o.fields = fields
  BY <1>1 DEF Table
<1>3. Abstract!Applicable(before, o) <=> \A i \in DOMAIN fields : HasColumn(columns, fields[i])
  <2>1. before.columns = columns
    BY <1>1 DEF Table
  <2> QED
    <3>1. Abstract!Applicable(before, o) <=> \A i \in DOMAIN fields : Abstract!Named(before, fields[i])
      BY <1>2 DEF Abstract!Applicable
    <3>2. \A name : Abstract!Named(before, name) <=> HasColumn(before.columns, name)
      BY NamedColumn
    <3> QED
      BY <2>1, <3>1, <3>2
<1>4. Abstract!Project(before, fields) = Table(fields, IF fields = <<>> THEN {} ELSE rows)
  <2>1. PICK left : left = IF fields = <<>> THEN {} ELSE rows
    OBVIOUS
  <2>2. before = [result |-> "table", columns |-> columns, rows |-> rows]
    BY <1>1 DEF Table
  <2>3. [before EXCEPT !.columns = fields, !.rows = left]
          = [result |-> "table", columns |-> fields, rows |-> left]
    <3>1. PICK middle : middle = [before EXCEPT !.columns = fields]
      OBVIOUS
    <3>2. middle = [result |-> "table", columns |-> fields, rows |-> rows]
      BY <2>2, <3>1
    <3>3. [middle EXCEPT !.rows = left] = [result |-> "table", columns |-> fields, rows |-> left]
      BY <3>2
    <3> QED
      BY <3>1, <3>3
  <2>4. Abstract!Project(before, fields) = [before EXCEPT !.columns = fields, !.rows = left]
    BY <2>1, <2>2 DEF Abstract!Project
  <2> QED
    BY <2>1, <2>3, <2>4 DEF Table
<1>5. Abstract!Failed("no_table") = Failed("no_table")
  BY DEF Abstract!Failed, Failed
<1> QED
  BY <1>1, <1>2, <1>3, <1>4, <1>5 DEF Abstract!Apply

\* A run of filters in a query, from operation d on, applied to a table.
FiltersAt(q, d, exprs) ==
  /\ d \in Nat /\ exprs \in Seq(Exprs) /\ d + Len(exprs) <= Len(q)
  /\ \A i \in 1 .. Len(exprs) : q[d + i] = [op |-> "filter", expr |-> exprs[i]]

\* The first k of some expressions can be evaluated.
Evaluable(columns, exprs, k) ==
  \A i \in 1 .. k : HasColumn(columns, ColumnOf[exprs[i]]) /\ exprs[i] \notin Mismatched

\* Why an expression cannot be.
FailsFor(columns, expr, why) ==
  \/ ~HasColumn(columns, ColumnOf[expr]) /\ why = "no_table"
  \/ /\ HasColumn(columns, ColumnOf[expr]) /\ expr \in Mismatched
     /\ why = "bad_variant_access"

AllTrue(rows, exprs, k) == {r \in rows : \A i \in 1 .. k : r \in Satisfying[exprs[i]]}

LEMMA AfterFilters ==
  ASSUME NEW q \in Seq(Ops), NEW t, NEW d, NEW exprs, FiltersAt(q, d, exprs),
         NEW columns, NEW rows, Gives(q, t, d, columns, rows),
         NEW m \in 0 .. Len(exprs), Evaluable(columns, exprs, m)
  PROVE  Gives(q, t, d + m, columns, AllTrue(rows, exprs, m))
<1>1. PICK f : f = Abstract!After(q, t)
  OBVIOUS
<1>2. \A n \in 1 .. Len(q) : f[n] = Abstract!Apply(f[n - 1], q[n])
  BY <1>1, AfterUnfolds, Zenon
<1>3. Len(q) \in Nat /\ d \in Nat /\ Len(exprs) \in Nat /\ d + Len(exprs) <= Len(q)
  BY DEF FiltersAt
<1>4. f[d] = Table(columns, rows)
  BY <1>1 DEF Gives
<1> DEFINE S == {k \in Nat : k <= m => f[d + k] = Table(columns, AllTrue(rows, exprs, k))}
<1>5. ASSUME NEW k \in Nat, \A j \in 0 .. k - 1 : j \in S, k <= m
      PROVE  f[d + k] = Table(columns, AllTrue(rows, exprs, k))
  <2>1. CASE k = 0
    <3>1. AllTrue(rows, exprs, k) = rows
      BY <2>1 DEF AllTrue
    <3>2. d + k = d
      BY <1>3, <2>1
    <3> QED
      BY <1>4, <3>1, <3>2, Zenon
  <2>2. CASE k # 0
    <3>1. PICK n, expr : n = d + k /\ expr = exprs[k]
      OBVIOUS
    <3>2. /\ k - 1 \in 0 .. k - 1 /\ n \in 1 .. Len(q) /\ d + (k - 1) = n - 1 /\ k - 1 <= m
          /\ k \in 1 .. m /\ k \in 1 .. Len(exprs)
      BY <1>3, <1>5, <2>2, <3>1
    <3>3. f[n - 1] = Table(columns, AllTrue(rows, exprs, k - 1))
      BY <1>5, <3>2
    <3>4. q[n] = [op |-> "filter", expr |-> expr]
      BY <3>1, <3>2 DEF FiltersAt
    <3>5. HasColumn(columns, ColumnOf[expr]) /\ expr \notin Mismatched
      BY <3>1, <3>2 DEF Evaluable
    <3>6. f[n] = Abstract!Apply(f[n - 1], q[n])
      BY <1>2, <3>2
    <3>7. f[n] = Table(columns, AllTrue(rows, exprs, k - 1) \cap Satisfying[expr])
      BY <3>3, <3>4, <3>5, <3>6, FilterApplied
    <3>8. AllTrue(rows, exprs, k - 1) \cap Satisfying[expr] = AllTrue(rows, exprs, k)
      <4>1. \A i : i \in 1 .. k <=> i \in 1 .. k - 1 \/ i = k
        BY <2>2
      <4> QED
        BY <3>1, <4>1, Zenon DEF AllTrue
    <3> QED
      BY <3>1, <3>7, <3>8
  <2> QED
    BY <2>1, <2>2
<1>6. \A k \in Nat : (\A j \in 0 .. k - 1 : j \in S) => k \in S
  BY <1>5
<1>7. \A k \in Nat : k \in S
  <2> HIDE DEF S
  <2> QED
    BY <1>6, Induction
<1>8. m \in S /\ m <= m
  BY <1>3, <1>7
<1> QED
  BY <1>1, <1>8 DEF Gives

\* The first of them that cannot be evaluated ends the query.
LEMMA AfterFailing ==
  ASSUME NEW q \in Seq(Ops), NEW t, NEW d, NEW exprs, FiltersAt(q, d, exprs),
         NEW columns, NEW rows, Gives(q, t, d, columns, rows),
         NEW m \in 1 .. Len(exprs), Evaluable(columns, exprs, m - 1),
         NEW why, FailsFor(columns, exprs[m], why)
  PROVE  Abstract!After(q, t)[Len(q)] = Failed(why)
<1>1. Len(q) \in Nat /\ d \in Nat /\ Len(exprs) \in Nat /\ d + Len(exprs) <= Len(q)
  BY DEF FiltersAt
<1>2. PICK j, n : j = m - 1 /\ n = d + m
  OBVIOUS
<1>3. j \in 0 .. Len(exprs) /\ d + j = n - 1 /\ n \in 1 .. Len(q) /\ n \in 0 .. Len(q)
  BY <1>1, <1>2
<1>4. Gives(q, t, d + j, columns, AllTrue(rows, exprs, j))
  <2>1. Evaluable(columns, exprs, j)
    BY <1>2
  <2> QED
    BY <1>3, <2>1, AfterFilters, Zenon
<1>5. PICK expr, some : expr = exprs[m] /\ some = AllTrue(rows, exprs, j)
  OBVIOUS
<1>6. q[n] = [op |-> "filter", expr |-> expr]
  BY <1>2, <1>5 DEF FiltersAt
<1>7. Abstract!After(q, t)[n] = Abstract!Apply(Abstract!After(q, t)[n - 1], q[n])
  BY <1>3, AfterUnfolds
<1>8. Abstract!After(q, t)[n] = Abstract!Apply(Table(columns, some), [op |-> "filter", expr |-> expr])
  BY <1>3, <1>4, <1>5, <1>6, <1>7 DEF Gives
<1>9. Abstract!After(q, t)[n] = Failed(why)
  <2>1. FailsFor(columns, expr, why)
    BY <1>5
  <2> QED
    BY <1>8, <2>1, FilterApplied, Zenon DEF FailsFor
<1>10. Abstract!After(q, t)[n].result # "table"
  BY <1>9 DEF Failed, FailsFor
<1> QED
  BY <1>3, <1>9, <1>10, FailureLasts
-----------------------------------------------------------------------------
(***************************************************************************)
(* The context, node by node.                                              *)
(***************************************************************************)
Fits(h, plan, t, table, c) ==
  /\ t # <<>> /\ h[Head(t)].kind = "materialize" => c.has_bitmap
  /\ Gives(OpsIn(h, plan), table,
           Len(IF t = <<>> THEN OpsIn(h, plan) ELSE OpsIn(h, h[Head(t)].input)),
           c.table.columns, IF c.has_bitmap THEN c.bitmap ELSE c.table.rows)

ColumnsOf(table, t) ==
  \A i \in DOMAIN t.columns : \E j \in DOMAIN table.columns : table.columns[j] = t.columns[i]

LEMMA ContextParts ==
  /\ ContextMeans <=>
       /\ ~EmptyInput(ctx.table) /\ ColumnsOf(request.table, ctx.table)
       /\ ~down => Fits(nodes, m_result, todo, request.table, ctx)
  /\ ContextMeans' <=>
       /\ ~EmptyInput(ctx'.table) /\ ColumnsOf(request'.table, ctx'.table)
       /\ ~down' => Fits(nodes', m_result', todo', request'.table, ctx')
<1>1. ContextMeans <=>
       /\ ~EmptyInput(ctx.table) /\ ColumnsOf(request.table, ctx.table)
       /\ ~down => Fits(nodes, m_result, todo, request.table, ctx)
  BY Zenon DEF ContextMeans, ColumnsOf, Fits, Gives, Table, Node, OpsDone, OpsOf
<1>2. ContextMeans' <=>
       /\ ~EmptyInput(ctx'.table) /\ ColumnsOf(request'.table, ctx'.table)
       /\ ~down' => Fits(nodes', m_result', todo', request'.table, ctx')
  BY Zenon DEF ContextMeans, ColumnsOf, Fits, Gives, Table, Node, OpsDone, OpsOf, EmptyInput
<1> QED
  BY <1>1, <1>2, Zenon

\* The first node visited has no input, and so is no materialization: nothing
\* has been done.
AtFirst(h, t) == t # <<>> /\ h[Head(t)].input = 0 /\ h[Head(t)].kind # "materialize"

LEMMA FreshFits ==
  ASSUME NEW h, IsHeap(h), NEW plan \in 0 .. Len(h), NEW t, AtFirst(h, t), NEW table
  PROVE  Fits(h, plan, t, table, Context(table))
<1>1. PICK q, c : q = OpsIn(h, plan) /\ c = Context(table)
  OBVIOUS
<1>2. q \in Seq(Ops)
  BY <1>1, OpsInType
<1>3. Len(OpsIn(h, h[Head(t)].input)) = 0
  <2>1. OpsIn(h, h[Head(t)].input) = <<>>
    BY OpsInNode DEF AtFirst
  <2> QED
    BY <2>1 DEF AtFirst
<1>4. Gives(q, table, 0, table.columns, table.rows)
  BY <1>2, AfterUnfolds, Zenon DEF Gives
<1>5. c.table.columns = table.columns /\ c.table.rows = table.rows /\ c.has_bitmap = FALSE
  BY <1>1 DEF Context
<1>6. Fits(h, plan, t, table, c)
  BY <1>1, <1>3, <1>4, <1>5, Zenon DEF Fits, AtFirst
<1> QED
  BY <1>1, <1>6

LEMMA FirstColumns ==
  ASSUME NEW table
  PROVE  /\ EmptyInput(Context(table).table) <=> EmptyInput(table)
         /\ ColumnsOf(table, Context(table).table)
<1>1. Context(table).table = table
  BY DEF Context
<1> QED
  BY <1>1, Zenon DEF ColumnsOf

LEMMA StartsFirst ==
  ASSUME IInv, IInv', StartExecution, pc' = "execute", ~down'
  PROVE  AtFirst(nodes', todo')
<1>1. Visit(m_result) /\ UNCHANGED <<nodes, user, m_result>>
  BY DEF StartExecution, heap, Leave
<1>2. TypeOK /\ Executing' /\ m_result # 0
  BY <1>1 DEF IInv, Executing
<1>3. m_result \in 1 .. Len(nodes) /\ m_result \in user + 1 .. Len(nodes)
  <2>1. m_result \in 0 .. Len(nodes) /\ Len(nodes) \in Nat /\ user \in 0 .. Len(nodes)
    BY <1>2, HeapType, TypeParts DEF ControlOK
  <2> QED
    BY <1>2, <2>1 DEF IInv, MadeApart
<1>4. todo' # <<>> /\ Head(todo') = m_result /\ ~HasInput(m_result)
  BY <1>1, <1>2, <1>3, VisitStarts
<1>5. InputKind(m_result) = "none"
  BY <1>4 DEF InputKind
<1> QED
  BY <1>1, <1>3, <1>4, <1>5 DEF IInv, MadeJoined, Joined, AtFirst, HasInput

LEMMA VisitsFirst ==
  ASSUME IInv, IInv', pc = "execute", VisitInput, ~down'
  PROVE  AtFirst(nodes', todo')
<1>1. PICK input, plan : input = nodes[Head(todo)].input /\ plan = m_result
  OBVIOUS
<1>2. /\ down /\ todo' = <<input>> \o todo /\ ~HasInput(input)
      /\ UNCHANGED <<nodes, user, pc, m_result>>
  BY <1>1 DEF VisitInput, heap
<1>3. TypeOK /\ TypeOK' /\ Executing /\ Executing'
  BY <1>2 DEF IInv
<1>4. todo' # <<>> /\ Head(todo') = input
  BY <1>1, <1>2, <1>3, VisitedInput DEF Executing
<1>5. input \in user + 1 .. Len(nodes)
  <2>1. todo' \in Seq(DOMAIN nodes') /\ \A k \in DOMAIN todo' : todo'[k] > user
    BY <1>2, <1>3, TypeParts DEF ControlOK, Executing
  <2>2. DOMAIN nodes = 1 .. Len(nodes) /\ Len(nodes) \in Nat /\ user \in 0 .. Len(nodes)
    BY <1>3, HeapType
  <2>3. 1 \in DOMAIN todo' /\ todo'[1] = input /\ todo'[1] \in 1 .. Len(nodes)
    BY <1>2, <1>4, <2>1, <2>2
  <2>4. input > user
    BY <2>1, <2>3
  <2> QED
    BY <2>2, <2>3, <2>4
<1>6. InputKind(input) = "none"
  BY <1>2 DEF InputKind
<1> QED
  BY <1>2, <1>4, <1>5, <1>6 DEF IInv, MadeJoined, Joined, AtFirst, HasInput

LEMMA StartContext ==
  IInv /\ IInv' /\ StartExecution /\ pc' = "execute" /\ ~EmptyInput(request.table) => ContextMeans'
<1> SUFFICES ASSUME IInv, IInv', StartExecution, pc' = "execute", ~EmptyInput(request.table)
             PROVE  ContextMeans'
  OBVIOUS
<1>1. ctx' = Context(request.table) /\ UNCHANGED request
  BY DEF StartExecution, Leave
<1>2. ASSUME ~down' PROVE Fits(nodes', m_result', todo', request'.table, ctx')
  <2>1. PICK h, plan, t, table :
          h = nodes' /\ plan = m_result' /\ t = todo' /\ table = request'.table
    OBVIOUS
  <2>2. TypeOK' /\ IsHeap(h) /\ plan \in 0 .. Len(h)
    BY <2>1, NextHeapIsHeap, TypeParts DEF IInv, ControlOK
  <2>3. AtFirst(h, t)
    BY <1>2, <2>1, StartsFirst
  <2>4. Fits(h, plan, t, table, Context(table))
    BY <2>2, <2>3, FreshFits
  <2> QED
    BY <1>1, <2>1, <2>4
<1>3. ~EmptyInput(ctx'.table) /\ ColumnsOf(request'.table, ctx'.table)
  BY <1>1, FirstColumns
<1> QED
  BY <1>1, <1>2, <1>3, ContextParts

LEMMA VisitContext ==
  ASSUME IInv, IInv', pc = "execute", VisitInput, ContextMeans, ctx = Context(request.table)
  PROVE  ContextMeans'
<1>1. UNCHANGED <<request, ctx>>
  BY DEF VisitInput
<1>2. ASSUME ~down' PROVE Fits(nodes', m_result', todo', request'.table, ctx')
  <2>1. PICK h, plan, t, table :
          h = nodes' /\ plan = m_result' /\ t = todo' /\ table = request'.table
    OBVIOUS
  <2>2. TypeOK' /\ IsHeap(h) /\ plan \in 0 .. Len(h)
    BY <2>1, NextHeapIsHeap, TypeParts DEF IInv, ControlOK
  <2>3. AtFirst(h, t)
    BY <1>2, <2>1, VisitsFirst
  <2>4. Fits(h, plan, t, table, Context(table))
    BY <2>2, <2>3, FreshFits
  <2> QED
    BY <1>1, <2>1, <2>4
<1>3. ~EmptyInput(ctx.table) /\ ColumnsOf(request.table, ctx.table)
  BY ContextParts
<1> QED
  BY <1>1, <1>2, <1>3, ContextParts
\* The node being run, in the query.
NodeAtOps(q, d, node) ==
  /\ q \in Seq(Ops) /\ node \in Nodes /\ d \in Nat /\ NodeOps(node) \in Seq(Ops)
  /\ d + Len(NodeOps(node)) <= Len(q)
  /\ \A i \in 1 .. Len(NodeOps(node)) : q[d + i] = NodeOps(node)[i]

LEMMA NodeRun ==
  ASSUME IInv, pc = "execute", ~down, todo # <<>>,
         NEW q, q = OpsIn(nodes, m_result), NEW d, d = Len(OpsIn(nodes, Node.input))
  PROVE  /\ NodeAtOps(q, d, Node)
         /\ Len(OpsIn(nodes, Head(todo))) = d + Len(NodeOps(Node))
         /\ Head(todo) \in user + 1 .. Len(nodes)
<1>1. TypeOK /\ CallsArePath(m_result) /\ \A k \in DOMAIN todo : todo[k] > user
  BY DEF IInv, Executing
<1>2. PICK plan, node : plan = m_result /\ node = Node
  OBVIOUS
<1>3. /\ Head(todo) \in 1 .. Len(nodes)
      /\ \E rest \in Seq(Ops) : OpsOf(plan) = OpsOf(Head(todo)) \o rest
  BY <1>1, <1>2, OpsOnPath
<1>4. PICK rest \in Seq(Ops) : q = OpsIn(nodes, Head(todo)) \o rest
  BY <1>2, <1>3 DEF OpsOf
<1>5. node \in Nodes /\ node.input \in 0 .. Len(nodes)
  <2>1. Len(nodes) \in Nat
    BY <1>1, HeapType
  <2> QED
    BY <1>1, <1>2, <1>3, <2>1, NodeAt DEF Node
<1>6. PICK before, own : before = OpsIn(nodes, node.input) /\ own = NodeOps(node)
  OBVIOUS
<1>7. before \in Seq(Ops) /\ own \in Seq(Ops) /\ OpsIn(nodes, Head(todo)) = before \o own
  BY <1>1, <1>2, <1>3, <1>5, <1>6, OpsOfNode, NodeOpsType DEF OpsOf, Node
<1>8. /\ before \o own \in Seq(Ops) /\ Len(before \o own) = Len(before) + Len(own)
      /\ \A i \in 1 .. Len(own) : (before \o own)[Len(before) + i] = own[i]
  <2>1. Len(before) \in Nat /\ Len(own) \in Nat
    BY <1>7
  <2>2. /\ before \o own \in Seq(Ops) /\ Len(before \o own) = Len(before) + Len(own)
        /\ \A i \in 1 .. Len(before) + Len(own) : (before \o own)[i] =
                   IF i <= Len(before) THEN before[i] ELSE own[i - Len(before)]
    BY <1>7, ConcatProperties
  <2> QED
    BY <2>1, <2>2
<1>9. PICK both : both = before \o own
  OBVIOUS
<1>10. /\ q \in Seq(Ops) /\ Len(q) = Len(both) + Len(rest)
       /\ \A i \in 1 .. Len(both) : q[i] = both[i]
  <2>1. both \in Seq(Ops) /\ q = both \o rest
    BY <1>4, <1>7, <1>8, <1>9
  <2>2. Len(both) \in Nat /\ Len(rest) \in Nat
    BY <2>1
  <2>3. /\ both \o rest \in Seq(Ops) /\ Len(both \o rest) = Len(both) + Len(rest)
        /\ \A i \in 1 .. Len(both) + Len(rest) : (both \o rest)[i] =
                   IF i <= Len(both) THEN both[i] ELSE rest[i - Len(both)]
    BY <2>1, ConcatProperties
  <2> QED
    BY <2>1, <2>2, <2>3
<1>11. d = Len(before) /\ d \in Nat /\ Len(own) \in Nat /\ Len(rest) \in Nat
  BY <1>2, <1>6, <1>7
<1>12. \A i \in 1 .. Len(own) : q[d + i] = own[i]
  <2> SUFFICES ASSUME NEW i \in 1 .. Len(own) PROVE q[d + i] = own[i]
    OBVIOUS
  <2>1. d + i \in 1 .. Len(both)
    BY <1>8, <1>9, <1>11
  <2> QED
    BY <1>8, <1>9, <1>10, <1>11, <2>1
<1>13. NodeAtOps(q, d, node)
  BY <1>5, <1>6, <1>7, <1>8, <1>9, <1>10, <1>11, <1>12 DEF NodeAtOps
<1>14. Head(todo) > user
  <2>1. todo \in Seq(DOMAIN nodes)
    BY <1>1, TypeParts DEF ControlOK
  <2> QED
    BY <1>1, <2>1
<1>15. user \in 0 .. Len(nodes) /\ Len(nodes) \in Nat
  BY <1>1, HeapType
<1> QED
  BY <1>2, <1>3, <1>6, <1>7, <1>8, <1>11, <1>13, <1>14, <1>15

\* The next node, when the visitor goes on: a materialization after a filter.
LengthDone(h, plan, t) == Len(IF t = <<>> THEN OpsIn(h, plan) ELSE OpsIn(h, h[Head(t)].input))
BitmapWanted(h, t) == t # <<>> /\ h[Head(t)].kind = "materialize"

LEMMA NextNode ==
  ASSUME IInv, IInv', pc = "execute", ~down, todo # <<>>, NEW c, Continue(c),
         NEW d, d = Len(OpsIn(nodes, Node.input))
  PROVE  /\ LengthDone(nodes', m_result', todo') = d + Len(NodeOps(Node))
         /\ BitmapWanted(nodes', todo') <=> Node.kind = "filter"
<1>1. todo' = Tail(todo) /\ UNCHANGED <<nodes, user, m_result>>
  BY DEF Continue, heap
<1>2. TypeOK /\ CallsArePath(m_result) /\ \A k \in DOMAIN todo : todo[k] > user
  BY DEF IInv, Executing
<1>3. Len(OpsIn(nodes, Head(todo))) = d + Len(NodeOps(Node)) /\ Head(todo) \in user + 1 .. Len(nodes)
  BY NodeRun
<1>4. PICK plan : plan = m_result
  OBVIOUS
<1>5. /\ \A k \in DOMAIN todo' : todo'[k] \in 1 .. Len(nodes)
      /\ \A k \in DOMAIN todo' : \E j \in DOMAIN todo : todo'[k] = todo[j]
      /\ todo' # <<>> => /\ 1 \in DOMAIN todo' /\ Head(todo') = todo'[1]
                         /\ nodes[Head(todo')].input = Head(todo)
      /\ todo' = <<>> => Head(todo) = plan
  BY <1>1, <1>2, <1>4, Unwound
<1>6. ASSUME todo' # <<>> PROVE nodes[Head(todo')].kind = "materialize" <=> Node.kind = "filter"
  <2>1. PICK n : n = Head(todo')
    OBVIOUS
  <2>2. n \in user + 1 .. Len(nodes) /\ nodes[n].input = Head(todo)
    <3>1. PICK j \in DOMAIN todo : todo'[1] = todo[j]
      BY <1>5, <1>6
    <3>2. todo'[1] > user /\ todo'[1] \in 1 .. Len(nodes) /\ n = todo'[1]
      BY <1>2, <1>5, <1>6, <2>1, <3>1
    <3>3. user \in 0 .. Len(nodes) /\ Len(nodes) \in Nat
      BY <1>2, HeapType
    <3> QED
      BY <1>5, <1>6, <2>1, <3>2, <3>3
  <2>3. HasInput(n) /\ InputKind(n) = Node.kind
    <3>1. Head(todo) # 0
      BY <1>2, <1>3, HeapType
    <3> QED
      BY <2>2, <3>1 DEF HasInput, InputKind, Node
  <2> QED
    BY <2>1, <2>2, <2>3 DEF IInv, MadeJoined, Joined
<1>7. CASE todo' = <<>>
  <2>1. Node.kind # "filter"
    BY <1>4, <1>5, <1>7 DEF IInv, Executing, Prev, Node
  <2> QED
    BY <1>1, <1>3, <1>4, <1>5, <1>7, <2>1, Zenon DEF LengthDone, BitmapWanted
<1>8. CASE todo' # <<>>
  BY <1>1, <1>3, <1>5, <1>6, <1>8, Zenon DEF LengthDone, BitmapWanted
<1> QED
  BY <1>7, <1>8

\* The context of that node.
LEMMA NextFits ==
  ASSUME IInv, IInv', pc = "execute", ~down, todo # <<>>, NEW c, Continue(c),
         NEW q, q = OpsIn(nodes, m_result), NEW d, d = Len(OpsIn(nodes, Node.input)),
         NEW table, Node.kind = "filter" => c.has_bitmap,
         Gives(q, table, d + Len(NodeOps(Node)), c.table.columns,
               IF c.has_bitmap THEN c.bitmap ELSE c.table.rows)
  PROVE  Fits(nodes', m_result', todo', table, c)
<1>1. UNCHANGED <<nodes, m_result>>
  BY DEF Continue, heap
<1>2. /\ LengthDone(nodes', m_result', todo') = d + Len(NodeOps(Node))
      /\ BitmapWanted(nodes', todo') => c.has_bitmap
  BY NextNode
<1>3. PICK n : n = d + Len(NodeOps(Node))
  OBVIOUS
<1>4. /\ Gives(OpsIn(nodes', m_result'), table, n, c.table.columns,
               IF c.has_bitmap THEN c.bitmap ELSE c.table.rows)
      /\ LengthDone(nodes', m_result', todo') = n
  BY <1>1, <1>2, <1>3
<1> QED
  BY <1>2, <1>4, Zenon DEF Fits, LengthDone, BitmapWanted
-----------------------------------------------------------------------------
(***************************************************************************)
(* What one step of the visitor comes to: it goes on with a context that   *)
(* is what Query says, or leaves with an answer Query allows.              *)
(***************************************************************************)
GoesOn(c) ==
  /\ Continue(c)
  /\ ~EmptyInput(c.table) /\ ColumnsOf(request.table, c.table)
  /\ Fits(nodes', m_result', todo', request.table, c)

Answers(q) ==
  \/ Leave(Returned(ctx.table)) /\ Returned(ctx.table) = Abstract!Evaluate(q, request.table)
  \/ Crash /\ Abstract!Evaluate(q, request.table) = Failed("no_table")
  \/ /\ Leave(Failed("bad_variant_access"))
     /\ Abstract!Evaluate(q, request.table) = Failed("bad_variant_access")
  \/ Leave(Failed("not_implemented")) /\ ~Abstract!AllNumeric(request.table)

LEMMA ContextRun ==
  ASSUME IInv, ContextMeans, pc = "execute", ~down,
         NEW q, q = OpsIn(nodes, m_result), NEW d, d = Len(OpsIn(nodes, Node.input))
  PROVE  /\ ~EmptyInput(ctx.table) /\ ColumnsOf(request.table, ctx.table) /\ IsTable(ctx.table)
         /\ todo # <<>> => Gives(q, request.table, d, ctx.table.columns,
                                 IF ctx.has_bitmap THEN ctx.bitmap ELSE ctx.table.rows)
         /\ todo = <<>> => Gives(q, request.table, Len(q), ctx.table.columns, ctx.table.rows)
         /\ todo # <<>> => (ctx.has_bitmap <=> Node.kind = "materialize")
<1>1. /\ ~EmptyInput(ctx.table) /\ ColumnsOf(request.table, ctx.table)
      /\ Fits(nodes, m_result, todo, request.table, ctx)
  BY ContextParts
<1>2. todo = <<>> \/ Node.kind # "materialize" => ~ctx.has_bitmap
  BY DEF IInv, BitmapNeverLost
<1>3. IsTable(ctx.table)
  BY DEF IInv, TypeOK
<1>4. CASE todo = <<>>
  <2>1. Gives(q, request.table, Len(q), ctx.table.columns,
              IF ctx.has_bitmap THEN ctx.bitmap ELSE ctx.table.rows)
    BY <1>1, <1>4, Zenon DEF Fits
  <2> QED
    BY <1>1, <1>2, <1>3, <1>4, <2>1
<1>5. CASE todo # <<>>
  <2>1. Gives(q, request.table, d, ctx.table.columns,
              IF ctx.has_bitmap THEN ctx.bitmap ELSE ctx.table.rows)
    BY <1>1, <1>5, Zenon DEF Fits, Node
  <2>2. Node.kind = "materialize" => ctx.has_bitmap
    BY <1>1, <1>5, Zenon DEF Fits, Node
  <2> QED
    BY <1>1, <1>2, <1>3, <1>5, <2>1, <2>2
<1> QED
  BY <1>4, <1>5

Projects(q, t, d, node, columns, rows) ==
  /\ Len(NodeOps(node)) = 1 /\ d + 1 \in 1 .. Len(q)
  /\ q[d + 1] = [op |-> "project", fields |-> node.fields]
  /\ IF \A i \in DOMAIN node.fields : HasColumn(columns, node.fields[i])
     THEN Gives(q, t, d + 1, node.fields, IF node.fields = <<>> THEN {} ELSE rows)
     ELSE Abstract!Evaluate(q, t) = Failed("no_table")

LEMMA AfterProjection ==
  ASSUME NEW q, NEW t, NEW d, NEW node, NodeAtOps(q, d, node), node.kind = "projection",
         NEW columns, NEW rows, Gives(q, t, d, columns, rows)
  PROVE  Projects(q, t, d, node, columns, rows)
<1>1. PICK fields, n : fields = node.fields /\ n = d + 1
  OBVIOUS
<1>2. q \in Seq(Ops) /\ node \in Nodes /\ d \in Nat
  BY DEF NodeAtOps
<1>3. NodeOps(node) = <<[op |-> "project", fields |-> fields]>>
  BY <1>1, <1>2, NodeOpsType
<1>4. Len(NodeOps(node)) = 1 /\ NodeOps(node)[1] = [op |-> "project", fields |-> fields]
  BY <1>3
<1>5. d + 1 <= Len(q) /\ q[n] = [op |-> "project", fields |-> fields]
  BY <1>1, <1>4 DEF NodeAtOps
<1>6. n \in 1 .. Len(q) /\ n \in 0 .. Len(q) /\ n - 1 = d
  BY <1>1, <1>2, <1>5
<1>7. Abstract!After(q, t)[n] = Abstract!Apply(Abstract!After(q, t)[n - 1], q[n])
  BY <1>2, <1>6, AfterUnfolds
<1>8. Abstract!After(q, t)[n]
        = Abstract!Apply(Table(columns, rows), [op |-> "project", fields |-> fields])
  BY <1>5, <1>6, <1>7 DEF Gives
<1>9. CASE \A i \in DOMAIN fields : HasColumn(columns, fields[i])
  <2>1. Abstract!After(q, t)[n] = Table(fields, IF fields = <<>> THEN {} ELSE rows)
    BY <1>8, <1>9, ProjectionApplied, Zenon
  <2> QED
    BY <1>1, <1>4, <1>5, <1>6, <1>9, <2>1 DEF Gives, Projects
<1>10. CASE ~ \A i \in DOMAIN fields : HasColumn(columns, fields[i])
  <2>1. Abstract!After(q, t)[n] = Failed("no_table")
    BY <1>8, <1>10, ProjectionApplied, Zenon
  <2>2. Abstract!After(q, t)[n].result # "table"
    BY <2>1 DEF Failed
  <2>3. Abstract!After(q, t)[Len(q)] = Failed("no_table")
    BY <1>2, <1>6, <2>1, <2>2, FailureLasts
  <2>4. Abstract!Evaluate(q, t) = Failed("no_table")
    BY <2>3, Zenon DEF Abstract!Evaluate
  <2> QED
    BY <1>1, <1>4, <1>5, <1>6, <1>10, <2>4 DEF Projects
<1> QED
  BY <1>9, <1>10

\* A column that is found is there.
LEMMA NamedIsThere ==
  ASSUME NEW columns, NEW name, HasColumn(columns, name)
  PROVE  \E i \in DOMAIN columns : columns[i] = name
<1> SUFFICES ASSUME \A i \in DOMAIN columns : columns[i] # name PROVE FALSE
  OBVIOUS
<1>1. {i \in DOMAIN columns : columns[i] = name} = {}
  OBVIOUS
<1>2. Cardinality({}) = 0
  BY FS_EmptySet
<1>3. Cardinality({}) = 1
  BY <1>1 DEF HasColumn
<1> QED
  BY <1>2, <1>3

LEMMA ColumnFound ==
  ASSUME NEW table, NEW name
  PROVE  GetColumnByName(table, name) <=> HasColumn(table.columns, name)
  BY Zenon DEF GetColumnByName, HasColumn

\* No operation of the plan being run is a projection on no columns or a filter
\* by a constant.
LEMMA PlainOps ==
  ASSUME PassMeans, Plain, pc = "execute", NEW q, q = OpsIn(nodes, m_result), NEW i \in DOMAIN q
  PROVE  /\ \A fields : q[i] = [op |-> "project", fields |-> fields] => fields # <<>>
         /\ \A expr : q[i] = [op |-> "filter", expr |-> expr] => expr \notin Consts
<1>1. q = OpsOf(request.plan)
  BY DoneParts DEF OpsOf
<1>2. ~EmptyProjection(q[i]) /\ ~ByConstant(q, i)
  BY <1>1, Zenon DEF Plain
<1> QED
  BY <1>2 DEF EmptyProjection, ByConstant, IsFilter

LEMMA ProjectionRun ==
  ASSUME IInv, IInv', PassMeans, Plain, ContextMeans, RunProjection,
         NEW q, q = OpsIn(nodes, m_result)
  PROVE  Answers(q) \/ \E c : GoesOn(c)
<1>1. pc = "execute" /\ ~down /\ todo # <<>> /\ Node.kind = "projection"
  BY DEF RunProjection, Visiting
<1>2. PICK d, node, t, fields : /\ d = Len(OpsIn(nodes, Node.input)) /\ node = Node
                                /\ t = ctx.table /\ fields = node.fields
  OBVIOUS
<1>3. NodeAtOps(q, d, node)
  BY <1>1, <1>2, NodeRun
<1>4. ~EmptyInput(t) /\ IsTable(t) /\ Gives(q, request.table, d, t.columns, t.rows)
  BY <1>1, <1>2, ContextRun
<1>5. /\ Len(NodeOps(node)) = 1 /\ d + 1 \in 1 .. Len(q)
      /\ q[d + 1] = [op |-> "project", fields |-> fields]
      /\ IF \A i \in DOMAIN fields : HasColumn(t.columns, fields[i])
         THEN Gives(q, request.table, d + 1, fields, IF fields = <<>> THEN {} ELSE t.rows)
         ELSE Abstract!Evaluate(q, request.table) = Failed("no_table")
  <2>1. PICK table, columns, rows : table = request.table /\ columns = t.columns /\ rows = t.rows
    OBVIOUS
  <2>2. Gives(q, table, d, columns, rows) /\ node.kind = "projection"
    BY <1>1, <1>2, <1>4, <2>1
  <2>3. Projects(q, table, d, node, columns, rows)
    BY <1>3, <2>2, AfterProjection, Zenon
  <2> QED
    BY <1>2, <2>1, <2>3, Zenon DEF Projects
<1>6. CASE \A i \in DOMAIN fields : HasColumn(t.columns, fields[i])
  <2>1. PICK c : c = Context([t EXCEPT !.columns = fields,
                                       !.rows = IF fields = <<>> THEN {} ELSE t.rows])
    OBVIOUS
  <2>2. Continue(c)
    <3>1. \A i \in DOMAIN Node.fields : GetColumnByName(ctx.table, Node.fields[i])
      BY <1>2, <1>6, ColumnFound
    <3> QED
      BY <1>2, <2>1, <3>1 DEF RunProjection
  <2>3. fields # <<>>
    <3>1. d + 1 \in DOMAIN q
      BY <1>3, <1>5 DEF NodeAtOps
    <3> QED
      BY <1>1, <1>5, <3>1, PlainOps
  <2>4. /\ c.table.columns = fields /\ c.table.rows = t.rows /\ c.table.chunked = t.chunked
        /\ c.has_bitmap = FALSE
    BY <1>4, <2>1, <2>3 DEF IsTable, Context
  <2>5. ~EmptyInput(c.table)
    BY <1>4, <2>3, <2>4 DEF EmptyInput
  <2>6. ColumnsOf(request.table, c.table)
    <3> SUFFICES ASSUME NEW i \in DOMAIN fields
                 PROVE  \E j \in DOMAIN request.table.columns : request.table.columns[j] = fields[i]
      BY <2>4 DEF ColumnsOf
    <3>1. PICK k \in DOMAIN t.columns : t.columns[k] = fields[i]
      BY <1>6, NamedIsThere
    <3> QED
      BY <1>1, <1>2, <3>1, ContextRun DEF ColumnsOf
  <2>7. Fits(nodes', m_result', todo', request.table, c)
    <3>1. Gives(q, request.table, d + 1, fields, t.rows)
      BY <1>5, <1>6, <2>3
    <3>2. Gives(q, request.table, d + Len(NodeOps(Node)), c.table.columns,
                IF c.has_bitmap THEN c.bitmap ELSE c.table.rows)
      BY <1>2, <1>5, <2>4, <3>1
    <3>3. PICK table : table = request.table
      OBVIOUS
    <3> QED
      BY <1>1, <1>2, <2>2, <3>2, <3>3, NextFits
  <2> QED
    BY <2>2, <2>5, <2>6, <2>7 DEF GoesOn
<1>7. CASE ~ \A i \in DOMAIN fields : HasColumn(t.columns, fields[i])
  <2>1. Crash
    <3>1. ~ \A i \in DOMAIN Node.fields : GetColumnByName(ctx.table, Node.fields[i])
      BY <1>2, <1>7, ColumnFound
    <3> QED
      BY <3>1 DEF RunProjection
  <2> QED
    BY <1>5, <1>7, <2>1 DEF Answers
<1> QED
  BY <1>6, <1>7
\* What generate_filter_bitmap does with comparisons on a table that is no
\* empty input: all are evaluated, or the first that cannot be ends it.
AllOfThem(t, exprs) ==
  /\ Evaluable(t.columns, exprs, Len(exprs))
  /\ \E c : Continue(c) /\ c.table = t /\ c.has_bitmap = TRUE /\ c.bitmap = SelectedBy(t, exprs)

StopsAt(t, exprs, m) ==
  \/ /\ Evaluable(t.columns, exprs, m - 1) /\ FailsFor(t.columns, exprs[m], "no_table")
     /\ Crash
  \/ /\ HasColumn(t.columns, ColumnOf[exprs[m]]) /\ ColumnOf[exprs[m]] \notin Numeric
     /\ Leave(Failed("not_implemented"))
  \/ /\ Evaluable(t.columns, exprs, m - 1) /\ FailsFor(t.columns, exprs[m], "bad_variant_access")
     /\ Leave(Failed("bad_variant_access"))

NoConstant(exprs) == \A i \in 1 .. Len(exprs) : exprs[i] \notin Consts

LEMMA FilterErrors ==
  ASSUME NEW t, t = ctx.table, NEW exprs \in Seq(Exprs), NoConstant(exprs),
         NEW i \in 1 .. Len(exprs)
  PROVE  ErrorAt(exprs, i) =
           IF ~HasColumn(t.columns, ColumnOf[exprs[i]]) THEN "crash"
           ELSE IF ColumnOf[exprs[i]] \notin Numeric THEN "not_implemented"
           ELSE IF exprs[i] \in Mismatched THEN "bad_variant_access" ELSE "none"
<1>1. ErrorAt(exprs, i) = Error(exprs[i])
  <2>1. i = 2 => exprs[1] \notin Consts
    <3>1. i = 2 => 1 \in 1 .. Len(exprs)
      OBVIOUS
    <3> QED
      BY <3>1 DEF NoConstant
  <2> QED
    BY <2>1, Zenon DEF ErrorAt
<1>2. exprs[i] \notin Consts
  BY DEF NoConstant
<1>3. Missing(exprs[i]) <=> ~HasColumn(t.columns, ColumnOf[exprs[i]])
  BY ColumnFound DEF Missing
<1> QED
  BY <1>1, <1>2, <1>3, Zenon DEF Error

LEMMA FilterSteps ==
  ASSUME RunFilter, NEW t, t = ctx.table, ~EmptyInput(t),
         NEW exprs, exprs = Node.exprs, exprs \in Seq(Exprs), NoConstant(exprs)
  PROVE  AllOfThem(t, exprs) \/ \E m \in 1 .. Len(exprs) : StopsAt(t, exprs, m)
<1> DEFINE Bad == {i \in DOMAIN exprs : ErrorAt(exprs, i) # "none"}
<1>0. ~(EmptyInput(ctx.table) \/ OnlyConstant(exprs))
  <2>1. Len(exprs) = 1 => 1 \in 1 .. Len(exprs)
    OBVIOUS
  <2> QED
    BY <2>1 DEF OnlyConstant, NoConstant
<1>1. \A i \in 1 .. Len(exprs) :
        ErrorAt(exprs, i) =
          IF ~HasColumn(t.columns, ColumnOf[exprs[i]]) THEN "crash"
          ELSE IF ColumnOf[exprs[i]] \notin Numeric THEN "not_implemented"
          ELSE IF exprs[i] \in Mismatched THEN "bad_variant_access" ELSE "none"
  BY FilterErrors, Zenon
<1>2. DOMAIN exprs = 1 .. Len(exprs) /\ Len(exprs) \in Nat
  OBVIOUS
<1>3. CASE Bad = {}
  <2>1. PICK c : c = [Context(ctx.table) EXCEPT !.has_bitmap = TRUE,
                                                !.bitmap = SelectedBy(ctx.table, exprs)]
    OBVIOUS
  <2>2. Continue(c)
    BY <1>0, <1>3, <2>1, Zenon DEF RunFilter
  <2>3. c.table = t /\ c.has_bitmap = TRUE /\ c.bitmap = SelectedBy(t, exprs)
    <3>1. PICK chosen : chosen = SelectedBy(t, exprs)
      OBVIOUS
    <3>2. c = [Context(t) EXCEPT !.has_bitmap = TRUE, !.bitmap = chosen]
      BY <2>1, <3>1
    <3> QED
      BY <3>1, <3>2 DEF Context
  <2>4. Evaluable(t.columns, exprs, Len(exprs))
    <3> SUFFICES ASSUME NEW i \in 1 .. Len(exprs)
                 PROVE  HasColumn(t.columns, ColumnOf[exprs[i]]) /\ exprs[i] \notin Mismatched
      BY DEF Evaluable
    <3>1. ErrorAt(exprs, i) = "none"
      BY <1>2, <1>3
    <3> QED
      BY <1>1, <3>1
  <2> QED
    BY <2>2, <2>3, <2>4 DEF AllOfThem
<1>4. CASE Bad # {}
  <2> DEFINE first == CHOOSE i \in Bad : \A j \in Bad : i <= j
  <2>1. first \in Bad /\ \A j \in Bad : first <= j
    <3>1. Bad \in SUBSET Nat
      BY <1>2
    <3>2. \E i \in Bad : \A j \in Bad : i <= j
      <4> HIDE DEF Bad
      <4> QED
        BY <1>4, <3>1, LeastNumber
    <3> HIDE DEF Bad
    <3> QED
      BY <3>2, Zenon
  <2>2. IF ErrorAt(exprs, first) = "crash" THEN Crash ELSE Leave(Failed(ErrorAt(exprs, first)))
    BY <1>0, <1>4, Zenon DEF RunFilter
  <2> HIDE DEF first
  <2>3. first \in 1 .. Len(exprs) /\ ErrorAt(exprs, first) # "none"
    BY <1>2, <2>1
  <2>4. PICK m, error : m = first /\ error = ErrorAt(exprs, first)
    OBVIOUS
  <2>5. Evaluable(t.columns, exprs, m - 1)
    <3> SUFFICES ASSUME NEW i \in 1 .. m - 1
                 PROVE  HasColumn(t.columns, ColumnOf[exprs[i]]) /\ exprs[i] \notin Mismatched
      BY DEF Evaluable
    <3>1. i \in 1 .. Len(exprs) /\ ~(m <= i)
      BY <1>2, <2>3, <2>4
    <3>2. i \notin Bad
      BY <2>1, <2>4, <3>1
    <3>3. ErrorAt(exprs, i) = "none"
      BY <1>2, <3>1, <3>2
    <3> QED
      BY <1>1, <3>1, <3>3
  <2>6. m \in 1 .. Len(exprs) /\ error # "none" /\ error = ErrorAt(exprs, m)
    BY <2>3, <2>4
  <2>7. CASE ~HasColumn(t.columns, ColumnOf[exprs[m]])
    <3>1. error = "crash"
      BY <1>1, <2>6, <2>7
    <3>2. Crash
      BY <2>2, <2>4, <3>1
    <3> QED
      BY <2>5, <2>6, <2>7, <3>2 DEF StopsAt, FailsFor
  <2>8. CASE HasColumn(t.columns, ColumnOf[exprs[m]]) /\ ColumnOf[exprs[m]] \notin Numeric
    <3>1. error = "not_implemented"
      BY <1>1, <2>6, <2>8
    <3>2. Leave(Failed("not_implemented"))
      BY <2>2, <2>4, <3>1 DEF Leave
    <3> QED
      BY <2>6, <2>8, <3>2 DEF StopsAt
  <2>9. CASE HasColumn(t.columns, ColumnOf[exprs[m]]) /\ ColumnOf[exprs[m]] \in Numeric
    <3>1. error = "bad_variant_access" /\ exprs[m] \in Mismatched
      BY <1>1, <2>6, <2>9
    <3>2. Leave(Failed("bad_variant_access"))
      BY <2>2, <2>4, <3>1 DEF Leave
    <3> QED
      BY <2>5, <2>6, <2>9, <3>1, <3>2 DEF StopsAt, FailsFor
  <2> QED
    BY <2>7, <2>8, <2>9
<1> QED
  BY <1>3, <1>4

\* A column that is not numeric, of the context or of the request.
LEMMA NotAllNumeric ==
  ASSUME ColumnsOf(request.table, ctx.table),
         NEW i \in DOMAIN ctx.table.columns, ctx.table.columns[i] \notin Numeric
  PROVE  ~Abstract!AllNumeric(request.table)
  BY DEF ColumnsOf, Abstract!AllNumeric

LEMMA FilterRun ==
  ASSUME IInv, IInv', PassMeans, Plain, ContextMeans, RunFilter, NEW q, q = OpsIn(nodes, m_result)
  PROVE  Answers(q) \/ \E c : GoesOn(c)
<1>1. pc = "execute" /\ ~down /\ todo # <<>> /\ Node.kind = "filter"
  BY DEF RunFilter, Visiting
<1>2. PICK d, node, t, table, exprs :
        /\ d = Len(OpsIn(nodes, Node.input)) /\ node = Node /\ t = ctx.table
        /\ table = request.table /\ exprs = node.exprs
  OBVIOUS
<1>3. NodeAtOps(q, d, node)
  BY <1>1, <1>2, NodeRun
<1>4. /\ ~EmptyInput(t) /\ ColumnsOf(table, t) /\ Gives(q, table, d, t.columns, t.rows)
      /\ q \in Seq(Ops)
  BY <1>1, <1>2, <1>3, ContextRun DEF NodeAtOps
<1>5. Len(NodeOps(node)) = Len(exprs) /\ FiltersAt(q, d, exprs)
  <2>1. /\ Len(NodeOps(node)) = Len(exprs) /\ exprs \in Seq(Exprs)
        /\ \A i \in 1 .. Len(exprs) : NodeOps(node)[i] = [op |-> "filter", expr |-> exprs[i]]
    BY <1>1, <1>2, <1>3, NodeOpsType DEF NodeAtOps
  <2> QED
    BY <1>3, <2>1 DEF NodeAtOps, FiltersAt
<1>6. PICK columns, rows : columns = t.columns /\ rows = t.rows
  OBVIOUS
<1>7. Gives(q, table, d, columns, rows)
  BY <1>4, <1>6
<1>8. exprs \in Seq(Exprs) /\ Len(exprs) \in Nat /\ DOMAIN exprs = 1 .. Len(exprs)
  BY <1>5 DEF FiltersAt
<1>12. NoConstant(exprs)
  <2> SUFFICES ASSUME NEW i \in 1 .. Len(exprs) PROVE exprs[i] \notin Consts
    BY DEF NoConstant
  <2>1. d + i \in DOMAIN q /\ q[d + i] = [op |-> "filter", expr |-> exprs[i]]
    BY <1>4, <1>5 DEF FiltersAt
  <2> QED
    BY <1>1, <2>1, PlainOps
<1>9. CASE AllOfThem(t, exprs)
  <2>1. PICK c : Continue(c) /\ c.table = t /\ c.has_bitmap = TRUE /\ c.bitmap = SelectedBy(t, exprs)
    BY <1>9 DEF AllOfThem
  <2>2. PICK m : m = Len(exprs)
    OBVIOUS
  <2>3. Gives(q, table, d + m, columns, AllTrue(rows, exprs, m))
    <3>1. m \in 0 .. Len(exprs) /\ Evaluable(columns, exprs, m)
      BY <1>6, <1>8, <1>9, <2>2 DEF AllOfThem
    <3> QED
      BY <1>4, <1>5, <1>7, <3>1, AfterFilters, Zenon
  <2>4. AllTrue(rows, exprs, m) = SelectedBy(t, exprs)
    BY <1>6, <1>8, <1>12, <2>2 DEF AllTrue, SelectedBy, NoConstant
  <2>5. Gives(q, table, d + Len(NodeOps(Node)), c.table.columns,
              IF c.has_bitmap THEN c.bitmap ELSE c.table.rows)
    BY <1>2, <1>5, <1>6, <2>1, <2>2, <2>3, <2>4
  <2>6. Fits(nodes', m_result', todo', table, c)
    BY <1>1, <1>2, <2>1, <2>5, NextFits
  <2> QED
    BY <1>2, <1>4, <2>1, <2>6 DEF GoesOn
<1>10. ASSUME NEW m \in 1 .. Len(exprs), StopsAt(t, exprs, m) PROVE Answers(q)
  <2>1. ASSUME NEW why, Evaluable(t.columns, exprs, m - 1), FailsFor(t.columns, exprs[m], why)
        PROVE  Abstract!Evaluate(q, request.table) = Failed(why)
    <3>1. Evaluable(columns, exprs, m - 1) /\ FailsFor(columns, exprs[m], why)
      BY <1>6, <2>1
    <3>2. /\ q \in Seq(Ops) /\ FiltersAt(q, d, exprs) /\ Gives(q, table, d, columns, rows)
          /\ m \in 1 .. Len(exprs)
      BY <1>4, <1>5, <1>7
    <3>3. Abstract!After(q, table)[Len(q)] = Failed(why)
      BY <3>1, <3>2, AfterFailing
    <3> QED
      BY <1>2, <3>3, Zenon DEF Abstract!Evaluate
  <2>2. CASE /\ HasColumn(t.columns, ColumnOf[exprs[m]]) /\ ColumnOf[exprs[m]] \notin Numeric
             /\ Leave(Failed("not_implemented"))
    <3>1. PICK i \in DOMAIN t.columns : t.columns[i] = ColumnOf[exprs[m]]
      BY <2>2, NamedIsThere
    <3>2. ~Abstract!AllNumeric(request.table)
      BY <1>2, <1>4, <2>2, <3>1, NotAllNumeric
    <3> QED
      BY <2>2, <3>2 DEF Answers
  <2> QED
    BY <1>10, <2>1, <2>2 DEF StopsAt, Answers
<1>11. AllOfThem(t, exprs) \/ \E m \in 1 .. Len(exprs) : StopsAt(t, exprs, m)
  BY <1>2, <1>4, <1>8, <1>12, FilterSteps
<1> QED
  BY <1>9, <1>10, <1>11

LEMMA MaterializeRun ==
  ASSUME IInv, IInv', ContextMeans, RunMaterialize, NEW q, q = OpsIn(nodes, m_result)
  PROVE  Answers(q) \/ \E c : GoesOn(c)
<1>1. pc = "execute" /\ ~down /\ todo # <<>> /\ Node.kind = "materialize"
  BY DEF RunMaterialize, Visiting
<1>2. PICK d, node, t, table :
        /\ d = Len(OpsIn(nodes, Node.input)) /\ node = Node /\ t = ctx.table
        /\ table = request.table
  OBVIOUS
<1>3. NodeAtOps(q, d, node) /\ Len(NodeOps(node)) = 0 /\ d + Len(NodeOps(Node)) = d
  <2>1. NodeAtOps(q, d, node)
    BY <1>1, <1>2, NodeRun
  <2>2. NodeOps(node) = <<>>
    BY <1>1, <1>2, <2>1, NodeOpsType DEF NodeAtOps
  <2> QED
    BY <1>2, <2>1, <2>2 DEF NodeAtOps
<1>4. /\ ~EmptyInput(t) /\ ColumnsOf(table, t) /\ IsTable(t) /\ ctx.has_bitmap
      /\ Gives(q, table, d, t.columns, ctx.bitmap)
  BY <1>1, <1>2, ContextRun
<1>5. CASE \E i \in DOMAIN t.columns : t.columns[i] \notin Numeric
  <2>1. Leave(Failed("not_implemented"))
    BY <1>2, <1>4, <1>5, Zenon DEF RunMaterialize
  <2>2. ~Abstract!AllNumeric(request.table)
    BY <1>2, <1>4, <1>5, NotAllNumeric
  <2> QED
    BY <2>1, <2>2 DEF Answers
<1>6. CASE ~ \E i \in DOMAIN t.columns : t.columns[i] \notin Numeric
  <2>1. PICK c : c = Context([t EXCEPT !.rows = ctx.bitmap, !.chunked = TRUE])
    OBVIOUS
  <2>2. Continue(c)
    BY <1>2, <1>4, <1>6, <2>1, Zenon DEF RunMaterialize
  <2>3. /\ c.table.columns = t.columns /\ c.table.rows = ctx.bitmap /\ c.table.chunked = TRUE
        /\ c.has_bitmap = FALSE
    BY <1>4, <2>1 DEF IsTable, Context
  <2>4. ~EmptyInput(c.table) /\ ColumnsOf(table, c.table)
    BY <1>4, <2>3 DEF EmptyInput, ColumnsOf
  <2>5. Gives(q, table, d + Len(NodeOps(Node)), c.table.columns,
              IF c.has_bitmap THEN c.bitmap ELSE c.table.rows)
    BY <1>3, <1>4, <2>3
  <2>6. Fits(nodes', m_result', todo', table, c)
    BY <1>1, <1>2, <2>2, <2>5, NextFits
  <2> QED
    BY <1>2, <2>2, <2>4, <2>6 DEF GoesOn
<1> QED
  BY <1>5, <1>6

LEMMA ReturnRun ==
  ASSUME IInv, ContextMeans, Return, NEW q, q = OpsIn(nodes, m_result)
  PROVE  Answers(q)
<1>1. pc = "execute" /\ todo = <<>> /\ Leave(Returned(ctx.table)) /\ ~down
  BY DEF Return, IInv, Executing, CallsArePath
<1>2. PICK d, t, table :
        d = Len(OpsIn(nodes, Node.input)) /\ t = ctx.table /\ table = request.table
  OBVIOUS
<1>3. Gives(q, table, Len(q), t.columns, t.rows)
  BY <1>1, <1>2, ContextRun
<1>4. Returned(t) = Abstract!Evaluate(q, table)
  BY <1>3, Zenon DEF Gives, Table, Returned, Abstract!Evaluate
<1> QED
  BY <1>1, <1>2, <1>4 DEF Answers

\* One step of the visitor.
LEMMA RunComesTo ==
  ASSUME IInv, IInv', PassMeans, Plain, ContextMeans, Run, NEW q, q = OpsIn(nodes, m_result)
  PROVE  Answers(q) \/ \E c : GoesOn(c)
  BY ProjectionRun, FilterRun, MaterializeRun, ReturnRun DEF Run
-----------------------------------------------------------------------------
(***************************************************************************)
(* The queries.                                                            *)
(***************************************************************************)
LEMMA UserOpsKept ==
  ASSUME IInv, IInv', [Next]_vars
  PROVE  /\ \A n \in 0 .. user : OpsIn(nodes', n) = OpsIn(nodes, n)
         /\ plans \subseteq 0 .. user
<1>1. TypeOK /\ TypeOK'
  BY DEF IInv
<1>2. user <= user' /\ \A n \in 1 .. user : nodes'[n] = nodes[n]
  BY UserNodesKept
<1>3. user \in 0 .. Len(nodes) /\ Len(nodes) \in Nat /\ plans \subseteq 0 .. user
  BY <1>1, HeapType
<1>4. user' \in 0 .. Len(nodes') /\ Len(nodes') \in Nat
  BY <1>1, TypeParts DEF HeapOK
<1> QED
  BY <1>1, <1>2, <1>3, <1>4, OpsOfKept

NewQuery ==
  /\ pc = "idle" /\ pc' = "idle" /\ answer' = Failed("none")
  /\ user' > user /\ plans' = plans \cup {user'}
  /\ \E input \in plans, o \in Ops : OpsIn(nodes', user') = Append(OpsIn(nodes, input), o)

LEMMA ProjectBuilds == IInv /\ IInv' /\ BuildProject => NewQuery
<1> SUFFICES ASSUME IInv, IInv', BuildProject PROVE NewQuery
  OBVIOUS
<1>1. PICK input \in plans, fields \in Projections :
        nodes' = Append(nodes, ProjectionNode(input, fields))
  BY DEF BuildProject
<1>2. /\ pc = "idle" /\ pc' = "idle" /\ answer' = Failed("none")
      /\ user' = user + 1 /\ plans' = plans \cup {user'}
  BY DEF BuildProject
<1>3. /\ Len(nodes) = user /\ user \in Nat /\ input \in 0 .. user /\ TypeOK /\ TypeOK'
  BY <1>2, HeapType DEF IInv
<1>4. PICK node : node = ProjectionNode(input, fields)
  OBVIOUS
<1>5. node \in Nodes /\ node.input = input /\ node.kind = "projection" /\ node.fields = fields
  BY <1>3, <1>4, NewNodes DEF ProjectionNode
<1>6. Len(nodes') = user + 1 /\ nodes'[user + 1] = node
  <2>1. node.input <= Len(nodes) /\ nodes' = Append(nodes, node)
    BY <1>1, <1>3, <1>4, <1>5
  <2> QED
    BY <1>3, <1>5, <2>1, Allocated
<1>7. OpsIn(nodes', user') = OpsIn(nodes', input) \o NodeOps(node)
  <2>1. user' \in 1 .. Len(nodes')
    BY <1>2, <1>3, <1>6
  <2> QED
    BY <1>2, <1>3, <1>5, <1>6, <2>1, OpsInNext
<1>8. PICK o : o = [op |-> "project", fields |-> fields]
  OBVIOUS
<1>9. NodeOps(node) = <<o>> /\ o \in Ops
  BY <1>5, <1>8, NodeOpsType DEF Ops, Abstract!Operations
<1>10. PICK before : before = OpsIn(nodes, input)
  OBVIOUS
<1>11. before \in Seq(Ops) /\ OpsIn(nodes', input) = before
  <2>0. [Next]_vars
    BY DEF Next
  <2>1. OpsIn(nodes', input) = OpsIn(nodes, input)
    BY <1>3, <2>0, UserOpsKept
  <2> QED
    BY <1>3, <1>10, <2>1, OpsOfNode DEF OpsOf
<1>12. OpsIn(nodes', user') = Append(before, o)
  BY <1>7, <1>9, <1>11, AppendIsConcat
<1> QED
  BY <1>2, <1>3, <1>9, <1>10, <1>12 DEF NewQuery

LEMMA FilterBuilds == IInv /\ IInv' /\ BuildFilter => NewQuery
<1> SUFFICES ASSUME IInv, IInv', BuildFilter PROVE NewQuery
  OBVIOUS
<1>1. PICK input \in plans, expr \in Exprs :
        nodes' = nodes \o <<FilterNode(input, <<expr>>), MaterializeFilterNode(user + 1)>>
  BY DEF BuildFilter
<1>2. /\ pc = "idle" /\ pc' = "idle" /\ answer' = Failed("none")
      /\ user' = user + 2 /\ plans' = plans \cup {user'}
  BY DEF BuildFilter
<1>3. /\ Len(nodes) = user /\ user \in Nat /\ input \in 0 .. user /\ TypeOK /\ TypeOK'
      /\ nodes \in Seq(Nodes)
  BY <1>2, HeapType DEF IInv
<1>4. PICK first, second : /\ first = FilterNode(input, <<expr>>)
                           /\ second = MaterializeFilterNode(user + 1)
  OBVIOUS
<1>5. /\ first \in Nodes /\ first.input = input /\ first.kind = "filter" /\ first.exprs = <<expr>>
      /\ second \in Nodes /\ second.input = user + 1 /\ second.kind = "materialize"
  <2>1. <<expr>> \in Seq(Exprs) \ {<<>>}
    OBVIOUS
  <2>2. input \in Nat /\ user + 1 \in Nat
    BY <1>3
  <2>3. first \in Nodes
    BY <1>4, <2>1, <2>2, NewNodes
  <2>4. second \in Nodes
    BY <1>4, <2>2, NewNodes
  <2> QED
    BY <1>4, <2>3, <2>4 DEF FilterNode, MaterializeFilterNode
<1>6. Len(nodes') = user + 2 /\ nodes'[user + 1] = first /\ nodes'[user + 2] = second
  <2>1. PICK both : both = <<first, second>>
    OBVIOUS
  <2>2. /\ both \in Seq(Nodes) /\ Len(both) = 2 /\ both[1] = first /\ both[2] = second
        /\ nodes' = nodes \o both
    BY <1>1, <1>4, <1>5, <2>1
  <2>3. /\ Len(nodes \o both) = Len(nodes) + Len(both)
        /\ \A n \in 1 .. Len(nodes) + Len(both) :
             (nodes \o both)[n] = IF n <= Len(nodes) THEN nodes[n] ELSE both[n - Len(nodes)]
    BY <1>3, <2>2, ConcatProperties
  <2>4. /\ Len(nodes') = user + 2
        /\ \A n \in 1 .. user + 2 : nodes'[n] = IF n <= user THEN nodes[n] ELSE both[n - user]
    BY <1>3, <2>2, <2>3
  <2> QED
    BY <1>3, <2>2, <2>4
<1>7. /\ OpsIn(nodes', user') = OpsIn(nodes', user + 1) \o NodeOps(second)
      /\ OpsIn(nodes', user + 1) = OpsIn(nodes', input) \o NodeOps(first)
  <2>1. user + 2 \in 1 .. Len(nodes') /\ user + 1 \in 1 .. Len(nodes')
    BY <1>3, <1>6
  <2> QED
    BY <1>2, <1>3, <1>5, <1>6, <2>1, OpsInNext
<1>8. PICK o : o = [op |-> "filter", expr |-> expr]
  OBVIOUS
<1>9. NodeOps(first) = <<o>> /\ NodeOps(second) = <<>> /\ o \in Ops
  <2>1. o \in Ops
    BY <1>8 DEF Ops, Abstract!Operations
  <2>2. NodeOps(second) = <<>>
    BY <1>5, NodeOpsType
  <2>3. PICK own, exprs : own = NodeOps(first) /\ exprs = first.exprs
    OBVIOUS
  <2>4. /\ own \in Seq(Ops) /\ Len(own) = Len(exprs)
        /\ \A i \in 1 .. Len(exprs) : own[i] = [op |-> "filter", expr |-> exprs[i]]
    BY <1>5, <2>3, NodeOpsType
  <2>5. Len(exprs) = 1 /\ exprs[1] = expr
    BY <1>5, <2>3
  <2>6. own = <<o>>
    BY <1>8, <2>4, <2>5
  <2> QED
    BY <2>1, <2>2, <2>3, <2>6
<1>10. PICK before : before = OpsIn(nodes, input)
  OBVIOUS
<1>11. before \in Seq(Ops) /\ OpsIn(nodes', input) = before
  <2>0. [Next]_vars
    BY DEF Next
  <2>1. OpsIn(nodes', input) = OpsIn(nodes, input)
    BY <1>3, <2>0, UserOpsKept
  <2> QED
    BY <1>3, <1>10, <2>1, OpsOfNode DEF OpsOf
<1>12. OpsIn(nodes', user') = Append(before, o)
  <2>1. OpsIn(nodes', user + 1) = Append(before, o)
    BY <1>7, <1>9, <1>11, AppendIsConcat
  <2>2. PICK longer : longer = Append(before, o)
    OBVIOUS
  <2>3. longer \in Seq(Ops)
    BY <1>9, <1>11, <2>2, AppendProperties
  <2>4. longer \o <<>> = longer
    BY <2>3, ConcatEmptySeq
  <2>5. OpsIn(nodes', user') = longer \o <<>>
    BY <1>7, <1>9, <2>1, <2>2, Zenon
  <2> QED
    BY <2>2, <2>4, <2>5, Zenon
<1>13. user' > user
  BY <1>2, <1>3
<1>14. \E i \in plans, op \in Ops : OpsIn(nodes', user') = Append(OpsIn(nodes, i), op)
  BY <1>9, <1>10, <1>12
<1> QED
  BY <1>2, <1>13, <1>14 DEF NewQuery

\* A call of execute goes on, and what it shows stays as it is.
GoesQuietly == Busy /\ Busy' /\ UNCHANGED <<plans, request, answer>>

\* Queries are built; execute is called, goes on, leaves or crashes.
LEMMA StepKinds ==
  IInv /\ IInv' /\ [Next]_vars =>
    \/ NewQuery
    \/ Execute
    \/ GoesQuietly
    \/ pc = "optimize" /\ Refused(request.table) /\ Leave(Failed("not_implemented"))
    \/ pc = "execute" /\ Run
    \/ UNCHANGED vars
<1> SUFFICES ASSUME IInv, IInv', Next
             PROVE  \/ NewQuery \/ Execute \/ GoesQuietly
                    \/ pc = "optimize" /\ Refused(request.table) /\ Leave(Failed("not_implemented"))
                    \/ pc = "execute" /\ Run
  OBVIOUS
<1>1. VisitInput => GoesQuietly
  BY DEF VisitInput, GoesQuietly, Busy, heap
<1>2. PassProjection \/ PassMaterialize \/ PassJoinFilter \/ PassDropMaterialize \/ PassCopyFilter
        => GoesQuietly
  BY DEF PassProjection, PassMaterialize, PassJoinFilter, PassDropMaterialize, PassCopyFilter,
         GoesQuietly, Busy, Visiting, heap
<1>3. CASE StartExecution
  <2>1. CASE Refused(request.table)
    BY <1>3, <2>1 DEF StartExecution
  <2>2. CASE ~Refused(request.table)
    BY <1>3, <2>2 DEF StartExecution, GoesQuietly, Busy, heap
  <2> QED
    BY <2>1, <2>2
<1>4. Run => pc = "execute"
  BY DEF Run, RunProjection, RunFilter, RunMaterialize, Return, Visiting
<1> QED
  BY <1>1, <1>2, <1>3, <1>4, ProjectBuilds, FilterBuilds DEF Next, Optimize

\* What a step of the visitor does to the request and its answer.
LEMMA RunKinds ==
  Run => \/ pc' = pc /\ UNCHANGED <<nodes, plans, request, down, m_result, answer>>
         \/ Crash
         \/ \E what : Leave(what)
<1> SUFFICES ASSUME Run
             PROVE  \/ pc' = pc /\ UNCHANGED <<nodes, plans, request, down, m_result, answer>>
                    \/ Crash
                    \/ \E what : Leave(what)
  OBVIOUS
<1>1. ASSUME NEW next, Continue(next)
      PROVE  pc' = pc /\ UNCHANGED <<nodes, plans, request, down, m_result, answer>>
  BY <1>1 DEF Continue, heap
<1>2. CASE RunProjection
  BY <1>1, <1>2, Zenon DEF RunProjection
<1>3. CASE RunFilter
  BY <1>1, <1>3, Zenon DEF RunFilter
<1>4. CASE RunMaterialize
  BY <1>1, <1>4, Zenon DEF RunMaterialize
<1>5. CASE Return
  BY <1>5, Zenon DEF Return
<1> QED
  BY <1>2, <1>3, <1>4, <1>5 DEF Run

BuiltFrom(h, ps) ==
  \A p \in ps \ {0} : \E q \in ps, o \in Ops : OpsIn(h, p) = Append(OpsIn(h, q), o)

LEMMA BuiltParts ==
  /\ QueriesBuilt <=>
       /\ BuiltFrom(nodes, plans)
       /\ plans = {0} => answer = Failed("none")
       /\ Busy => request.plan # 0 /\ request.table \in Tables /\ answer = Failed("none")
  /\ QueriesBuilt' <=>
       /\ BuiltFrom(nodes', plans')
       /\ plans' = {0} => answer' = Failed("none")
       /\ Busy' => request'.plan # 0 /\ request'.table \in Tables /\ answer' = Failed("none")
<1>1. QueriesBuilt <=>
       /\ BuiltFrom(nodes, plans)
       /\ plans = {0} => answer = Failed("none")
       /\ Busy => request.plan # 0 /\ request.table \in Tables /\ answer = Failed("none")
  BY Zenon DEF QueriesBuilt, BuiltFrom, OpsOf, Ops, Busy
<1>2. QueriesBuilt' <=>
       /\ BuiltFrom(nodes', plans')
       /\ plans' = {0} => answer' = Failed("none")
       /\ Busy' => request'.plan # 0 /\ request'.table \in Tables /\ answer' = Failed("none")
  BY Zenon DEF QueriesBuilt, BuiltFrom, OpsOf, Ops, Busy, Failed
<1> QED
  BY <1>1, <1>2, Zenon

LEMMA QueriesBuiltStep == IInv /\ IInv' /\ QueriesBuilt /\ [Next]_vars => QueriesBuilt'
<1> SUFFICES ASSUME IInv, IInv', QueriesBuilt, [Next]_vars PROVE QueriesBuilt'
  OBVIOUS
<1>1. /\ BuiltFrom(nodes, plans)
      /\ plans = {0} => answer = Failed("none")
      /\ Busy => request.plan # 0 /\ request.table \in Tables /\ answer = Failed("none")
  BY BuiltParts
<1>2. /\ \A n \in plans : OpsIn(nodes', n) = OpsIn(nodes, n)
      /\ plans \subseteq 0 .. user /\ user \in Nat /\ 0 \in plans /\ request.plan \in plans
  <2>1. user \in Nat /\ 0 \in plans
    BY HeapType DEF IInv
  <2>2. request.plan \in plans
    BY TypeParts DEF IInv, ControlOK
  <2> QED
    BY <2>1, <2>2, UserOpsKept
<1>3. CASE NewQuery
  <2>1. PICK input \in plans, o \in Ops : OpsIn(nodes', user') = Append(OpsIn(nodes, input), o)
    BY <1>3 DEF NewQuery
  <2>2. BuiltFrom(nodes', plans')
    <3> SUFFICES ASSUME NEW p \in plans' \ {0}
                 PROVE  \E q \in plans', op \in Ops : OpsIn(nodes', p) = Append(OpsIn(nodes', q), op)
      BY DEF BuiltFrom
    <3>1. plans' = plans \cup {user'}
      BY <1>3 DEF NewQuery
    <3>2. CASE p \in plans
      <4>1. PICK q \in plans, op \in Ops : OpsIn(nodes, p) = Append(OpsIn(nodes, q), op)
        BY <1>1, <3>2 DEF BuiltFrom
      <4> QED
        BY <1>2, <3>1, <3>2, <4>1
    <3>3. CASE p = user'
      BY <1>2, <2>1, <3>1, <3>3
    <3> QED
      BY <3>1, <3>2, <3>3
  <2> QED
    BY <1>3, <2>2, BuiltParts DEF NewQuery, Busy
<1>4. plans' = plans => BuiltFrom(nodes', plans')
  BY <1>1, <1>2 DEF BuiltFrom
<1>5. CASE Execute
  <2>1. plans' = plans /\ answer' = Failed("none")
    BY <1>5 DEF Execute, heap
  <2>2. Busy' => request'.plan # 0 /\ request'.table \in Tables /\ answer' = Failed("none")
    BY <1>5 DEF Execute, Busy
  <2> QED
    BY <1>4, <2>1, <2>2, BuiltParts
<1>6. CASE GoesQuietly
  BY <1>1, <1>4, <1>6, BuiltParts DEF GoesQuietly
<1>7. ASSUME Busy, NEW what, Leave(what) PROVE QueriesBuilt'
  <2>1. plans' = plans /\ ~Busy'
    BY <1>7 DEF Leave, Busy
  <2>2. plans # {0}
    BY <1>1, <1>2, <1>7
  <2> QED
    BY <1>4, <2>1, <2>2, BuiltParts
<1>8. CASE pc = "execute" /\ Run
  <2>1. Busy
    BY <1>8 DEF Busy
  <2>2. CASE pc' = pc /\ UNCHANGED <<nodes, plans, request, down, m_result, answer>>
    BY <1>1, <1>4, <2>2, BuiltParts DEF Busy
  <2>3. CASE Crash
    BY <1>1, <1>4, <2>3, BuiltParts DEF Crash, Busy, heap
  <2> QED
    BY <1>7, <1>8, <2>1, <2>2, <2>3, RunKinds
<1>9. CASE UNCHANGED vars
  BY <1>1, <1>4, <1>9, BuiltParts DEF vars, Busy
<1> QED
  BY <1>3, <1>5, <1>6, <1>7, <1>8, <1>9, StepKinds DEF Busy
-----------------------------------------------------------------------------
(***************************************************************************)
(* The invariant about what plans and contexts mean.                       *)
(***************************************************************************)
IsPlain(q, table) ==
  ~EmptyInput(table) /\ \A i \in DOMAIN q : ~EmptyProjection(q[i]) /\ ~ByConstant(q, i)

LEMMA PlainParts ==
  /\ Plain <=> IsPlain(OpsIn(nodes, request.plan), request.table)
  /\ Plain' <=> IsPlain(OpsIn(nodes', request'.plan), request'.table)
<1>1. Plain <=> IsPlain(OpsIn(nodes, request.plan), request.table)
  BY Zenon DEF Plain, IsPlain, OpsOf
<1>2. Plain' <=> IsPlain(OpsIn(nodes', request'.plan), request'.table)
  BY Zenon DEF Plain, IsPlain, OpsOf, EmptyInput, EmptyProjection, ByConstant, IsFilter
<1> QED
  BY <1>1, <1>2, Zenon

LEMMA ContextStep ==
  ASSUME IInv, IInv', PassMeans, [Next]_vars,
         pc = "execute" /\ down => ctx = Context(request.table),
         pc = "execute" /\ Plain => ContextMeans, pc' = "execute", Plain'
  PROVE  ContextMeans'
<1>1. UNCHANGED <<nodes, request>> => Plain
  BY PlainParts
<1>2. CASE StartExecution
  <2>1. UNCHANGED <<nodes, request>>
    BY <1>2 DEF StartExecution, Leave, heap
  <2> QED
    BY <1>1, <1>2, <2>1, PlainParts, StartContext DEF IsPlain
<1>3. CASE VisitInput
  <2>1. pc = "execute" /\ down /\ UNCHANGED <<nodes, request>>
    BY <1>3 DEF VisitInput, heap
  <2> QED
    BY <1>1, <1>3, <2>1, VisitContext
<1>4. CASE Run
  <2>1. pc = "execute"
    BY <1>4 DEF Run, RunProjection, RunFilter, RunMaterialize, Return, Visiting
  <2>2. pc' = pc /\ UNCHANGED <<nodes, plans, request, down, m_result, answer>>
    BY <1>4, RunKinds DEF Crash, Leave
  <2>3. Plain /\ ContextMeans
    BY <1>1, <2>1, <2>2
  <2>4. ~down
    BY <1>4 DEF Run, RunProjection, RunFilter, RunMaterialize, Return, Visiting, IInv, Executing,
                CallsArePath
  <2>5. PICK q : q = OpsIn(nodes, m_result)
    OBVIOUS
  <2>6. ~Answers(q)
    BY DEF Answers, Leave, Crash
  <2>7. PICK c : GoesOn(c)
    BY <1>4, <2>3, <2>5, <2>6, RunComesTo
  <2>8. ctx' = c
    BY <2>7 DEF GoesOn, Continue
  <2> QED
    BY <2>2, <2>4, <2>7, <2>8, ContextParts DEF GoesOn
<1>5. CASE UNCHANGED vars
  <2>1. UNCHANGED <<nodes, pc, request, todo, down, m_result, ctx>>
    BY <1>5 DEF vars, calls
  <2>2. ContextMeans
    BY <1>1, <2>1
  <2> QED
    BY <2>1, <2>2, ContextParts
<1>6. BuildProject \/ BuildFilter \/ Execute => pc' # "execute"
  BY DEF BuildProject, BuildFilter, Execute
<1>7. PassProjection \/ PassMaterialize \/ PassJoinFilter \/ PassDropMaterialize \/ PassCopyFilter
        => pc' # "execute"
  BY DEF PassProjection, PassMaterialize, PassJoinFilter, PassDropMaterialize, PassCopyFilter, Visiting
<1> QED
  BY <1>2, <1>3, <1>4, <1>5, <1>6, <1>7 DEF Next, Optimize

-----------------------------------------------------------------------------
(***************************************************************************)
(* The bitmap that is missing, and the filter that left none.              *)
(***************************************************************************)
NoBitmapAt(q, i, table) ==
  /\ IsFilter(q, i)
  /\ \/ EmptyInput(table)
     \/ \E j \in 1 .. i - 1 : EmptyProjection(q[j])
     \/ ByConstant(q, i) /\ ~IsFilter(q, i - 1) /\ ~IsFilter(q, i + 1)

\* The context c once d operations of q are done; wanted says whether a
\* materialization is next.
BitmapAfter(q, d, table, c, wanted) ==
  /\ EmptyInput(c.table) <=> EmptyInput(table) \/ \E j \in 1 .. d : EmptyProjection(q[j])
  /\ c.has_bitmap => ~EmptyInput(c.table)
  /\ (\E i \in 1 .. d : NoBitmapAt(q, i, table)) <=> wanted /\ ~c.has_bitmap

BitmapFits(h, plan, t, table, c) ==
  BitmapAfter(OpsIn(h, plan), LengthDone(h, plan, t), table, c, BitmapWanted(h, t))

LEMMA BitmapParts ==
  /\ BitmapMeans(OpsOf(m_result), Len(OpsDone(m_result)))
       <=> BitmapFits(nodes, m_result, todo, request.table, ctx)
  /\ BitmapMeans(OpsOf(m_result), Len(OpsDone(m_result)))'
       <=> BitmapFits(nodes', m_result', todo', request'.table, ctx')
<1>1. BitmapMeans(OpsOf(m_result), Len(OpsDone(m_result)))
        <=> BitmapFits(nodes, m_result, todo, request.table, ctx)
  BY Zenon DEF BitmapMeans, BitmapFits, BitmapAfter, BitmapWanted, LengthDone, Unfiltered, NoBitmapAt,
               Node, OpsDone, OpsOf
<1>2. BitmapMeans(OpsOf(m_result), Len(OpsDone(m_result)))'
        <=> BitmapFits(nodes', m_result', todo', request'.table, ctx')
  BY Zenon DEF BitmapMeans, BitmapFits, BitmapAfter, BitmapWanted, LengthDone, Unfiltered, NoBitmapAt,
               Node, OpsDone, OpsOf, EmptyInput, IsFilter, ByConstant, EmptyProjection
<1> QED
  BY <1>1, <1>2, Zenon

\* Before the first node.
LEMMA BitmapFresh ==
  ASSUME NEW q, NEW table
  PROVE  BitmapAfter(q, 0, table, Context(table), FALSE)
<1>1. Context(table).table = table /\ Context(table).has_bitmap = FALSE
  BY DEF Context
<1>2. \A j : j \notin 1 .. 0
  OBVIOUS
<1> QED
  BY <1>1, <1>2, Zenon DEF BitmapAfter

\* A projection empties the table, if it is on no columns, or leaves it as empty
\* as it was.
LEMMA BitmapProjected ==
  ASSUME NEW q, NEW d \in Nat, NEW table, NEW old, BitmapAfter(q, d, table, old, FALSE),
         NEW fields \in Projections, q[d + 1] = [op |-> "project", fields |-> fields],
         \A i \in DOMAIN fields : HasColumn(old.table.columns, fields[i]),
         NEW c, c.table.columns = fields, c.table.chunked = old.table.chunked, c.has_bitmap = FALSE
  PROVE  BitmapAfter(q, d + 1, table, c, FALSE)
<1>1. /\ EmptyInput(old.table) <=> EmptyInput(table) \/ \E j \in 1 .. d : EmptyProjection(q[j])
      /\ ~ \E i \in 1 .. d : NoBitmapAt(q, i, table)
  BY DEF BitmapAfter
<1>2. \A j : j \in 1 .. d + 1 <=> j \in 1 .. d \/ j = d + 1
  OBVIOUS
<1>3. EmptyProjection(q[d + 1]) <=> fields = <<>>
  BY DEF EmptyProjection
<1>4. ~NoBitmapAt(q, d + 1, table)
  BY DEF NoBitmapAt, IsFilter
<1>5. EmptyInput(c.table) <=> EmptyInput(old.table) \/ fields = <<>>
  <2>1. ASSUME old.table.columns = <<>>, fields # <<>> PROVE FALSE
    <3>1. 1 \in DOMAIN fields
      <4>1. PICK names : fields \in Seq(names)
        BY ProjectionsAssumption
      <4> QED
        BY <2>1, <4>1
    <3>2. \E i \in DOMAIN old.table.columns : old.table.columns[i] = fields[1]
      BY <3>1, NamedIsThere
    <3> QED
      BY <2>1, <3>2
  <2> QED
    BY <2>1 DEF EmptyInput
<1> QED
  BY <1>1, <1>2, <1>3, <1>4, <1>5, Zenon DEF BitmapAfter

\* Joined filters leave no bitmap for an empty input and for a constant alone.
LEMMA BitmapFiltered ==
  ASSUME NEW q \in Seq(Ops), NEW d, NEW exprs, FiltersAt(q, d, exprs), exprs # <<>>,
         ~IsFilter(q, d), ~IsFilter(q, d + Len(exprs) + 1),
         NEW table, NEW old, BitmapAfter(q, d, table, old, FALSE),
         NEW c, c.table = old.table,
         c.has_bitmap <=> ~(EmptyInput(old.table) \/ OnlyConstant(exprs))
  PROVE  BitmapAfter(q, d + Len(exprs), table, c, TRUE)
<1>1. /\ EmptyInput(old.table) <=> EmptyInput(table) \/ \E j \in 1 .. d : EmptyProjection(q[j])
      /\ ~ \E i \in 1 .. d : NoBitmapAt(q, i, table)
  BY DEF BitmapAfter
<1>2. /\ d \in Nat /\ Len(exprs) \in Nat \ {0} /\ d + Len(exprs) <= Len(q) /\ Len(q) \in Nat
      /\ DOMAIN q = 1 .. Len(q)
  BY DEF FiltersAt
<1>3. PICK n, m : n = Len(exprs) /\ m = d + n
  OBVIOUS
<1>4. ASSUME NEW i \in d + 1 .. m
      PROVE  /\ q[i].op = "filter" /\ q[i].expr = exprs[i - d] /\ i - d \in 1 .. n
             /\ IsFilter(q, i) /\ ~EmptyProjection(q[i])
  <2>1. i - d \in 1 .. n /\ d + (i - d) = i /\ i \in DOMAIN q
    BY <1>2, <1>3
  <2>2. q[i] = [op |-> "filter", expr |-> exprs[i - d]]
    BY <1>3, <2>1 DEF FiltersAt
  <2> QED
    BY <2>1, <2>2 DEF IsFilter, EmptyProjection
<1>5. \A i : i \in 1 .. m <=> i \in 1 .. d \/ i \in d + 1 .. m
  BY <1>2, <1>3
<1>6. (\E j \in 1 .. m : EmptyProjection(q[j])) <=> \E j \in 1 .. d : EmptyProjection(q[j])
  BY <1>4, <1>5, Zenon
<1>7. ASSUME NEW i \in d + 1 .. m
      PROVE  (\E j \in 1 .. i - 1 : EmptyProjection(q[j])) <=> \E j \in 1 .. d : EmptyProjection(q[j])
  <2>1. \A j : j \in 1 .. i - 1 => j \in 1 .. d \/ j \in d + 1 .. m
    BY <1>2, <1>3
  <2>2. \A j : j \in 1 .. d => j \in 1 .. i - 1
    BY <1>2, <1>3
  <2> QED
    BY <1>4, <2>1, <2>2, Zenon
<1>8. ASSUME NEW i \in d + 1 .. m
      PROVE  ByConstant(q, i) /\ ~IsFilter(q, i - 1) /\ ~IsFilter(q, i + 1) <=> OnlyConstant(exprs)
  <2>1. CASE n = 1
    <3>1. i = d + 1 /\ i - 1 = d /\ i + 1 = d + n + 1 /\ i - d = 1
      BY <1>2, <1>3, <2>1
    <3>2. ByConstant(q, i) <=> exprs[1] \in Consts
      BY <1>4, <3>1 DEF ByConstant
    <3>3. ~IsFilter(q, i - 1) /\ ~IsFilter(q, i + 1)
      BY <1>3, <3>1
    <3> QED
      BY <1>3, <2>1, <3>2, <3>3 DEF OnlyConstant
  <2>2. CASE n # 1
    <3>1. i - 1 \in d + 1 .. m \/ i + 1 \in d + 1 .. m
      BY <1>2, <1>3, <2>2
    <3>2. IsFilter(q, i - 1) \/ IsFilter(q, i + 1)
      BY <1>4, <3>1
    <3> QED
      BY <1>3, <2>2, <3>2 DEF OnlyConstant
  <2> QED
    BY <2>1, <2>2
<1>9. \A i \in d + 1 .. m :
        NoBitmapAt(q, i, table) <=> EmptyInput(old.table) \/ OnlyConstant(exprs)
  BY <1>1, <1>4, <1>7, <1>8, Zenon DEF NoBitmapAt
<1>10. m \in d + 1 .. m
  BY <1>2, <1>3
<1>11. (\E i \in 1 .. m : NoBitmapAt(q, i, table)) <=> ~c.has_bitmap
  BY <1>1, <1>5, <1>9, <1>10, Zenon
<1> QED
  BY <1>1, <1>3, <1>6, <1>11, Zenon DEF BitmapAfter

\* A materialization with a bitmap leaves the table as empty as it was: not at all.
LEMMA BitmapMaterialized ==
  ASSUME NEW q, NEW d, NEW table, NEW old, BitmapAfter(q, d, table, old, TRUE), old.has_bitmap,
         NEW c, c.table.columns = old.table.columns, c.table.chunked = TRUE, c.has_bitmap = FALSE
  PROVE  BitmapAfter(q, d, table, c, FALSE)
<1>1. ~EmptyInput(old.table)
  BY DEF BitmapAfter
<1>2. ~EmptyInput(c.table)
  BY <1>1 DEF EmptyInput
<1> QED
  BY <1>1, <1>2, Zenon DEF BitmapAfter

\* A filter in the plan executed is not beside another: a projection is before it
\* and, behind its materialization, after it, or nothing is.
LEMMA Neighbours ==
  ASSUME IInv, pc = "execute", ~down, todo # <<>>, Node.kind = "filter",
         NEW q, q = OpsIn(nodes, m_result), NEW d, d = Len(OpsIn(nodes, Node.input))
  PROVE  ~IsFilter(q, d) /\ ~IsFilter(q, d + Len(NodeOps(Node)) + 1)
<1>1. TypeOK /\ Executing /\ CallsArePath(m_result)
  BY DEF IInv, Executing
<1>2. PICK h, t, plan : h = nodes /\ t = todo /\ plan = m_result
  OBVIOUS
<1>3. IsHeap(h)
  BY <1>1, <1>2, HeapIsHeap
<1>4. IsPath(h, t) /\ t[Len(t)] = plan
  <2>1. todo \in Seq(DOMAIN nodes) /\ DOMAIN nodes = 1 .. Len(nodes)
    BY <1>1, HeapType, TypeParts DEF ControlOK
  <2> QED
    BY <1>1, <1>2, <2>1 DEF IsPath, CallsArePath
<1>5. /\ Len(t) \in Nat \ {0} /\ t \in Seq(1 .. Len(h)) /\ Head(t) = t[1] /\ Len(h) \in Nat
      /\ \A k \in 1 .. Len(t) : t[k] \in 1 .. Len(h)
  BY <1>3, <1>4 DEF IsPath, IsHeap
<1>6. ASSUME NEW k \in 1 .. Len(t)
      PROVE  t[k] \in user + 1 .. Len(h) /\ h[t[k]] \in Nodes /\ Joined(t[k])
  <2>1. t[k] \in user + 1 .. Len(h)
    <3>1. t[k] > user /\ user \in 0 .. Len(h)
      BY <1>1, <1>2, <1>5, HeapType DEF Executing
    <3> QED
      BY <1>5, <3>1
  <2> QED
    BY <1>2, <1>3, <1>5, <2>1 DEF IInv, MadeJoined, IsHeap
<1>7. ASSUME NEW k \in 1 .. Len(t) - 1
      PROVE  /\ h[t[k + 1]].kind = "filter" => h[t[k]].kind = "projection"
             /\ h[t[k + 1]].kind = "materialize" <=> h[t[k]].kind = "filter"
  <2>1. k \in 1 .. Len(t) /\ k + 1 \in 1 .. Len(t)
    BY <1>5
  <2>2. h[t[k + 1]].input = t[k] /\ t[k] # 0
    BY <1>4, <1>5, <2>1 DEF IsPath
  <2>3. InputKind(t[k + 1]) = h[t[k]].kind
    BY <1>2, <2>2 DEF InputKind, HasInput
  <2>4. Joined(t[k + 1])
    BY <1>6, <2>1
  <2>5. h[t[k]].kind # "none"
    BY <1>6, <2>1 DEF Nodes
  <2> QED
    BY <1>2, <2>3, <2>4, <2>5, Zenon DEF Joined
<1>8. PICK f : RestFrom(h, t, 1, f)
  <2>1. Len(t) + 1 - Len(t) = 1 /\ Len(t) \in Nat /\ Len(t) <= Len(t)
    BY <1>5
  <2>2. \E f : RestFrom(h, t, Len(t) + 1 - Len(t), f)
    BY <1>3, <1>5, <2>1, RestExists
  <2> QED
    BY <2>1, <2>2
<1>9. \A k \in 1 .. Len(t) : SplitsPath(h, t, f, k)
  BY <1>3, <1>4, <1>8, RestOnPath, Zenon
<1>10. f[Len(t) + 1] = <<>>
  BY <1>5, <1>8 DEF RestFrom
<1>11. 1 \in 1 .. Len(t) /\ h[t[1]].kind = "filter" /\ Node = h[t[1]]
  BY <1>2, <1>5 DEF Node
<1>12. PICK own, rest : own = NodeOps(h[t[1]]) /\ rest = f[2]
  OBVIOUS
<1>13. rest \in Seq(Ops) /\ (rest # <<>> => rest[1].op = "project")
  <2>1. rest \in Seq(Ops)
    <3>1. f[1 + 1] \in Seq(Ops)
      BY <1>9, <1>11 DEF SplitsPath
    <3> QED
      BY <1>12, <3>1
  <2>2. CASE Len(t) = 1
    BY <1>10, <1>12, <2>1, <2>2
  <2>3. CASE Len(t) = 2
    <3>1. 1 \in 1 .. Len(t) - 1 /\ 2 \in 1 .. Len(t)
      BY <2>3
    <3>2. h[t[2]].kind = "materialize"
      BY <1>7, <1>11, <3>1
    <3>3. NodeOps(h[t[2]]) = <<>>
      BY <1>6, <3>1, <3>2, NodeOpsType
    <3>4. SplitsPath(h, t, f, 2) /\ 2 + 1 = 3
      BY <1>9, <3>1
    <3>5. f[3] = <<>>
      BY <1>10, <2>3, <3>4
    <3>6. f[2] = NodeOps(h[t[2]]) \o f[3]
      BY <3>4 DEF SplitsPath
    <3> QED
      BY <1>12, <2>1, <3>3, <3>5, <3>6
  <2>4. CASE Len(t) > 2
    <3>1. 1 \in 1 .. Len(t) - 1 /\ 2 \in 1 .. Len(t) - 1 /\ 2 \in 1 .. Len(t) /\ 3 \in 1 .. Len(t)
      BY <1>5, <2>4
    <3>2. h[t[2]].kind = "materialize" /\ 1 + 1 = 2 /\ 2 + 1 = 3 /\ 3 + 1 = 4
      BY <1>7, <1>11, <3>1
    <3>3. h[t[3]].kind = "projection"
      <4>1. h[t[3]].kind # "filter" /\ h[t[3]].kind # "materialize"
        BY <1>7, <3>1, <3>2
      <4> QED
        BY <1>6, <3>1, <4>1 DEF Nodes
    <3>4. NodeOps(h[t[2]]) = <<>>
      BY <1>6, <3>1, <3>2, NodeOpsType
    <3>5. NodeOps(h[t[3]]) = <<[op |-> "project", fields |-> h[t[3]].fields]>>
      BY <1>6, <3>1, <3>3, NodeOpsType
    <3>6. f[2] = NodeOps(h[t[2]]) \o f[3] /\ f[3] \in Seq(Ops)
      BY <1>9, <3>1, <3>2 DEF SplitsPath
    <3>7. f[3] = NodeOps(h[t[3]]) \o f[4] /\ f[4] \in Seq(Ops)
      BY <1>9, <3>1, <3>2 DEF SplitsPath
    <3>8. PICK one, more : one = [op |-> "project", fields |-> h[t[3]].fields] /\ more = f[4]
      OBVIOUS
    <3>9. f[3] = <<one>> \o more /\ more \in Seq(Ops) /\ one.op = "project"
      BY <3>5, <3>7, <3>8
    <3>10. f[3][1] = one
      BY <3>9
    <3>11. f[2] = f[3]
      BY <3>4, <3>6
    <3>12. rest[1] = one
      BY <1>12, <3>10, <3>11
    <3> QED
      BY <2>1, <3>9, <3>12
  <2>5. Len(t) = 1 \/ Len(t) = 2 \/ Len(t) > 2
    <3>1. \A n \in Nat \ {0} : n = 1 \/ n = 2 \/ n > 2
      OBVIOUS
    <3> QED
      BY <1>5, <3>1, Zenon
  <2> QED
    BY <2>2, <2>3, <2>4, <2>5, Zenon
<1>14. PICK n0, before : n0 = h[t[1]].input /\ before = OpsIn(h, n0)
  OBVIOUS
<1>15. n0 \in 0 .. Len(h) /\ before \in Seq(Ops) /\ own \in Seq(Ops)
  <2>1. n0 \in 0 .. Len(h)
    BY <1>3, <1>5, <1>11, <1>14 DEF IsHeap
  <2> QED
    BY <1>3, <1>6, <1>11, <1>12, <1>14, <2>1, OpsInType, NodeOpsType
<1>16. q = before \o (own \o rest) /\ d = Len(before) /\ Len(NodeOps(Node)) = Len(own)
  <2>1. SplitsPath(h, t, f, 1)
    BY <1>9, <1>11
  <2>2. OpsIn(h, plan) = OpsIn(h, h[t[1]].input) \o f[1] /\ f[1] = NodeOps(h[t[1]]) \o f[2]
    BY <1>4, <2>1 DEF SplitsPath
  <2> QED
    BY <1>2, <1>11, <1>12, <1>14, <2>2
<1>17. /\ Len(before) \in Nat /\ Len(own) \in Nat /\ Len(rest) \in Nat
       /\ Len(q) = Len(before) + Len(own) + Len(rest) /\ DOMAIN q = 1 .. Len(q)
       /\ \A i \in 1 .. Len(before) : q[i] = before[i]
       /\ rest # <<>> => q[Len(before) + Len(own) + 1] = rest[1]
  <2>1. PICK after : after = own \o rest
    OBVIOUS
  <2>2. /\ after \in Seq(Ops) /\ Len(after) = Len(own) + Len(rest)
        /\ \A i \in 1 .. Len(own) + Len(rest) : after[i] =
             IF i <= Len(own) THEN own[i] ELSE rest[i - Len(own)]
    BY <1>13, <1>15, <2>1, ConcatProperties
  <2>3. /\ q \in Seq(Ops) /\ Len(q) = Len(before) + Len(after)
        /\ \A i \in 1 .. Len(before) + Len(after) : q[i] =
             IF i <= Len(before) THEN before[i] ELSE after[i - Len(before)]
    BY <1>15, <1>16, <2>1, <2>2, ConcatProperties
  <2>4. Len(before) \in Nat /\ Len(own) \in Nat /\ Len(rest) \in Nat
    BY <1>13, <1>15
  <2>5. ASSUME rest # <<>> PROVE q[Len(before) + Len(own) + 1] = rest[1]
    <3>1. Len(rest) # 0
      BY <1>13, <2>5
    <3>2. Len(own) + 1 \in 1 .. Len(own) + Len(rest) /\ ~(Len(own) + 1 <= Len(own))
          /\ Len(own) + 1 - Len(own) = 1
      BY <2>4, <3>1
    <3>3. after[Len(own) + 1] = rest[1]
      BY <2>2, <3>2
    <3>4. PICK i : i = Len(before) + Len(own) + 1
      OBVIOUS
    <3>5. i \in 1 .. Len(before) + Len(after) /\ ~(i <= Len(before)) /\ i - Len(before) = Len(own) + 1
      BY <2>2, <2>4, <3>1, <3>4
    <3> QED
      BY <2>3, <3>3, <3>4, <3>5
  <2> QED
    BY <2>2, <2>3, <2>4, <2>5
<1>18. ~IsFilter(q, d)
  <2>1. CASE n0 = 0
    <3>1. before = <<>>
      BY <1>3, <1>14, <2>1, OpsInNode
    <3> QED
      BY <1>16, <1>17, <3>1 DEF IsFilter
  <2>2. CASE n0 # 0
    <3>1. h[n0].kind = "projection" /\ n0 \in 1 .. Len(h) /\ h[n0] \in Nodes
      <4>1. n0 \in 1 .. Len(h) /\ h[n0] \in Nodes
        BY <1>3, <1>15, <2>2 DEF IsHeap
      <4>2. InputKind(t[1]) = h[n0].kind
        BY <1>2, <1>14, <2>2 DEF InputKind, HasInput
      <4>3. Joined(t[1]) /\ h[n0].kind # "none"
        BY <1>6, <1>11, <4>1 DEF Nodes
      <4> QED
        BY <1>2, <1>11, <4>1, <4>2, <4>3, Zenon DEF Joined
    <3>2. PICK one, first : /\ one = [op |-> "project", fields |-> h[n0].fields]
                            /\ first = OpsIn(h, h[n0].input)
      OBVIOUS
    <3>3. before = first \o <<one>>
      <4>1. OpsIn(h, n0) = OpsIn(h, h[n0].input) \o NodeOps(h[n0])
        BY <1>3, <3>1, OpsInNode
      <4>2. NodeOps(h[n0]) = <<[op |-> "project", fields |-> h[n0].fields]>>
        BY <3>1, NodeOpsType
      <4> QED
        BY <1>14, <3>2, <4>1, <4>2
    <3>4. first \in Seq(Ops)
      <4>1. h[n0].input \in 0 .. Len(h)
        BY <1>3, <3>1 DEF IsHeap
      <4> QED
        BY <1>3, <3>2, <4>1, OpsInType
    <3>5. before[Len(before)] = one /\ Len(before) \in 1 .. Len(before)
      BY <3>3, <3>4
    <3>6. q[d].op = "project"
      BY <1>16, <1>17, <3>2, <3>5
    <3> QED
      BY <3>6 DEF IsFilter
  <2> QED
    BY <2>1, <2>2
<1>19. ~IsFilter(q, d + Len(NodeOps(Node)) + 1)
  <2>1. PICK m : m = Len(before) + Len(own) + 1
    OBVIOUS
  <2>2. CASE rest = <<>>
    <3>1. m \notin DOMAIN q
      BY <1>17, <2>1, <2>2
    <3> QED
      BY <1>16, <2>1, <3>1 DEF IsFilter
  <2>3. CASE rest # <<>>
    <3>1. q[m].op = "project"
      BY <1>13, <1>17, <2>1, <2>3
    <3> QED
      BY <1>16, <2>1, <3>1 DEF IsFilter
  <2> QED
    BY <2>2, <2>3
<1> QED
  BY <1>18, <1>19

\* The visitor goes on from a node to one that wants a bitmap or does not.
LEMMA BitmapNext ==
  ASSUME IInv, IInv', pc = "execute", ~down, todo # <<>>, NEW c, Continue(c),
         NEW q, q = OpsIn(nodes, m_result), NEW d, d = Len(OpsIn(nodes, Node.input)),
         NEW table, NEW wanted, wanted <=> Node.kind = "filter",
         BitmapAfter(q, d + Len(NodeOps(Node)), table, c, wanted)
  PROVE  BitmapFits(nodes', m_result', todo', table, c)
<1>1. UNCHANGED <<nodes, m_result>>
  BY DEF Continue, heap
<1>2. /\ LengthDone(nodes', m_result', todo') = d + Len(NodeOps(Node))
      /\ BitmapWanted(nodes', todo') <=> wanted
  BY NextNode
<1>3. PICK n : n = d + Len(NodeOps(Node))
  OBVIOUS
<1>4. /\ BitmapAfter(q, n, table, c, wanted) /\ OpsIn(nodes', m_result') = q
      /\ LengthDone(nodes', m_result', todo') = n
  BY <1>1, <1>2, <1>3
<1> QED
  BY <1>2, <1>4, Zenon DEF BitmapFits, BitmapAfter

\* What is known when a node is run.
AtNode(q, d, node, t, table, wanted) ==
  /\ pc = "execute" /\ ~down /\ todo # <<>> /\ node = Node /\ t = ctx.table /\ table = request.table
  /\ q = OpsIn(nodes, m_result) /\ d = Len(OpsIn(nodes, Node.input))
  /\ NodeAtOps(q, d, node)
  /\ BitmapAfter(q, d, table, ctx, wanted)

LEMMA NodeKnown ==
  ASSUME IInv, pc = "execute", ~down, todo # <<>>, NEW wanted, wanted <=> Node.kind = "materialize",
         BitmapFits(nodes, m_result, todo, request.table, ctx)
  PROVE  \E q, d, node, t, table : AtNode(q, d, node, t, table, wanted)
<1>1. PICK q, d, node, t, table :
        /\ q = OpsIn(nodes, m_result) /\ d = Len(OpsIn(nodes, Node.input)) /\ node = Node
        /\ t = ctx.table /\ table = request.table
  OBVIOUS
<1>2. NodeAtOps(q, d, node)
  BY <1>1, NodeRun
<1>3. LengthDone(nodes, m_result, todo) = d /\ (BitmapWanted(nodes, todo) <=> wanted)
  BY <1>1, Zenon DEF LengthDone, BitmapWanted, Node
<1>4. BitmapAfter(q, d, table, ctx, wanted)
  BY <1>1, <1>3, Zenon DEF BitmapFits, BitmapAfter
<1> QED
  BY <1>1, <1>2, <1>4, Zenon DEF AtNode

LEMMA BitmapOfProjection ==
  ASSUME IInv, IInv', BitmapFits(nodes, m_result, todo, request.table, ctx), RunProjection,
         pc' = "execute"
  PROVE  BitmapFits(nodes', m_result', todo', request.table, ctx')
<1>1. pc = "execute" /\ ~down /\ todo # <<>> /\ Node.kind = "projection"
  BY DEF RunProjection, Visiting
<1>2. PICK q, d, node, t, table : AtNode(q, d, node, t, table, FALSE)
  BY <1>1, NodeKnown
<1>3. PICK fields, c : /\ fields = node.fields
                       /\ c = Context([t EXCEPT !.columns = fields,
                                                !.rows = IF fields = <<>> THEN {} ELSE @])
  OBVIOUS
<1>4. Continue(c) /\ \A i \in DOMAIN fields : GetColumnByName(t, fields[i])
  BY <1>2, <1>3 DEF RunProjection, Crash, AtNode
<1>5. \A i \in DOMAIN fields : HasColumn(t.columns, fields[i])
  BY <1>4, ColumnFound
<1>6. IsTable(t)
  BY <1>2 DEF AtNode, IInv, TypeOK
<1>7. c.table.columns = fields /\ c.table.chunked = t.chunked /\ c.has_bitmap = FALSE
  BY <1>3, <1>6 DEF IsTable, Context
<1>8. /\ d \in Nat /\ Len(NodeOps(node)) = 1 /\ fields \in Projections
      /\ q[d + 1] = [op |-> "project", fields |-> fields]
  <2>1. node \in Nodes /\ node.kind = "projection" /\ NodeAtOps(q, d, node)
    BY <1>1, <1>2 DEF AtNode, NodeAtOps
  <2>2. NodeOps(node) = <<[op |-> "project", fields |-> fields]>>
    BY <1>3, <2>1, NodeOpsType
  <2>3. Len(NodeOps(node)) = 1 /\ 1 \in 1 .. Len(NodeOps(node))
        /\ NodeOps(node)[1] = [op |-> "project", fields |-> fields]
    BY <2>2
  <2> QED
    BY <1>3, <2>1, <2>3 DEF NodeAtOps, Nodes
<1>9. PICK old : old = ctx
  OBVIOUS
<1>10. BitmapAfter(q, d, table, old, FALSE) /\ old.table = t
  BY <1>2, <1>9 DEF AtNode
<1>11. BitmapAfter(q, d + 1, table, c, FALSE)
  BY <1>5, <1>7, <1>8, <1>10, BitmapProjected
<1>12. BitmapAfter(q, d + Len(NodeOps(Node)), table, c, FALSE)
  BY <1>2, <1>8, <1>11 DEF AtNode
<1>13. BitmapFits(nodes', m_result', todo', table, c)
  BY <1>1, <1>2, <1>4, <1>12, BitmapNext DEF AtNode
<1> QED
  BY <1>2, <1>4, <1>13 DEF AtNode, Continue

LEMMA BitmapOfFilter ==
  ASSUME IInv, IInv', BitmapFits(nodes, m_result, todo, request.table, ctx), RunFilter,
         pc' = "execute"
  PROVE  BitmapFits(nodes', m_result', todo', request.table, ctx')
<1>1. pc = "execute" /\ ~down /\ todo # <<>> /\ Node.kind = "filter"
  BY DEF RunFilter, Visiting
<1>2. PICK q, d, node, t, table : AtNode(q, d, node, t, table, FALSE)
  BY <1>1, NodeKnown
<1>3. PICK exprs : exprs = node.exprs
  OBVIOUS
<1>4. \E c : /\ Continue(c) /\ c.table = t
             /\ c.has_bitmap <=> ~(EmptyInput(t) \/ OnlyConstant(exprs))
  <2>1. ASSUME NEW chosen
        PROVE  LET c == [Context(t) EXCEPT !.has_bitmap = TRUE, !.bitmap = chosen]
               IN  c.table = t /\ c.has_bitmap = TRUE
    BY DEF Context
  <2>2. Context(t).table = t /\ Context(t).has_bitmap = FALSE
    BY DEF Context
  <2>3. \A what : ~Leave(what)
    BY DEF Leave
  <2>4. ~Crash
    BY DEF Crash
  <2>5. CASE EmptyInput(t) \/ OnlyConstant(exprs)
    <3>1. Continue(Context(t))
      BY <1>2, <1>3, <2>5, Zenon DEF RunFilter, AtNode
    <3> QED
      BY <2>2, <2>5, <3>1, Zenon
  <2>6. CASE ~(EmptyInput(t) \/ OnlyConstant(exprs))
    <3>1. PICK chosen : chosen = SelectedBy(t, exprs)
      OBVIOUS
    <3>2. Continue([Context(t) EXCEPT !.has_bitmap = TRUE, !.bitmap = chosen])
      BY <1>2, <1>3, <2>3, <2>4, <2>6, <3>1, Zenon DEF RunFilter, AtNode
    <3> QED
      BY <2>1, <2>6, <3>2, Zenon
  <2> QED
    BY <2>5, <2>6
<1>5. PICK c : /\ Continue(c) /\ c.table = t
               /\ c.has_bitmap <=> ~(EmptyInput(t) \/ OnlyConstant(exprs))
  BY <1>4
<1>6. /\ q \in Seq(Ops) /\ d \in Nat /\ Len(NodeOps(node)) = Len(exprs)
      /\ FiltersAt(q, d, exprs) /\ exprs # <<>>
  <2>1. node \in Nodes /\ node.kind = "filter" /\ NodeAtOps(q, d, node)
    BY <1>1, <1>2 DEF AtNode, NodeAtOps
  <2>2. /\ Len(NodeOps(node)) = Len(exprs) /\ exprs \in Seq(Exprs) \ {<<>>}
        /\ \A i \in 1 .. Len(exprs) : NodeOps(node)[i] = [op |-> "filter", expr |-> exprs[i]]
    BY <1>3, <2>1, NodeOpsType
  <2> QED
    BY <2>1, <2>2 DEF NodeAtOps, FiltersAt
<1>7. ~IsFilter(q, d) /\ ~IsFilter(q, d + Len(NodeOps(Node)) + 1)
  BY <1>1, <1>2, Neighbours DEF AtNode
<1>8. ~IsFilter(q, d + Len(exprs) + 1)
  BY <1>2, <1>6, <1>7 DEF AtNode
<1>9. PICK old : old = ctx
  OBVIOUS
<1>10. BitmapAfter(q, d, table, old, FALSE) /\ old.table = t
  BY <1>2, <1>9 DEF AtNode
<1>11. BitmapAfter(q, d + Len(exprs), table, c, TRUE)
  BY <1>5, <1>6, <1>7, <1>8, <1>10, BitmapFiltered
<1>12. BitmapAfter(q, d + Len(NodeOps(Node)), table, c, TRUE)
  BY <1>2, <1>6, <1>11 DEF AtNode
<1>13. BitmapFits(nodes', m_result', todo', table, c)
  BY <1>1, <1>2, <1>5, <1>12, BitmapNext DEF AtNode
<1> QED
  BY <1>2, <1>5, <1>13 DEF AtNode, Continue

LEMMA BitmapOfMaterialize ==
  ASSUME IInv, IInv', BitmapFits(nodes, m_result, todo, request.table, ctx), RunMaterialize,
         pc' = "execute"
  PROVE  BitmapFits(nodes', m_result', todo', request.table, ctx')
<1>1. pc = "execute" /\ ~down /\ todo # <<>> /\ Node.kind = "materialize"
  BY DEF RunMaterialize, Visiting
<1>2. PICK q, d, node, t, table : AtNode(q, d, node, t, table, TRUE)
  BY <1>1, NodeKnown
<1>3. PICK c, old : /\ c = Context([t EXCEPT !.rows = ctx.bitmap, !.chunked = TRUE])
                    /\ old = ctx
  OBVIOUS
<1>4. Continue(c) /\ ctx.has_bitmap
  <2>1. \A what : ~Leave(what)
    BY DEF Leave
  <2> QED
    BY <1>2, <1>3, <2>1, Zenon DEF RunMaterialize, AtNode
<1>5. IsTable(t)
  BY <1>2 DEF AtNode, IInv, TypeOK
<1>6. c.table.columns = t.columns /\ c.table.chunked = TRUE /\ c.has_bitmap = FALSE
  BY <1>3, <1>5 DEF IsTable, Context
<1>7. d \in Nat /\ Len(NodeOps(node)) = 0
  <2>1. node \in Nodes /\ node.kind = "materialize" /\ d \in Nat
    BY <1>1, <1>2 DEF AtNode, NodeAtOps
  <2>2. NodeOps(node) = <<>>
    BY <2>1, NodeOpsType
  <2> QED
    BY <2>1, <2>2
<1>8. BitmapAfter(q, d, table, old, TRUE) /\ old.table = t /\ old.has_bitmap
  BY <1>2, <1>3, <1>4 DEF AtNode
<1>9. BitmapAfter(q, d, table, c, FALSE)
  BY <1>6, <1>8, BitmapMaterialized
<1>10. d + Len(NodeOps(Node)) = d
  BY <1>2, <1>7 DEF AtNode
<1>11. BitmapAfter(q, d + Len(NodeOps(Node)), table, c, FALSE)
  BY <1>9, <1>10
<1>12. BitmapFits(nodes', m_result', todo', table, c)
  BY <1>1, <1>2, <1>4, <1>11, BitmapNext DEF AtNode
<1> QED
  BY <1>2, <1>4, <1>12 DEF AtNode, Continue

\* Before the first node nothing is done.
LEMMA BitmapAtFirst ==
  ASSUME NEW h, IsHeap(h), NEW plan, NEW t, AtFirst(h, t), NEW table
  PROVE  BitmapFits(h, plan, t, table, Context(table))
<1>1. OpsIn(h, h[Head(t)].input) = <<>>
  BY OpsInNode DEF AtFirst
<1>2. Len(OpsIn(h, h[Head(t)].input)) = 0
  BY <1>1
<1>3. LengthDone(h, plan, t) = 0 /\ (BitmapWanted(h, t) <=> FALSE)
  BY <1>2, Zenon DEF LengthDone, BitmapWanted, AtFirst
<1>4. PICK q, c : q = OpsIn(h, plan) /\ c = Context(table)
  OBVIOUS
<1>5. BitmapAfter(q, 0, table, c, FALSE)
  BY <1>4, BitmapFresh
<1> QED
  BY <1>3, <1>4, <1>5, Zenon DEF BitmapFits, BitmapAfter

LEMMA BitmapStep ==
  ASSUME IInv, IInv', [Next]_vars,
         pc = "execute" /\ down => ctx = Context(request.table),
         pc = "execute" /\ ~down => BitmapMeans(OpsOf(m_result), Len(OpsDone(m_result)))
  PROVE  (pc = "execute" /\ ~down => BitmapMeans(OpsOf(m_result), Len(OpsDone(m_result))))'
<1> SUFFICES ASSUME pc' = "execute", ~down'
             PROVE  BitmapFits(nodes', m_result', todo', request'.table, ctx')
  BY BitmapParts
<1>1. ASSUME AtFirst(nodes', todo'), ctx' = Context(request'.table)
      PROVE  BitmapFits(nodes', m_result', todo', request'.table, ctx')
  <2>1. PICK h, plan, t, table :
          h = nodes' /\ plan = m_result' /\ t = todo' /\ table = request'.table
    OBVIOUS
  <2>2. TypeOK' /\ IsHeap(h) /\ AtFirst(h, t)
    BY <1>1, <2>1, NextHeapIsHeap DEF IInv
  <2>3. BitmapFits(h, plan, t, table, Context(table))
    BY <2>2, BitmapAtFirst
  <2> QED
    BY <1>1, <2>1, <2>3
<1>2. CASE StartExecution
  <2>1. ctx' = Context(request'.table)
    BY <1>2 DEF StartExecution, Leave
  <2> QED
    BY <1>1, <1>2, <2>1, StartsFirst
<1>3. CASE VisitInput
  <2>1. pc = "execute" /\ down /\ UNCHANGED <<request, ctx>>
    BY <1>3 DEF VisitInput
  <2>2. ctx' = Context(request'.table)
    BY <2>1
  <2> QED
    BY <1>1, <1>3, <2>1, <2>2, VisitsFirst
<1>4. CASE Run
  <2>1. pc = "execute" /\ ~down
    BY <1>4 DEF Run, RunProjection, RunFilter, RunMaterialize, Return, Visiting, IInv, Executing,
                CallsArePath
  <2>2. BitmapFits(nodes, m_result, todo, request.table, ctx)
    BY <2>1, BitmapParts
  <2>3. UNCHANGED request /\ ~Return
    <3>1. \A what : ~Leave(what)
      BY DEF Leave
    <3>2. UNCHANGED request
      BY <1>4, <3>1, RunKinds DEF Crash
    <3> QED
      BY <3>1, <3>2, Zenon DEF Return
  <2> QED
    BY <1>4, <2>2, <2>3, BitmapOfProjection, BitmapOfFilter, BitmapOfMaterialize DEF Run
<1>5. CASE UNCHANGED vars
  <2>1. UNCHANGED <<nodes, pc, request, todo, down, m_result, ctx>>
    BY <1>5 DEF vars, calls
  <2>2. BitmapFits(nodes, m_result, todo, request.table, ctx)
    BY <2>1, BitmapParts
  <2> QED
    BY <2>1, <2>2
<1>6. BuildProject \/ BuildFilter \/ Execute => pc' # "execute"
  BY DEF BuildProject, BuildFilter, Execute
<1>7. PassProjection \/ PassMaterialize \/ PassJoinFilter \/ PassDropMaterialize \/ PassCopyFilter
        => pc' # "execute"
  BY DEF PassProjection, PassMaterialize, PassJoinFilter, PassDropMaterialize, PassCopyFilter, Visiting
<1> QED
  BY <1>2, <1>3, <1>4, <1>5, <1>6, <1>7 DEF Next, Optimize

\* On the way down to the first node the context is the one execute starts from.
LEMMA DownContext ==
  IInv /\ (pc = "execute" /\ down => ctx = Context(request.table)) /\ [Next]_vars
    => (pc = "execute" /\ down => ctx = Context(request.table))'
<1> SUFFICES ASSUME IInv, pc = "execute" /\ down => ctx = Context(request.table), [Next]_vars,
                    pc' = "execute", down'
             PROVE  ctx' = Context(request'.table)
  BY Zenon DEF Context
<1>1. CASE StartExecution
  BY <1>1 DEF StartExecution, Leave
<1>2. CASE VisitInput
  BY <1>2 DEF VisitInput
<1>3. Run => ~down'
  <2> SUFFICES ASSUME Run PROVE ~down'
    OBVIOUS
  <2>1. ~down
    BY DEF Run, RunProjection, RunFilter, RunMaterialize, Return, Visiting, IInv, Executing,
           CallsArePath
  <2> QED
    BY <2>1, RunKinds DEF Crash, Leave, calls
<1>4. CASE UNCHANGED vars
  BY <1>4 DEF vars, calls
<1>5. BuildProject \/ BuildFilter \/ Execute => pc' # "execute"
  BY DEF BuildProject, BuildFilter, Execute
<1>6. PassProjection \/ PassMaterialize \/ PassJoinFilter \/ PassDropMaterialize \/ PassCopyFilter
        => pc' # "execute"
  BY DEF PassProjection, PassMaterialize, PassJoinFilter, PassDropMaterialize, PassCopyFilter, Visiting
<1> QED
  BY <1>1, <1>2, <1>3, <1>4, <1>5, <1>6 DEF Next, Optimize

LEMMA InitMeaning == Init => MInv
<1> SUFFICES ASSUME Init PROVE MInv
  OBVIOUS
<1>1. BuiltFrom(nodes, plans) /\ answer = Failed("none") /\ pc = "idle"
  BY DEF Init, BuiltFrom
<1>2. QueriesBuilt
  BY <1>1, BuiltParts DEF Busy
<1>3. PassMeans
  BY <1>1, DoneParts
<1> QED
  BY <1>1, <1>2, <1>3, InitInvariant DEF MInv

LEMMA StepMeaning == MInv /\ [Next]_vars => MInv'
<1> SUFFICES ASSUME MInv, [Next]_vars PROVE MInv'
  OBVIOUS
<1>1. /\ IInv /\ QueriesBuilt /\ PassMeans
      /\ pc = "execute" /\ down => ctx = Context(request.table)
      /\ pc = "execute" /\ ~down => BitmapMeans(OpsOf(m_result), Len(OpsDone(m_result)))
      /\ pc = "execute" /\ Plain => ContextMeans
  BY DEF MInv
<1>2. IInv'
  BY <1>1, StepInvariant
<1>3. QueriesBuilt' /\ PassMeans'
  BY <1>1, <1>2, QueriesBuiltStep, PassMeansStep
<1>4. pc' = "execute" /\ Plain' => ContextMeans'
  BY <1>1, <1>2, ContextStep
<1>5. (pc = "execute" /\ down => ctx = Context(request.table))'
  BY <1>1, DownContext
<1>6. (pc = "execute" /\ ~down => BitmapMeans(OpsOf(m_result), Len(OpsDone(m_result))))'
  BY <1>1, <1>2, <1>3, BitmapStep
<1> QED
  BY <1>2, <1>3, <1>4, <1>5, <1>6 DEF MInv

(***************************************************************************)
(* Every plan is a query that was built, the pass and the visitor are      *)
(* where the query says, and the context holds the answer so far.          *)
(***************************************************************************)
THEOREM MeaningInvariance == Spec => []MInv
<1> QED
  BY InitMeaning, StepMeaning, PTL DEF Spec

\* What execute answers before it is done, and what the ways it ends in answer.
LEMMA Replies ==
  ASSUME answer = Failed("none"), Run
  PROVE  /\ answer'.result = "unreachable" => RunMaterialize /\ ~ctx.has_bitmap
         /\ answer'.result = "table" => Return
<1>1. answer.result \notin {"unreachable", "table"}
  BY DEF Failed
<1>2. \A c : Continue(c) => answer' = answer
  BY DEF Continue
<1>3. Crash => answer' = answer
  BY DEF Crash
<1>4. \A why : Leave(Failed(why)) => answer'.result = why
  BY DEF Leave, Failed
<1>5. CASE RunProjection
  BY <1>1, <1>2, <1>3, <1>5, Zenon DEF RunProjection
<1>6. CASE RunFilter
  <2>1. answer' = answer \/ \E i : answer'.result = ErrorAt(Node.exprs, i)
    BY <1>2, <1>3, <1>4, <1>6, Zenon DEF RunFilter
  <2>2. \A i : ErrorAt(Node.exprs, i) \notin {"unreachable", "table"}
    <3>1. PICK exprs : exprs = Node.exprs
      OBVIOUS
    <3>2. \A i : ErrorAt(exprs, i) \in {"none", "crash", "not_implemented", "bad_variant_access"}
      BY ErrorType
    <3> QED
      BY <3>1, <3>2
  <2> QED
    BY <1>1, <2>1, <2>2
<1>7. CASE RunMaterialize
  <2>1. \/ ~ctx.has_bitmap /\ answer'.result = "unreachable"
        \/ answer'.result = "not_implemented"
        \/ answer' = answer
    BY <1>2, <1>4, <1>7, Zenon DEF RunMaterialize
  <2> QED
    BY <1>1, <1>7, <2>1
<1>8. CASE Return
  <2>1. answer'.result = "table"
    BY <1>8 DEF Return, Leave, Returned
  <2> QED
    BY <1>8, <2>1
<1> QED
  BY <1>5, <1>6, <1>7, <1>8 DEF Run

LEMMA UnfilteredOps ==
  ASSUME IInv, PassMeans, pc = "execute", ~down,
         BitmapMeans(OpsOf(m_result), Len(OpsDone(m_result))),
         NEW q, q = OpsIn(nodes, m_result)
  PROVE  /\ \A i : NoBitmapAt(q, i, request.table) <=> Unfiltered(OpsOf(request.plan), i)
         /\ RunMaterialize /\ ~ctx.has_bitmap => \E i \in DOMAIN q : NoBitmapAt(q, i, request.table)
         /\ Return => \A i \in DOMAIN q : ~NoBitmapAt(q, i, request.table)
<1>1. q = OpsOf(request.plan)
  BY DoneParts DEF OpsOf
<1>2. \A i : NoBitmapAt(q, i, request.table) <=> Unfiltered(OpsOf(request.plan), i)
  BY <1>1, Zenon DEF NoBitmapAt, Unfiltered
<1>3. BitmapFits(nodes, m_result, todo, request.table, ctx)
  BY BitmapParts
<1>4. ASSUME RunMaterialize, ~ctx.has_bitmap
      PROVE  \E i \in DOMAIN q : NoBitmapAt(q, i, request.table)
  <2>1. pc = "execute" /\ ~down /\ todo # <<>> /\ Node.kind = "materialize"
    BY <1>4 DEF RunMaterialize, Visiting
  <2>2. PICK p, d, node, t, table : AtNode(p, d, node, t, table, TRUE)
    BY <1>3, <2>1, NodeKnown
  <2>3. p = q /\ table = request.table /\ d \in Nat /\ d <= Len(q) /\ q \in Seq(Ops)
    <3>1. PICK k : k = Len(NodeOps(node))
      OBVIOUS
    <3>2. d \in Nat /\ k \in Nat /\ d + k <= Len(p) /\ p \in Seq(Ops)
      BY <2>2, <3>1 DEF AtNode, NodeAtOps
    <3>3. Len(p) \in Nat
      BY <3>2
    <3> QED
      BY <2>2, <3>2, <3>3 DEF AtNode
  <2>4. \E i \in 1 .. d : NoBitmapAt(q, i, request.table)
    BY <1>4, <2>2, <2>3 DEF AtNode, BitmapAfter
  <2>5. \A i \in 1 .. d : i \in DOMAIN q
    BY <2>3
  <2> QED
    BY <2>4, <2>5
<1>5. ASSUME Return PROVE \A i \in DOMAIN q : ~NoBitmapAt(q, i, request.table)
  <2>1. todo = <<>>
    BY <1>5 DEF Return
  <2>2. q \in Seq(Ops)
    <3>1. PICK h, plan : h = nodes /\ plan = m_result
      OBVIOUS
    <3>2. IsHeap(h) /\ plan \in 0 .. Len(h)
      BY <3>1, HeapIsHeap, TypeParts DEF IInv, ControlOK
    <3> QED
      BY <3>1, <3>2, OpsInType
  <2>3. LengthDone(nodes, m_result, todo) = Len(q) /\ ~BitmapWanted(nodes, todo)
    BY <2>1, Zenon DEF LengthDone, BitmapWanted
  <2>4. ~ \E i \in 1 .. Len(q) : NoBitmapAt(q, i, request.table)
    BY <1>3, <2>3, Zenon DEF BitmapFits, BitmapAfter
  <2> QED
    BY <2>2, <2>4
<1> QED
  BY <1>2, <1>4, <1>5

(***************************************************************************)
(* UnreachableException is thrown exactly for the queries with a filter    *)
(* that leaves no bitmap, on an empty input or by a constant alone,        *)
(* whatever the plan and however its filters are joined.                   *)
(***************************************************************************)
THEOREM ThrowsUnreachable == Spec => UnreachableExactly
<1>1. MInv /\ MInv' /\ [Next]_vars
        => [Decided("unreachable") \/ Decided("table") =>
              (Decided("unreachable") <=> \E i \in DOMAIN OpsOf(request.plan) :
                                            Unfiltered(OpsOf(request.plan), i))]_vars
  <2> SUFFICES ASSUME MInv, MInv', Next, pc = "execute",
                      answer'.result = "unreachable" \/ answer'.result = "table"
               PROVE  answer'.result = "unreachable" <=>
                        \E i \in DOMAIN OpsOf(request.plan) : Unfiltered(OpsOf(request.plan), i)
    BY DEF Decided
  <2>1. IInv /\ IInv' /\ PassMeans /\ QueriesBuilt
    BY DEF MInv
  <2>2. answer = Failed("none") /\ Busy
    BY <2>1, BuiltParts DEF Busy
  <2>3. Run
    <3>1. answer' # answer
      BY <2>2 DEF Failed
    <3>2. ~GoesQuietly /\ ~UNCHANGED vars
      BY <3>1 DEF GoesQuietly, vars
    <3> QED
      BY <2>1, <2>2, <3>2, StepKinds DEF NewQuery, Execute, Busy
  <2>4. ~down
    BY <2>1, <2>3 DEF Run, RunProjection, RunFilter, RunMaterialize, Return, Visiting, IInv, Executing,
                      CallsArePath
  <2>5. PICK q : q = OpsIn(nodes, m_result)
    OBVIOUS
  <2>6. q = OpsOf(request.plan)
    BY <2>1, <2>5, DoneParts DEF OpsOf
  <2>7. /\ \A i : NoBitmapAt(q, i, request.table) <=> Unfiltered(OpsOf(request.plan), i)
        /\ RunMaterialize /\ ~ctx.has_bitmap => \E i \in DOMAIN q : NoBitmapAt(q, i, request.table)
        /\ Return => \A i \in DOMAIN q : ~NoBitmapAt(q, i, request.table)
    BY <2>1, <2>4, <2>5, UnfilteredOps DEF MInv
  <2>8. /\ answer'.result = "unreachable" => RunMaterialize /\ ~ctx.has_bitmap
        /\ answer'.result = "table" => Return
    BY <2>2, <2>3, Replies
  <2> QED
    BY <2>6, <2>7, <2>8
<1> QED
  BY <1>1, MeaningInvariance, PTL DEF Spec, UnreachableExactly
-----------------------------------------------------------------------------
(***************************************************************************)
(* The refinement: the variables of Query as the plans and the visitor     *)
(* show them, now and after a step, and the steps of Query in their terms. *)
(***************************************************************************)
Queries == {OpsOf(p) : p \in plans}

LEMMA ViewParts ==
  /\ Queries = {OpsIn(nodes, p) : p \in plans}
  /\ Queries' = {OpsIn(nodes', p) : p \in plans'}
  /\ Asked = IF Busy THEN <<OpsIn(nodes, request.plan), request.table>> ELSE <<>>
  /\ Asked' = IF Busy' THEN <<OpsIn(nodes', request'.plan), request'.table>> ELSE <<>>
  /\ Answer = IF pc = "crash" /\ request.plan # 0 THEN Failed("no_table") ELSE answer
  /\ Answer' = IF pc' = "crash" /\ request'.plan # 0 THEN Failed("no_table") ELSE answer'
<1>1. /\ Queries = {OpsIn(nodes, p) : p \in plans}
      /\ Queries' = {OpsIn(nodes', p) : p \in plans'}
  BY Zenon DEF Queries, OpsOf
<1>2. /\ Asked = IF Busy THEN <<OpsIn(nodes, request.plan), request.table>> ELSE <<>>
      /\ Asked' = IF Busy' THEN <<OpsIn(nodes', request'.plan), request'.table>> ELSE <<>>
  BY Zenon DEF Asked, OpsOf, Busy
<1>3. /\ Answer = IF pc = "crash" /\ request.plan # 0 THEN Failed("no_table") ELSE answer
      /\ Answer' = IF pc' = "crash" /\ request'.plan # 0 THEN Failed("no_table") ELSE answer'
  BY Zenon DEF Answer, Failed
<1> QED
  BY <1>1, <1>2, <1>3, Zenon

LEMMA ViewSteps ==
  /\ Queries = {<<>>} /\ Asked = <<>> /\ Answer = Failed("none") => Abstract!Init
  /\ /\ Asked = <<>> /\ UNCHANGED Asked /\ Answer' = Failed("none")
     /\ \E q \in Queries, o \in Ops : Queries' = Queries \cup {Append(q, o)}
     => Abstract!Build
  /\ /\ Asked = <<>> /\ UNCHANGED Queries /\ Answer' = Failed("none")
     /\ \E q \in Queries \ {<<>>}, t \in Tables : Asked' = <<q, t>>
     => Abstract!Ask
  /\ /\ Asked # <<>> /\ Asked' = <<>> /\ UNCHANGED Queries
     /\ \/ Answer' = Abstract!Evaluate(Asked[1], Asked[2])
        \/ ~Abstract!AllNumeric(Asked[2]) /\ Answer' = Failed("not_implemented")
     => Abstract!Reply
  /\ UNCHANGED <<Queries, Asked, Answer>> => UNCHANGED Abstract!vars
<1>1. Queries = {<<>>} /\ Asked = <<>> /\ Answer = Failed("none") => Abstract!Init
  BY Zenon DEF Abstract!Init, Queries, Failed, Abstract!Failed
<1>2. /\ Asked = <<>> /\ UNCHANGED Asked /\ Answer' = Failed("none")
      /\ \E q \in Queries, o \in Ops : Queries' = Queries \cup {Append(q, o)}
      => Abstract!Build
  BY Zenon DEF Abstract!Build, Queries, Failed, Abstract!Failed, Ops
<1>3. /\ Asked = <<>> /\ UNCHANGED Queries /\ Answer' = Failed("none")
      /\ \E q \in Queries \ {<<>>}, t \in Tables : Asked' = <<q, t>>
      => Abstract!Ask
  BY Zenon DEF Abstract!Ask, Queries, Failed, Abstract!Failed
<1>4. /\ Asked # <<>> /\ Asked' = <<>> /\ UNCHANGED Queries
      /\ \/ Answer' = Abstract!Evaluate(Asked[1], Asked[2])
         \/ ~Abstract!AllNumeric(Asked[2]) /\ Answer' = Failed("not_implemented")
      => Abstract!Reply
  BY Zenon DEF Abstract!Reply, Queries, Failed, Abstract!Failed
<1>5. UNCHANGED <<Queries, Asked, Answer>> => UNCHANGED Abstract!vars
  BY Zenon DEF Abstract!vars, Queries
<1> QED
  BY <1>1, <1>2, <1>3, <1>4, <1>5, Zenon

\* A step that builds nothing keeps the queries.
LEMMA QueriesKept ==
  ASSUME IInv, IInv', [Next]_vars, plans' = plans
  PROVE  Queries' = Queries
<1>1. \A p \in plans : OpsIn(nodes', p) = OpsIn(nodes, p)
  BY UserOpsKept
<1> QED
  BY <1>1, ViewParts

LEMMA NewQueryBuilds ==
  ASSUME IInv, IInv', [Next]_vars, NewQuery
  PROVE  Abstract!Build
<1>1. /\ ~Busy /\ ~Busy' /\ pc' # "crash" /\ answer' = Failed("none")
      /\ plans' = plans \cup {user'}
  BY DEF NewQuery, Busy
<1>2. PICK input \in plans, o \in Ops : OpsIn(nodes', user') = Append(OpsIn(nodes, input), o)
  BY DEF NewQuery
<1>3. \A p \in plans : OpsIn(nodes', p) = OpsIn(nodes, p)
  BY UserOpsKept
<1>4. PICK q : q = OpsIn(nodes, input)
  OBVIOUS
<1>5. q \in Queries /\ Queries' = Queries \cup {Append(q, o)}
  BY <1>1, <1>2, <1>3, <1>4, ViewParts
<1>6. Asked = <<>> /\ Asked' = <<>> /\ Answer' = Failed("none")
  BY <1>1, ViewParts
<1> QED
  BY <1>5, <1>6, ViewSteps

\* execute asks the query of the plan.  On an empty query it does what building
\* a query again does, as the program that crashed has lost none.
LEMMA ExecuteAsks ==
  ASSUME IInv, IInv', QueriesBuilt, Execute
  PROVE  Abstract!Ask \/ Abstract!Build \/ UNCHANGED Abstract!vars
<1>1. PICK plan \in plans, table \in Tables :
        /\ request' = [plan |-> plan, table |-> table]
        /\ IF plan = 0 THEN pc' = "crash" ELSE pc' = "optimize"
  BY DEF Execute
<1>2. /\ pc = "idle" /\ answer' = Failed("none") /\ UNCHANGED <<nodes, plans>>
      /\ request'.plan = plan /\ request'.table = table
  BY <1>1 DEF Execute, heap
<1>3. Queries' = Queries /\ Asked = <<>> /\ Answer = answer /\ Answer' = Failed("none")
  <2>1. Queries' = Queries
    BY <1>2, ViewParts
  <2> QED
    BY <1>1, <1>2, <2>1, ViewParts DEF Busy
<1>4. CASE plan = 0
  <2>1. Asked' = <<>>
    BY <1>1, <1>4, ViewParts DEF Busy
  <2>2. CASE plans = {0}
    <3>1. Answer = Failed("none")
      BY <1>3, <2>2, BuiltParts
    <3> QED
      BY <1>3, <2>1, <3>1, ViewSteps
  <2>3. CASE plans # {0}
    <3>1. PICK p \in plans \ {0} : TRUE
      BY <1>1, <1>4, <2>3
    <3>2. PICK q \in plans, o \in Ops : OpsIn(nodes, p) = Append(OpsIn(nodes, q), o)
      BY <3>1, BuiltParts DEF BuiltFrom
    <3>3. PICK ops : ops = OpsIn(nodes, q)
      OBVIOUS
    <3>4. ops \in Queries /\ Append(ops, o) \in Queries
      BY <3>1, <3>2, <3>3, ViewParts
    <3>5. Queries' = Queries \cup {Append(ops, o)}
      BY <1>3, <3>4
    <3> QED
      BY <1>3, <2>1, <3>4, <3>5, ViewSteps
  <2> QED
    BY <2>2, <2>3
<1>5. CASE plan # 0
  <2>1. PICK q : q = OpsIn(nodes, plan)
    OBVIOUS
  <2>2. q \in Queries
    BY <2>1, ViewParts
  <2>3. q # <<>>
    <3>1. PICK p \in plans, o \in Ops : q = Append(OpsIn(nodes, p), o)
      BY <1>5, <2>1, BuiltParts DEF BuiltFrom
    <3>2. PICK before : before = OpsIn(nodes, p)
      OBVIOUS
    <3>3. before \in Seq(Ops)
      BY <3>2, HeapType, OpsOfNode DEF OpsOf, IInv
    <3> QED
      BY <3>1, <3>2, <3>3, AppendProperties
  <2>4. Asked' = <<q, table>>
    BY <1>1, <1>2, <1>5, <2>1, ViewParts DEF Busy
  <2> QED
    BY <1>3, <2>2, <2>3, <2>4, ViewSteps
<1> QED
  BY <1>4, <1>5

\* An active call of execute, its query and its table.
LEMMA AskedIs ==
  ASSUME Busy
  PROVE  /\ Asked # <<>>
         /\ Asked[1] = OpsIn(nodes, request.plan) /\ Asked[2] = request.table
         /\ Answer = answer
<1>1. Asked = <<OpsIn(nodes, request.plan), request.table>>
  BY ViewParts
<1> QED
  BY <1>1, ViewParts DEF Busy

\* The call goes on: nothing that Query speaks of changes.
LEMMA QuietStutters ==
  ASSUME IInv, IInv', [Next]_vars, GoesQuietly
  PROVE  UNCHANGED Abstract!vars
<1>1. Queries' = Queries
  BY QueriesKept DEF GoesQuietly
<1>2. request.plan \in plans
  BY TypeParts DEF IInv, ControlOK
<1>3. OpsIn(nodes', request.plan) = OpsIn(nodes, request.plan)
  BY <1>2, UserOpsKept
<1>4. Asked' = Asked
  BY <1>3, ViewParts DEF GoesQuietly
<1>5. Answer' = Answer
  BY ViewParts DEF GoesQuietly, Busy
<1> QED
  BY <1>1, <1>4, <1>5, ViewSteps

\* What a call may answer.
Allowed(q, table, what) ==
  \/ what = Abstract!Evaluate(q, table)
  \/ what = Failed("not_implemented") /\ ~Abstract!AllNumeric(table)

\* The call is over: with an answer to the query, or refusing its table.
LEMMA OverReplies ==
  ASSUME IInv, IInv', QueriesBuilt, [Next]_vars, Busy,
         NEW q, q = OpsIn(nodes, request.plan), NEW what,
         plans' = plans,
         \/ pc' = "idle" /\ answer' = what
         \/ Crash /\ what = Failed("no_table"),
         Allowed(q, request.table, what)
  PROVE  Abstract!Reply
<1>1. ~Busy' /\ request.plan # 0
  BY BuiltParts DEF Crash, Busy
<1>2. Queries' = Queries /\ Asked' = <<>>
  BY <1>1, QueriesKept, ViewParts
<1>3. Answer' = what
  <2>1. CASE pc' = "idle" /\ answer' = what
    BY <2>1, ViewParts
  <2>2. CASE Crash /\ what = Failed("no_table")
    <3>1. pc' = "crash" /\ request' = request
      BY <2>2 DEF Crash
    <3> QED
      BY <1>1, <2>2, <3>1, ViewParts
  <2> QED
    BY <2>1, <2>2
<1>4. Asked # <<>> /\ Asked[1] = q /\ Asked[2] = request.table
  BY AskedIs
<1>5. \/ Answer' = Abstract!Evaluate(Asked[1], Asked[2])
      \/ ~Abstract!AllNumeric(Asked[2]) /\ Answer' = Failed("not_implemented")
  BY <1>3, <1>4 DEF Allowed
<1> QED
  BY <1>2, <1>4, <1>5, ViewSteps

\* No table and no projection a query can be made of is an empty input, and no
\* filter a constant.
OnlyPlain == (\A t \in Tables : ~EmptyInput(t)) /\ <<>> \notin Projections /\ Exprs \cap Consts = {}

LEMMA AlwaysPlain ==
  ASSUME OnlyPlain, IInv, QueriesBuilt, Busy
  PROVE  Plain
<1>1. request.table \in Tables
  BY BuiltParts
<1>2. PICK q : q = OpsIn(nodes, request.plan)
  OBVIOUS
<1>3. q \in Seq(Ops)
  <2>1. request.plan \in 0 .. Len(nodes)
    BY HeapType, TypeParts DEF IInv, ControlOK
  <2> QED
    BY <1>2, <2>1, OpsOfNode DEF OpsOf, IInv
<1>4. \A i \in DOMAIN q : ~EmptyProjection(q[i]) /\ ~ByConstant(q, i)
  <2> SUFFICES ASSUME NEW i \in DOMAIN q PROVE ~EmptyProjection(q[i]) /\ ~ByConstant(q, i)
    OBVIOUS
  <2>1. q[i] \in Ops
    BY <1>3
  <2> QED
    BY <2>1 DEF EmptyProjection, ByConstant, IsFilter, Ops, Abstract!Operations, OnlyPlain
<1> QED
  BY <1>1, <1>2, <1>4, PlainParts DEF IsPlain, OnlyPlain

LEMMA InitRefines == Init => Abstract!Init
<1> SUFFICES ASSUME Init PROVE Abstract!Init
  OBVIOUS
<1>1. /\ nodes = <<>> /\ plans = {0} /\ pc = "idle" /\ answer = Failed("none")
      /\ TypeOK
  BY InitInvariant DEF Init, IInv
<1>2. OpsIn(nodes, 0) = <<>>
  BY <1>1, OpsOfNode DEF OpsOf
<1>3. Queries = {<<>>}
  BY <1>1, <1>2, ViewParts
<1> QED
  BY <1>1, <1>3, ViewParts, ViewSteps DEF Busy

\* A step of the visitor is none of Query, or the reply.
LEMMA RunReplies ==
  ASSUME OnlyPlain, MInv, MInv', pc = "execute", Run
  PROVE  Abstract!Reply \/ UNCHANGED Abstract!vars
<1>1. IInv /\ IInv' /\ QueriesBuilt /\ PassMeans /\ Busy /\ [Next]_vars
  BY DEF MInv, Busy, Next
<1>2. Plain /\ ContextMeans
  BY <1>1, AlwaysPlain DEF MInv
<1>3. PICK q : q = OpsIn(nodes, m_result)
  OBVIOUS
<1>4. q = OpsIn(nodes, request.plan)
  BY <1>1, <1>3, DoneParts
<1>5. ASSUME NEW c, GoesOn(c) PROVE GoesQuietly
  BY <1>1, <1>5 DEF GoesOn, Continue, GoesQuietly, Busy, heap
<1>6. CASE Answers(q)
  <2>1. CASE Leave(Returned(ctx.table)) /\ Returned(ctx.table) = Abstract!Evaluate(q, request.table)
    <3>1. PICK what : what = Returned(ctx.table)
      OBVIOUS
    <3>2. plans' = plans /\ pc' = "idle" /\ answer' = what
      BY <2>1, <3>1 DEF Leave
    <3>3. Allowed(q, request.table, what)
      BY <2>1, <3>1 DEF Allowed
    <3> QED
      BY <1>1, <1>4, <3>2, <3>3, OverReplies
  <2>2. CASE Crash /\ Abstract!Evaluate(q, request.table) = Failed("no_table")
    <3>1. plans' = plans
      BY <2>2 DEF Crash, heap
    <3>2. PICK what : what = Failed("no_table")
      OBVIOUS
    <3>3. Allowed(q, request.table, what)
      BY <2>2, <3>2 DEF Allowed
    <3> QED
      BY <1>1, <1>4, <2>2, <3>1, <3>2, <3>3, OverReplies
  <2>3. CASE Leave(Failed("not_implemented")) /\ ~Abstract!AllNumeric(request.table)
    <3>1. PICK what : what = Failed("not_implemented")
      OBVIOUS
    <3>2. plans' = plans /\ pc' = "idle" /\ answer' = what
      BY <2>3, <3>1 DEF Leave
    <3>3. Allowed(q, request.table, what)
      BY <2>3, <3>1 DEF Allowed
    <3> QED
      BY <1>1, <1>4, <3>2, <3>3, OverReplies
  <2>4. CASE /\ Leave(Failed("bad_variant_access"))
             /\ Abstract!Evaluate(q, request.table) = Failed("bad_variant_access")
    <3>1. PICK what : what = Failed("bad_variant_access")
      OBVIOUS
    <3>2. plans' = plans /\ pc' = "idle" /\ answer' = what
      BY <2>4, <3>1 DEF Leave
    <3>3. Allowed(q, request.table, what)
      BY <2>4, <3>1 DEF Allowed
    <3> QED
      BY <1>1, <1>4, <3>2, <3>3, OverReplies
  <2> QED
    BY <1>6, <2>1, <2>2, <2>3, <2>4 DEF Answers
<1>7. Answers(q) \/ \E c : GoesOn(c)
  BY <1>1, <1>2, <1>3, RunComesTo
<1> QED
  BY <1>1, <1>5, <1>6, <1>7, QuietStutters

LEMMA StepRefines ==
  ASSUME OnlyPlain, MInv, MInv', [Next]_vars
  PROVE  Abstract!Next \/ UNCHANGED Abstract!vars
<1>1. IInv /\ IInv' /\ QueriesBuilt
  BY DEF MInv
<1>2. CASE NewQuery
  BY <1>1, <1>2, NewQueryBuilds DEF Abstract!Next
<1>3. CASE Execute
  BY <1>1, <1>3, ExecuteAsks DEF Abstract!Next
<1>4. CASE GoesQuietly
  BY <1>1, <1>4, QuietStutters
<1>5. CASE pc = "optimize" /\ Refused(request.table) /\ Leave(Failed("not_implemented"))
  <2>1. ~Abstract!AllNumeric(request.table)
    BY <1>5, UnsupportedAssumption DEF Refused, Abstract!AllNumeric
  <2>2. PICK q, what : q = OpsIn(nodes, request.plan) /\ what = Failed("not_implemented")
    OBVIOUS
  <2>3. plans' = plans /\ pc' = "idle" /\ answer' = what
    BY <1>5, <2>2 DEF Leave
  <2>4. Allowed(q, request.table, what)
    BY <2>1, <2>2 DEF Allowed
  <2> QED
    BY <1>1, <1>5, <2>2, <2>3, <2>4, OverReplies DEF Busy, Abstract!Next
<1>6. CASE pc = "execute" /\ Run
  BY <1>6, RunReplies DEF Abstract!Next
<1>7. CASE UNCHANGED vars
  <2>1. UNCHANGED <<nodes, plans, pc, request, answer>>
    BY <1>7 DEF vars
  <2>2. UNCHANGED <<Queries, Asked, Answer>>
    BY <2>1, ViewParts DEF Busy
  <2> QED
    BY <2>2, ViewSteps
<1> QED
  BY <1>1, <1>2, <1>3, <1>4, <1>5, <1>6, <1>7, StepKinds

(***************************************************************************)
(* QueryCompiler, the pass and the visitor implement Query, however its    *)
(* queries share nodes: every answer of execute is the one its operations  *)
(* give when they are applied one by one to the table, an exception        *)
(* allowed for it, or a crash where a column is missing.  Constants as     *)
(* filters, and tables and projections that are empty inputs, are left     *)
(* out: for them the code throws or crashes, which ThrowsUnreachable is    *)
(* about.                                                                  *)
(***************************************************************************)
THEOREM QueryImplemented ==
  ASSUME \A t \in Tables : ~EmptyInput(t), <<>> \notin Projections, Exprs \cap Consts = {}
  PROVE  Spec => ImplementsQuery
<1>1. OnlyPlain
  BY DEF OnlyPlain
<1>2. Init => Abstract!Init
  BY InitRefines
<1>3. MInv /\ MInv' /\ [Next]_vars => [Abstract!Next]_(Abstract!vars)
  BY <1>1, StepRefines
<1> QED
  BY <1>2, <1>3, MeaningInvariance, PTL DEF Spec, ImplementsQuery, Abstract!Spec
=============================================================================
