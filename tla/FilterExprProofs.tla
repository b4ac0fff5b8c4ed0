-------------------------- MODULE FilterExprProofs --------------------------
(***************************************************************************)
(* Proofs about FilterExpr, for every table, every set of comparisons and  *)
(* expressions of any number and depth.                                    *)
(***************************************************************************)
EXTENDS FilterExpr, TLAPS

IsOperand(e) == e.kind = "predicate" => e.lhs \in DOMAIN exprs /\ e.rhs \in DOMAIN exprs

-----------------------------------------------------------------------------
(* What an expression means.                                               *)

\* The operands of an expression were built before it.
LEMMA OperandsExist ==
  ASSUME TypeOK
  PROVE  \A i \in DOMAIN exprs :
           /\ IsOperand(exprs[i])
           /\ exprs[i].kind = "predicate" => exprs[i].op \in {"AND", "OR"}
<1>1. exprs \in Seq(Exprs) /\ Len(exprs) \in Nat /\ DOMAIN exprs = 1 .. Len(exprs)
  BY DEF TypeOK
<1> SUFFICES ASSUME NEW i \in DOMAIN exprs, exprs[i].kind = "predicate"
             PROVE  /\ exprs[i].lhs \in DOMAIN exprs /\ exprs[i].rhs \in DOMAIN exprs
                    /\ exprs[i].op \in {"AND", "OR"}
  BY DEF IsOperand
<1>2. exprs[i] \in Exprs /\ i \in 1 .. Len(exprs)
  BY <1>1
<1>3. /\ exprs[i].lhs \in Nat \ {0} /\ exprs[i].rhs \in Nat \ {0}
      /\ exprs[i].op \in {"AND", "OR"}
  BY <1>2 DEF Exprs
<1>4. exprs[i].lhs < i /\ exprs[i].rhs < i
  BY DEF TypeOK
<1> QED
  BY <1>1, <1>2, <1>3, <1>4

\* An expression that can be built has a meaning, and if no leaf of it is
\* silent then leaving out silent operands changes nothing.
LEMMA DenotationFacts ==
  ASSUME TypeOK, DenotationsAgree, NEW e \in Exprs, IsOperand(e)
  PROVE  /\ Denotation(e) \in Meanings
         /\ Denotation(e).heard
              => Denotation(e).proper /\ Denotation(e).skipped = Denotation(e).truth
<1>1. CASE e.kind = "predicate"
  <2> DEFINE L == denotes[e.lhs]
             R == denotes[e.rhs]
  <2>1. e.lhs \in DOMAIN exprs /\ e.rhs \in DOMAIN exprs
    BY <1>1 DEF IsOperand
  <2>2. L \in Meanings /\ R \in Meanings
    BY <2>1 DEF TypeOK
  <2>3. /\ L.heard => L.proper /\ L.skipped = L.truth
        /\ R.heard => R.proper /\ R.skipped = R.truth
    BY <2>1 DEF DenotationsAgree
  <2>4. R.heard => ~Silent(exprs[e.rhs])
    <3>1. R = Denotation(exprs[e.rhs])
      BY <2>1 DEF DenotationsAgree
    <3>2. Silent(exprs[e.rhs]) => exprs[e.rhs].kind # "predicate"
      BY DEF Silent
    <3>3. exprs[e.rhs].kind # "predicate"
            => Denotation(exprs[e.rhs]).heard = ~Silent(exprs[e.rhs])
      BY DEF Denotation
    <3> QED
      BY <3>1, <3>2, <3>3
  <2>5. Denotation(e) = [truth   |-> Combine(e.op, L.truth, R.truth),
                         skipped |-> IF Silent(exprs[e.rhs]) THEN L.skipped
                                     ELSE Combine(e.op, L.skipped, R.skipped),
                         proper  |-> L.proper /\ (R.proper \/ Silent(exprs[e.rhs])),
                         heard   |-> L.heard /\ R.heard]
    BY <1>1 DEF Denotation
  <2>6. ASSUME NEW A \in SUBSET Rows, NEW B \in SUBSET Rows
        PROVE  Combine(e.op, A, B) \in SUBSET Rows
    BY DEF Combine
  <2>7. /\ Combine(e.op, L.truth, R.truth) \in SUBSET Rows
        /\ Combine(e.op, L.skipped, R.skipped) \in SUBSET Rows
        /\ L.skipped \in SUBSET Rows
        /\ L.proper \in BOOLEAN /\ R.proper \in BOOLEAN
        /\ L.heard \in BOOLEAN /\ R.heard \in BOOLEAN
    BY <2>2, <2>6 DEF Meanings
  <2> HIDE DEF L, R
  <2>8. Denotation(e) \in Meanings
    BY <2>5, <2>7 DEF Meanings
  <2> QED
    BY <2>3, <2>4, <2>5, <2>7, <2>8
<1>2. CASE e.kind # "predicate"
  <2> DEFINE rows == IF e.kind = "compare" THEN Satisfying[e.cmp]
                     ELSE IF e.value THEN Rows ELSE {}
  <2>1. rows \in SUBSET Rows
    BY ComparisonAssumption DEF Exprs
  <2>2. Denotation(e) = [truth |-> rows, skipped |-> rows,
                         proper |-> ~Silent(e), heard |-> ~Silent(e)]
    BY <1>2 DEF Denotation
  <2>3. (~Silent(e)) \in BOOLEAN
    BY DEF Silent
  <2> HIDE DEF rows
  <2> QED
    BY <2>1, <2>2, <2>3 DEF Meanings
<1> QED
  BY <1>1, <1>2

\* An expression keeps its meaning.
LEMMA DenotationKept ==
  ASSUME NEW e, IsOperand(e), visitor' = visitor,
         \A i \in DOMAIN exprs : exprs'[i] = exprs[i] /\ denotes'[i] = denotes[i]
  PROVE  Denotation(e)' = Denotation(e)
<1>1. ASSUME NEW f PROVE Silent(f)' = Silent(f)
  BY DEF Silent
<1>2. CASE e.kind = "predicate"
  <2>1. e.lhs \in DOMAIN exprs /\ e.rhs \in DOMAIN exprs
    BY <1>2 DEF IsOperand
  <2>2. /\ denotes'[e.lhs] = denotes[e.lhs] /\ denotes'[e.rhs] = denotes[e.rhs]
        /\ exprs'[e.rhs] = exprs[e.rhs]
    BY <2>1
  <2>3. Silent(exprs[e.rhs])' = Silent(exprs[e.rhs])
    BY <2>2 DEF Silent
  <2> QED
    BY <1>2, <2>2, <2>3 DEF Denotation, Combine
<1>3. CASE e.kind # "predicate"
  BY <1>1, <1>3 DEF Denotation
<1> QED
  BY <1>2, <1>3

\* What being proper asks of the operands, and what they then mean together.
LEMMA ProperOperands ==
  ASSUME DenotationsAgree, NEW i \in DOMAIN exprs, exprs[i].kind = "predicate",
         denotes[i].proper
  PROVE  /\ denotes[exprs[i].lhs].proper
         /\ denotes[exprs[i].rhs].proper \/ Silent(exprs[exprs[i].rhs])
         /\ denotes[i].skipped =
              IF Silent(exprs[exprs[i].rhs]) THEN denotes[exprs[i].lhs].skipped
              ELSE Combine(exprs[i].op, denotes[exprs[i].lhs].skipped,
                                        denotes[exprs[i].rhs].skipped)
<1> DEFINE L == denotes[exprs[i].lhs]
           R == denotes[exprs[i].rhs]
<1>1. denotes[i] = Denotation(exprs[i])
  BY DEF DenotationsAgree
<1>2. /\ Denotation(exprs[i]).proper = (L.proper /\ (R.proper \/ Silent(exprs[exprs[i].rhs])))
      /\ Denotation(exprs[i]).skipped =
           IF Silent(exprs[exprs[i].rhs]) THEN L.skipped
           ELSE Combine(exprs[i].op, L.skipped, R.skipped)
  BY DEF Denotation
<1> QED
  BY <1>1, <1>2

\* What leaves mean.
LEMMA LeafMeaning ==
  ASSUME DenotationsAgree, NEW i \in DOMAIN exprs
  PROVE  /\ Silent(exprs[i]) => ~denotes[i].proper
         /\ exprs[i].kind # "predicate" /\ ~denotes[i].proper => Silent(exprs[i])
         /\ exprs[i].kind = "compare" => denotes[i].skipped = Satisfying[exprs[i].cmp]
<1>1. denotes[i] = Denotation(exprs[i])
  BY DEF DenotationsAgree
<1>2. Silent(exprs[i]) => exprs[i].kind # "predicate"
  BY DEF Silent
<1>3. exprs[i].kind # "predicate"
        => denotes[i].proper = ~Silent(exprs[i])
  BY <1>1 DEF Denotation
<1>4. exprs[i].kind = "compare" => denotes[i].skipped = Satisfying[exprs[i].cmp]
  BY <1>1 DEF Denotation
<1> QED
  BY <1>2, <1>3, <1>4

\* An evaluation leaves the expressions and their meaning alone.
LEMMA ExpressionsKept ==
  ASSUME DenotationsAgree, UNCHANGED <<visitor, exprs, denotes>>
  PROVE  DenotationsAgree'
BY DEF DenotationsAgree, Denotation, Silent, Combine

LEMMA AppendFacts ==
  ASSUME NEW S, NEW seq \in Seq(S), NEW x \in S
  PROVE  /\ Append(seq, x) \in Seq(S)
         /\ Len(Append(seq, x)) = Len(seq) + 1
         /\ DOMAIN Append(seq, x) = 1 .. Len(seq) + 1
         /\ Append(seq, x)[Len(seq) + 1] = x
         /\ \A k \in 1 .. Len(seq) : Append(seq, x)[k] = seq[k]
OBVIOUS

-----------------------------------------------------------------------------
(* The inductive invariant: the initial states and the steps outside an    *)
(* evaluation.                                                             *)

LEMMA InitInvariant == Init => IInv
<1> SUFFICES ASSUME Init PROVE IInv
  OBVIOUS
<1>1. TypeOK
  BY DEF Init, TypeOK
<1>2. DenotationsAgree
  BY DEF Init, DenotationsAgree
<1>3. values = <<>> /\ pc = "idle" /\ stack = <<>>
  BY DEF Init
<1> QED
  BY <1>1, <1>2, <1>3 DEF IInv, Active, ConstantsSkipped, NullOnlyFromLeaves

LEMMA BuildInvariant ==
  ASSUME IInv, NEW e \in Exprs, IsOperand(e), Build(e)
  PROVE  IInv'
<1> DEFINE n == Len(exprs)
<1>1. /\ TypeOK /\ DenotationsAgree
      /\ exprs' = Append(exprs, e) /\ denotes' = Append(denotes, Denotation(e))
      /\ UNCHANGED <<visitor, root, stack, visiting, values, m_result, pc>>
      /\ pc = "idle" /\ (values # <<>> => m_result # 0)
  BY DEF Build, IInv, frames
<1>2. /\ exprs \in Seq(Exprs) /\ denotes \in Seq(Meanings) /\ Len(denotes) = n
      /\ n \in Nat /\ DOMAIN exprs = 1 .. n /\ DOMAIN denotes = 1 .. n
  BY <1>1 DEF TypeOK
<1>3. Denotation(e) \in Meanings
  BY <1>1, DenotationFacts
<1>4. /\ exprs' \in Seq(Exprs) /\ denotes' \in Seq(Meanings)
      /\ Len(exprs') = n + 1 /\ Len(denotes') = n + 1
      /\ DOMAIN exprs' = 1 .. n + 1
      /\ exprs'[n + 1] = e /\ denotes'[n + 1] = Denotation(e)
      /\ \A i \in 1 .. n : exprs'[i] = exprs[i] /\ denotes'[i] = denotes[i]
  BY <1>1, <1>2, <1>3
<1>5. TypeOK'
  <2>1. \A i \in DOMAIN exprs' :
          exprs'[i].kind = "predicate" => exprs'[i].lhs < i /\ exprs'[i].rhs < i
    BY <1>1, <1>2, <1>4 DEF TypeOK, IsOperand, Exprs
  <2>2. /\ root \in 0 .. n + 1 /\ visiting \in 0 .. n + 1
        /\ \A k \in DOMAIN stack : stack[k].expr \in 1 .. n + 1
    BY <1>1, <1>2 DEF TypeOK
  <2> HIDE DEF n
  <2> QED
    BY <1>1, <1>4, <2>1, <2>2 DEF TypeOK
<1>6. DenotationsAgree'
  <2>1. \A i \in 1 .. n : IsOperand(exprs[i])
    BY <1>1, <1>2, OperandsExist
  <2>2. ASSUME NEW f, IsOperand(f) PROVE Denotation(f)' = Denotation(f)
    BY <1>1, <1>2, <1>4, <2>2, DenotationKept
  <2>3. \A i \in 1 .. n + 1 : denotes'[i] = Denotation(exprs[i])'
    <3>1. ASSUME NEW i \in 1 .. n + 1, NEW f, f = exprs'[i]
          PROVE  IsOperand(f) /\ denotes'[i] = Denotation(f)
      BY <1>1, <1>2, <1>4, <2>1, <3>1 DEF DenotationsAgree
    <3>2. ASSUME NEW f, NEW i, f = exprs'[i]
          PROVE  Denotation(f)' = Denotation(exprs[i])'
      BY <3>2 DEF Denotation, Silent, Combine
    <3>3. ASSUME NEW i \in 1 .. n + 1 PROVE denotes'[i] = Denotation(exprs[i])'
      <4>1. PICK f : f = exprs'[i]
        OBVIOUS
      <4>2. IsOperand(f) /\ denotes'[i] = Denotation(f)
        BY <3>1, <4>1
      <4>3. Denotation(f)' = Denotation(f)
        BY <2>2, <4>2
      <4> QED
        BY <3>2, <4>1, <4>2, <4>3
    <3> QED
      BY <3>3
  <2>4. \A i \in 1 .. n + 1 :
          denotes'[i].heard => denotes'[i].proper /\ denotes'[i].skipped = denotes'[i].truth
    <3>1. \A i \in 1 .. n :
            denotes[i].heard => denotes[i].proper /\ denotes[i].skipped = denotes[i].truth
      BY <1>1, <1>2 DEF DenotationsAgree
    <3>2. Denotation(e).heard
            => Denotation(e).proper /\ Denotation(e).skipped = Denotation(e).truth
      BY <1>1, DenotationFacts
    <3> QED
      BY <1>2, <1>4, <3>1, <3>2
  <2> QED
    BY <1>4, <2>3, <2>4 DEF DenotationsAgree
<1> QED
  BY <1>1, <1>5, <1>6 DEF IInv, Active, ConstantsSkipped, NullOnlyFromLeaves

LEMMA BuildAnyInvariant ==
  ASSUME IInv, BuildCompare \/ BuildConst \/ BuildPredicate
  PROVE  IInv'
<1>1. ASSUME NEW cmp \in Comparisons, Build(CompareExpr(cmp)) PROVE IInv'
  <2>1. CompareExpr(cmp) \in Exprs /\ IsOperand(CompareExpr(cmp))
    BY DEF CompareExpr, Exprs, IsOperand
  <2> QED
    BY <1>1, <2>1, BuildInvariant
<1>2. ASSUME NEW value \in Consts, Build(BooleanConst(value)) PROVE IInv'
  <2>1. BooleanConst(value) \in Exprs /\ IsOperand(BooleanConst(value))
    BY DEF BooleanConst, Exprs, IsOperand
  <2> QED
    BY <1>2, <2>1, BuildInvariant
<1>3. ASSUME NEW lhs \in DOMAIN exprs, NEW rhs \in DOMAIN exprs, NEW op \in {"AND", "OR"},
             Build(PredicateExpr(lhs, rhs, op))
      PROVE  IInv'
  <2>1. lhs \in Nat \ {0} /\ rhs \in Nat \ {0}
    BY DEF IInv, TypeOK
  <2>2. PredicateExpr(lhs, rhs, op) \in Exprs /\ IsOperand(PredicateExpr(lhs, rhs, op))
    BY <2>1 DEF PredicateExpr, Exprs, IsOperand
  <2> QED
    BY <1>3, <2>2, BuildInvariant
<1> QED
  BY <1>1, <1>2, <1>3 DEF BuildCompare, BuildConst, BuildPredicate

LEMMA StartInvariant == IInv /\ Start => IInv'
<1> SUFFICES ASSUME IInv, Start PROVE IInv'
  OBVIOUS
<1>1. /\ TypeOK /\ DenotationsAgree /\ pc = "idle" /\ exprs # <<>>
      /\ root' = Len(exprs) /\ visiting' = Len(exprs) /\ pc' = "visit"
      /\ UNCHANGED <<visitor, exprs, denotes, stack, values, m_result>>
      /\ values # <<>> => m_result # 0
      /\ stack = <<>>
  BY DEF IInv, Start
<1> DEFINE n == Len(exprs)
<1>2. n \in Nat /\ n # 0 /\ exprs \in Seq(Exprs) /\ DOMAIN exprs = 1 .. n
  BY <1>1 DEF TypeOK
<1>3. TypeOK'
  <2> HIDE DEF n
  <2>1. root' \in 0 .. Len(exprs') /\ visiting' \in 0 .. Len(exprs')
    BY <1>1, <1>2 DEF n
  <2> QED
    BY <1>1, <2>1 DEF TypeOK
<1>4. DenotationsAgree'
  BY <1>1, ExpressionsKept
<1>5. FramesArePath'
  BY <1>1, <1>2 DEF FramesArePath
<1>6. ProperEvaluation'
  BY <1>1 DEF ProperEvaluation, HeldInOrder, Held
<1> QED
  BY <1>1, <1>3, <1>4, <1>5, <1>6 DEF IInv, ConstantsSkipped, NullOnlyFromLeaves

-----------------------------------------------------------------------------
(* The state in the middle of an evaluation.                               *)

LEMMA ActiveFacts ==
  ASSUME IInv, Active
  PROVE  /\ TypeOK /\ DenotationsAgree /\ FramesArePath
         /\ root \in DOMAIN exprs /\ visiting \in DOMAIN exprs
         /\ \A k \in DOMAIN stack :
              /\ stack[k].expr \in DOMAIN exprs
              /\ exprs[stack[k].expr].kind = "predicate"
         /\ stack # <<>> => Top.at \in {"lhs", "rhs"}
<1>1. TypeOK /\ DenotationsAgree /\ FramesArePath
  BY DEF IInv
<1>2. /\ exprs \in Seq(Exprs) /\ Len(exprs) \in Nat /\ DOMAIN exprs = 1 .. Len(exprs)
      /\ stack \in Seq(Frames) /\ Len(stack) \in Nat /\ DOMAIN stack = 1 .. Len(stack)
      /\ root \in 0 .. Len(exprs) /\ root # 0
      /\ \A k \in DOMAIN stack : stack[k].expr \in 1 .. Len(exprs)
      /\ \A k \in DOMAIN stack : exprs[stack[k].expr].kind = "predicate"
  BY <1>1 DEF TypeOK, FramesArePath
<1>3. ASSUME stack # <<>>
      PROVE  Top \in Frames /\ Operand(Top) \in DOMAIN exprs
  <2>1. Len(stack) \in DOMAIN stack /\ Top = stack[Len(stack)] /\ Top \in Frames
    BY <1>2, <1>3 DEF Top
  <2>2. Top.expr \in DOMAIN exprs /\ exprs[Top.expr].kind = "predicate"
    BY <1>2, <2>1
  <2>3. exprs[Top.expr].lhs \in DOMAIN exprs /\ exprs[Top.expr].rhs \in DOMAIN exprs
    BY <1>1, <2>2, OperandsExist DEF IsOperand
  <2> QED
    BY <2>1, <2>3 DEF Operand
<1>4. visiting = IF stack = <<>> THEN root ELSE Operand(Top)
  BY <1>1 DEF FramesArePath
<1>5. root \in DOMAIN exprs /\ visiting \in DOMAIN exprs
  BY <1>2, <1>3, <1>4
<1>6. stack # <<>> => Top.at \in {"lhs", "rhs"}
  BY <1>3 DEF Frames
<1> QED
  BY <1>1, <1>2, <1>5, <1>6

\* The stack without its last frame.
LEMMA PopFacts ==
  ASSUME TypeOK, stack # <<>>
  PROVE  /\ Len(stack) \in Nat \ {0} /\ Len(stack) \in DOMAIN stack
         /\ DOMAIN stack = 1 .. Len(stack)
         /\ Pop \in Seq(Frames) /\ Len(Pop) = Len(stack) - 1
         /\ DOMAIN Pop = 1 .. Len(stack) - 1
         /\ \A k \in 1 .. Len(stack) - 1 : Pop[k] = stack[k]
         /\ Top = stack[Len(stack)] /\ Top \in Frames
<1>1. stack \in Seq(Frames)
  BY DEF TypeOK
<1> DEFINE n == Len(stack)
<1>2. n \in Nat \ {0} /\ DOMAIN stack = 1 .. n
  BY <1>1
<1>3. n \in DOMAIN stack /\ Top = stack[n] /\ Top \in Frames
  BY <1>1, <1>2 DEF Top
<1>4. n - 1 \in Nat /\ n - 1 <= n
  BY <1>2
<1>5. /\ Pop \in Seq(Frames) /\ Len(Pop) = n - 1
      /\ \A k \in 1 .. n - 1 : Pop[k] = stack[k]
  BY <1>1, <1>2, <1>4 DEF Pop
<1>6. DOMAIN Pop = 1 .. n - 1
  BY <1>5
<1> QED
  BY <1>2, <1>3, <1>5, <1>6

\* In the evaluation of a proper expression only a silent right operand is
\* not proper.
LEMMA VisitingProper ==
  ASSUME IInv, Active, Proper
  PROVE  \/ denotes[visiting].proper
         \/ Silent(exprs[visiting]) /\ stack # <<>> /\ Top.at = "rhs"
<1>1. visiting = IF stack = <<>> THEN root ELSE Operand(Top)
  BY DEF IInv, FramesArePath
<1>2. CASE stack = <<>>
  BY <1>1, <1>2 DEF Proper
<1>3. CASE stack # <<>>
  <2>1. TypeOK /\ DenotationsAgree
    BY DEF IInv
  <2>2. Len(stack) \in DOMAIN stack /\ Top = stack[Len(stack)]
    BY <1>3, <2>1, PopFacts
  <2>3. /\ Top.expr \in DOMAIN exprs /\ exprs[Top.expr].kind = "predicate"
        /\ Top.at \in {"lhs", "rhs"}
    BY <1>3, <2>2, ActiveFacts
  <2>4. denotes[Top.expr].proper
    BY <2>2 DEF IInv, ProperEvaluation
  <2>5. /\ denotes[exprs[Top.expr].lhs].proper
        /\ denotes[exprs[Top.expr].rhs].proper \/ Silent(exprs[exprs[Top.expr].rhs])
    BY <2>1, <2>3, <2>4, ProperOperands
  <2> QED
    BY <1>1, <1>3, <2>3, <2>5 DEF Operand
<1> QED
  BY <1>2, <1>3

\* What is left to show of a step that stays inside the evaluation.
LEMMA EvaluationStep ==
  ASSUME IInv, Active, UNCHANGED <<visitor, exprs, denotes, root>>,
         pc' \in {"visit", "return"}, TypeOK', FramesArePath',
         values' # <<>> => m_result' # 0,
         Proper => ProperEvaluation'
  PROVE  IInv'
<1>1. DenotationsAgree'
  BY ExpressionsKept DEF IInv
<1>2. Proper' <=> Proper
  BY DEF Proper
<1> QED
  BY <1>1, <1>2 DEF IInv, ConstantsSkipped, NullOnlyFromLeaves, Active

-----------------------------------------------------------------------------
(* The steps of an evaluation.                                             *)

LEMMA EnterPredicateInvariant == IInv /\ EnterPredicate => IInv'
<1> SUFFICES ASSUME IInv, EnterPredicate PROVE IInv'
  OBVIOUS
<1> DEFINE n == Len(stack)
           frame == [expr |-> visiting, at |-> "lhs", lhs_result |-> 0]
<1>1. /\ pc = "visit" /\ exprs[visiting].kind = "predicate"
      /\ stack' = Append(stack, frame) /\ visiting' = exprs[visiting].lhs
      /\ UNCHANGED <<visitor, exprs, denotes, root, values, m_result, pc>>
  BY DEF EnterPredicate, Visit
<1>2. /\ TypeOK /\ DenotationsAgree /\ FramesArePath
      /\ visiting \in DOMAIN exprs
  BY <1>1, ActiveFacts DEF Active
<1>3. /\ stack \in Seq(Frames) /\ n \in Nat /\ DOMAIN stack = 1 .. n
      /\ exprs \in Seq(Exprs) /\ Len(exprs) \in Nat /\ DOMAIN exprs = 1 .. Len(exprs)
      /\ visiting \in Nat /\ Len(values) \in Nat
  BY <1>2 DEF TypeOK
<1>4. frame \in Frames /\ frame.at = "lhs" /\ frame.expr = visiting /\ frame.lhs_result = 0
  BY <1>3 DEF Frames
<1> HIDE DEF frame
<1>5. /\ stack' \in Seq(Frames) /\ Len(stack') = n + 1 /\ DOMAIN stack' = 1 .. n + 1
      /\ stack'[n + 1] = frame /\ \A k \in 1 .. n : stack'[k] = stack[k]
      /\ stack' # <<>>
  BY <1>1, <1>3, <1>4
<1>6. exprs[visiting].lhs \in DOMAIN exprs
  BY <1>1, <1>2, OperandsExist DEF IsOperand
<1>7. TypeOK'
  <2>1. \A k \in DOMAIN stack' :
          stack'[k].expr \in 1 .. Len(exprs) /\ stack'[k].lhs_result <= Len(values)
    BY <1>2, <1>3, <1>4, <1>5 DEF TypeOK
  <2>2. visiting' \in 0 .. Len(exprs)
    BY <1>1, <1>3, <1>6
  <2> QED
    BY <1>1, <1>2, <1>5, <2>1, <2>2 DEF TypeOK
<1>8. FramesArePath'
  <2>1. visiting = IF n = 0 THEN root ELSE Operand(stack[n])
    BY <1>2, <1>3 DEF FramesArePath, Top
  <2>2. visiting' = Operand(Top)'
    BY <1>1, <1>4, <1>5 DEF Operand, Top
  <2>3. ASSUME NEW k \in 1 .. n + 1
        PROVE  /\ exprs[stack'[k].expr].kind = "predicate"
               /\ stack'[k].expr = IF k = 1 THEN root ELSE Operand(stack'[k - 1])
    <3>1. CASE k = n + 1
      <4>1. stack'[k].expr = visiting
        BY <1>4, <1>5, <3>1
      <4>2. k = 1 <=> n = 0
        BY <1>3, <3>1
      <4>3. k # 1 => stack'[k - 1] = stack[n]
        BY <1>3, <1>5, <3>1
      <4> QED
        BY <1>1, <2>1, <4>1, <4>2, <4>3
    <3>2. CASE k # n + 1
      <4>1. k \in 1 .. n /\ stack'[k] = stack[k]
        BY <1>3, <1>5, <3>2
      <4>2. k # 1 => k - 1 \in 1 .. n /\ stack'[k - 1] = stack[k - 1]
        BY <1>3, <1>5, <4>1
      <4>3. /\ exprs[stack[k].expr].kind = "predicate"
            /\ stack[k].expr = IF k = 1 THEN root ELSE Operand(stack[k - 1])
        BY <1>2, <1>3, <4>1 DEF FramesArePath
      <4> QED
        BY <4>1, <4>2, <4>3
    <3> QED
      BY <3>1, <3>2
  <2>4. \A k \in 1 .. n + 1 :
          stack'[k].expr = IF k = 1 THEN root' ELSE Operand(stack[k - 1])'
    BY <1>1, <2>3 DEF Operand
  <2> QED
    BY <1>1, <1>2, <1>5, <2>2, <2>3, <2>4 DEF FramesArePath
<1>9. ASSUME Proper PROVE ProperEvaluation'
  <2>1. ProperEvaluation
    BY <1>1, <1>9 DEF IInv, Active
  <2>2. denotes[visiting].proper
    BY <1>1, <1>9, VisitingProper DEF Active, Silent
  <2>3. \A k \in DOMAIN stack' : denotes[stack'[k].expr].proper
    BY <1>3, <1>4, <1>5, <2>1, <2>2 DEF ProperEvaluation
  <2>4. Held' = Held /\ \A k \in Held : k \in 1 .. n
    BY <1>3, <1>4, <1>5 DEF Held
  <2>5. HeldInOrder'
    BY <1>1, <1>5, <2>1, <2>4 DEF ProperEvaluation, HeldInOrder
  <2>6. Top' = frame
    BY <1>5 DEF Top
  <2> QED
    BY <1>1, <1>4, <2>3, <2>5, <2>6 DEF ProperEvaluation
<1> QED
  BY <1>1, <1>7, <1>8, <1>9, EvaluationStep DEF IInv, Active

\* A leaf is left with a new result.
LEMMA NewResultInvariant ==
  ASSUME IInv, pc = "visit", exprs[visiting].kind = "compare", ~Silent(exprs[visiting]),
         NewValue(Satisfying[exprs[visiting].cmp]), pc' = "return",
         UNCHANGED <<visitor, exprs, denotes, root, stack, visiting>>
  PROVE  IInv'
<1> DEFINE n == Len(values)
           rows == Satisfying[exprs[visiting].cmp]
<1>1. /\ TypeOK /\ DenotationsAgree /\ FramesArePath
      /\ visiting \in DOMAIN exprs
  BY ActiveFacts DEF Active
<1>2. rows \in SUBSET Rows
  <2>1. exprs[visiting] \in Exprs
    BY <1>1 DEF TypeOK
  <2>2. exprs[visiting].cmp \in Comparisons
    BY <2>1 DEF Exprs
  <2> QED
    BY <2>2, ComparisonAssumption
<1>3. values \in Seq(SUBSET Rows) /\ n \in Nat /\ DOMAIN values = 1 .. n
  BY <1>1 DEF TypeOK
<1>4. values' = Append(values, rows) /\ m_result' = Len(values')
  BY DEF NewValue
<1> HIDE DEF rows
<1>5. /\ values' \in Seq(SUBSET Rows) /\ Len(values') = n + 1 /\ m_result' = n + 1
      /\ values'[n + 1] = rows /\ \A k \in 1 .. n : values'[k] = values[k]
  BY <1>2, <1>3, <1>4
<1>6. TypeOK'
  <2>1. \A k \in DOMAIN stack : stack[k].lhs_result <= n + 1
    <3>1. \A k \in DOMAIN stack : stack[k] \in Frames
      BY <1>1 DEF TypeOK
    <3>2. \A k \in DOMAIN stack : stack[k].lhs_result \in Nat
      BY <3>1 DEF Frames
    <3> QED
      BY <1>1, <1>3, <3>2 DEF TypeOK
  <2>2. m_result' \in 0 .. Len(values')
    BY <1>3, <1>5
  <2> QED
    BY <1>1, <1>5, <2>1, <2>2 DEF TypeOK
<1>7. FramesArePath'
  BY <1>1 DEF FramesArePath, Operand, Top
<1>8. ASSUME Proper PROVE ProperEvaluation'
  <2>1. ProperEvaluation
    BY <1>8 DEF IInv, Active
  <2>2. /\ denotes[visiting].proper /\ denotes[visiting].skipped = rows
    BY <1>1, LeafMeaning DEF rows
  <2>3. HeldInOrder'
    BY <1>3, <1>5, <2>1 DEF ProperEvaluation, HeldInOrder, Held
  <2>4. \A k \in Held : stack[k].lhs_result < n + 1
    BY <1>3, <2>1 DEF ProperEvaluation, HeldInOrder
  <2>5. ResultReturned'
    BY <1>3, <1>5, <2>2, <2>4 DEF ResultReturned, Held
  <2> QED
    BY <2>1, <2>3, <2>5 DEF ProperEvaluation
<1>9. m_result' # 0
  BY <1>3, <1>5
<1> QED
  BY <1>6, <1>7, <1>8, <1>9, EvaluationStep DEF Active

\* A silent leaf is left without one.
LEMMA SilentInvariant ==
  ASSUME IInv, pc = "visit", Silent(exprs[visiting]), pc' = "return",
         UNCHANGED <<visitor, exprs, denotes, root, frames>>
  PROVE  IInv'
<1>1. UNCHANGED <<stack, visiting, values, m_result>>
  BY DEF frames
<1>2. /\ TypeOK /\ DenotationsAgree /\ FramesArePath
      /\ visiting \in DOMAIN exprs
  BY ActiveFacts DEF Active
<1>3. TypeOK'
  BY <1>1, <1>2 DEF TypeOK
<1>4. FramesArePath'
  BY <1>1, <1>2 DEF FramesArePath, Operand, Top
<1>5. ASSUME Proper PROVE ProperEvaluation'
  <2>1. ProperEvaluation
    BY <1>5 DEF IInv, Active
  <2>2. ~denotes[visiting].proper
    BY <1>2, LeafMeaning
  <2>3. stack # <<>> /\ Top.at = "rhs"
    BY <1>5, <2>2, VisitingProper DEF Active
  <2>4. m_result = Top.lhs_result
    BY <2>1, <2>3 DEF ProperEvaluation
  <2>5. ResultReturned'
    BY <1>1, <2>2, <2>3, <2>4 DEF ResultReturned, Top
  <2>6. HeldInOrder'
    BY <1>1, <2>1 DEF ProperEvaluation, HeldInOrder, Held
  <2> QED
    BY <1>1, <2>1, <2>5, <2>6 DEF ProperEvaluation
<1> QED
  BY <1>1, <1>3, <1>4, <1>5, EvaluationStep DEF Active, IInv

\* A step that ends in a crash or an exception, the results left as they are.
LEMMA GiveUpInvariant ==
  ASSUME IInv, Active, UNCHANGED <<visitor, exprs, denotes, root, frames>>,
         pc' \in {"crash"} \cup Exceptions,
         pc' = "crash" /\ Proper => NullOnlyFromLeaves'
  PROVE  IInv'
<1>1. UNCHANGED <<stack, visiting, values, m_result>>
  BY DEF frames
<1>2. TypeOK'
  BY <1>1 DEF IInv, TypeOK
<1>3. DenotationsAgree'
  BY ExpressionsKept DEF IInv
<1>4. NullOnlyFromLeaves'
  BY DEF NullOnlyFromLeaves, Proper
<1> QED
  BY <1>1, <1>2, <1>3, <1>4 DEF IInv, Active, ConstantsSkipped, Exceptions

LEMMA LeafInvariant ==
  ASSUME IInv, ExecuteCompare \/ EmitCompare \/ VisitConst
  PROVE  IInv'
<1>1. CASE ExecuteCompare
  <2> DEFINE cmp == exprs[visiting].cmp
  <2>1. /\ visitor = "executor" /\ pc = "visit" /\ exprs[visiting].kind = "compare"
        /\ UNCHANGED <<visitor, exprs, denotes, root, stack, visiting>>
    BY <1>1 DEF ExecuteCompare, Visit
  <2>2. CASE cmp \in Missing \cup Unsupported \cup Mismatched
    <3>1. /\ UNCHANGED <<values, m_result>>
          /\ (cmp \in Missing /\ pc' = "crash") \/ pc' \in Exceptions
      BY <1>1, <2>2 DEF ExecuteCompare, Exceptions
    <3>2. pc' = "crash" => NullOnlyFromLeaves'
      BY <2>1, <3>1 DEF NullOnlyFromLeaves, Exceptions
    <3> QED
      BY <2>1, <3>1, <3>2, GiveUpInvariant DEF frames, Active
  <2>3. CASE cmp \notin Missing \cup Unsupported \cup Mismatched
    <3>1. NewValue(Satisfying[cmp]) /\ pc' = "return"
      BY <1>1, <2>3 DEF ExecuteCompare
    <3>2. ~Silent(exprs[visiting])
      BY <2>1 DEF Silent
    <3> QED
      BY <2>1, <3>1, <3>2, NewResultInvariant
  <2> QED
    BY <2>2, <2>3
<1>2. CASE EmitCompare
  <2>1. /\ visitor = "emitter" /\ pc = "visit" /\ exprs[visiting].kind = "compare"
        /\ UNCHANGED <<visitor, exprs, denotes, root, stack, visiting>>
    BY <1>2 DEF EmitCompare, Visit
  <2>2. CASE Silent(exprs[visiting])
    <3>1. pc' \in {"crash", "return"} /\ UNCHANGED <<values, m_result>>
      BY <1>2, <2>2 DEF EmitCompare
    <3>2. exprs[visiting].cmp \in Foreign
      BY <2>1, <2>2 DEF Silent
    <3>3. CASE pc' = "crash"
      <4>1. NullOnlyFromLeaves'
        BY <2>1, <3>2 DEF NullOnlyFromLeaves
      <4> QED
        BY <2>1, <3>1, <3>3, <4>1, GiveUpInvariant DEF frames, Active
    <3>4. CASE pc' = "return"
      BY <2>1, <2>2, <3>1, <3>4, SilentInvariant DEF frames
    <3> QED
      BY <3>1, <3>3, <3>4
  <2>3. CASE ~Silent(exprs[visiting])
    <3>1. CASE exprs[visiting].cmp \in Mismatched
      <4>1. pc' = "bad_variant_access" /\ UNCHANGED <<values, m_result>>
        BY <1>2, <2>3, <3>1 DEF EmitCompare
      <4> QED
        BY <2>1, <4>1, GiveUpInvariant DEF frames, Active, Exceptions
    <3>2. CASE exprs[visiting].cmp \notin Mismatched
      <4>1. NewValue(Satisfying[exprs[visiting].cmp]) /\ pc' = "return"
        BY <1>2, <2>3, <3>2 DEF EmitCompare
      <4> QED
        BY <2>1, <2>3, <4>1, NewResultInvariant
    <3> QED
      BY <3>1, <3>2
  <2> QED
    BY <2>2, <2>3
<1>3. CASE VisitConst
  BY <1>3, SilentInvariant DEF VisitConst, Visit, Silent
<1> QED
  BY <1>1, <1>2, <1>3

LEMMA ReturnLhsInvariant == IInv /\ ReturnLhs => IInv'
<1> SUFFICES ASSUME IInv, ReturnLhs PROVE IInv'
  OBVIOUS
<1> DEFINE n == Len(stack)
           frame == [Top EXCEPT !.at = "rhs", !.lhs_result = m_result]
<1>1. /\ pc = "return" /\ stack # <<>> /\ Top.at = "lhs"
      /\ stack' = Append(Pop, frame) /\ visiting' = exprs[Top.expr].rhs /\ pc' = "visit"
      /\ UNCHANGED <<visitor, exprs, denotes, root, values, m_result>>
  BY DEF ReturnLhs, Returning
<1>2. /\ TypeOK /\ DenotationsAgree /\ FramesArePath
  BY <1>1, ActiveFacts DEF Active
<1>3. /\ n \in Nat \ {0} /\ n \in DOMAIN stack /\ DOMAIN stack = 1 .. n
      /\ Pop \in Seq(Frames) /\ Len(Pop) = n - 1
      /\ \A k \in 1 .. n - 1 : Pop[k] = stack[k]
      /\ Top = stack[n] /\ Top \in Frames
  BY <1>1, <1>2, PopFacts
<1>4. /\ frame \in Frames /\ frame.at = "rhs" /\ frame.expr = Top.expr
      /\ frame.lhs_result = m_result
  <2>1. m_result \in Nat
    BY <1>2 DEF TypeOK
  <2> QED
    BY <1>3, <2>1 DEF Frames
<1> HIDE DEF n, frame
<1>5. /\ stack' \in Seq(Frames) /\ Len(stack') = n /\ DOMAIN stack' = 1 .. n
      /\ stack'[n] = frame /\ \A k \in 1 .. n - 1 : stack'[k] = stack[k]
      /\ stack' # <<>>
  <2>1. n = Len(Pop) + 1 /\ n - 1 = Len(Pop)
    BY <1>3
  <2>2. /\ stack' \in Seq(Frames) /\ Len(stack') = Len(Pop) + 1
        /\ DOMAIN stack' = 1 .. Len(Pop) + 1 /\ stack'[Len(Pop) + 1] = frame
        /\ \A k \in 1 .. Len(Pop) : stack'[k] = Pop[k]
    <3>1. Pop \in Seq(Frames) /\ frame \in Frames
      BY <1>3, <1>4
    <3> QED
      BY <1>1, <3>1, AppendFacts
  <2>3. Len(stack') # 0
    BY <1>3, <2>1, <2>2
  <2> QED
    BY <1>3, <2>1, <2>2, <2>3
<1>6. /\ Top.expr \in DOMAIN exprs /\ exprs[Top.expr].kind = "predicate"
      /\ exprs[Top.expr].rhs \in DOMAIN exprs
  <2>1. Top.expr \in DOMAIN exprs /\ exprs[Top.expr].kind = "predicate"
    BY <1>1, <1>3, ActiveFacts DEF Active
  <2> QED
    BY <1>2, <2>1, OperandsExist DEF IsOperand
<1>7. \A k \in 1 .. n : stack'[k].expr = stack[k].expr
  BY <1>3, <1>4, <1>5
<1>8. TypeOK'
  <2>1. /\ DOMAIN exprs = 1 .. Len(exprs) /\ Len(exprs) \in Nat
        /\ m_result <= Len(values)
    BY <1>2 DEF TypeOK
  <2>2. \A k \in 1 .. n :
          stack'[k].expr \in 1 .. Len(exprs) /\ stack'[k].lhs_result <= Len(values)
    <3>1. \A k \in 1 .. n :
            stack[k].expr \in 1 .. Len(exprs) /\ stack[k].lhs_result <= Len(values)
      BY <1>2, <1>3 DEF TypeOK
    <3>2. \A k \in 1 .. n : k \in 1 .. n - 1 \/ k = n
      BY <1>3
    <3> QED
      BY <1>4, <1>5, <1>7, <2>1, <3>1, <3>2
  <2>3. visiting' \in 0 .. Len(exprs)
    BY <1>1, <1>6, <2>1
  <2> QED
    BY <1>1, <1>2, <1>5, <2>2, <2>3 DEF TypeOK
<1>9. FramesArePath'
  <2>1. visiting' = Operand(Top)'
    BY <1>1, <1>4, <1>5 DEF Operand, Top
  <2>2. ASSUME NEW k \in 1 .. n
        PROVE  /\ exprs[stack[k].expr].kind = "predicate"
               /\ stack[k].expr = IF k = 1 THEN root ELSE Operand(stack'[k - 1])
    <3>1. k # 1 => k - 1 \in 1 .. n - 1
      BY <1>3
    <3> QED
      BY <1>2, <1>3, <1>5, <3>1 DEF FramesArePath
  <2>3. \A k \in 1 .. n :
          stack'[k].expr = IF k = 1 THEN root' ELSE Operand(stack[k - 1])'
    BY <1>1, <1>7, <2>2 DEF Operand
  <2>4. root' # 0
    BY <1>1, <1>2 DEF FramesArePath
  <2>5. \A k \in 1 .. n : exprs'[stack'[k].expr].kind = "predicate"
    BY <1>1, <1>7, <2>2
  <2> QED
    BY <1>5, <2>1, <2>3, <2>4, <2>5 DEF FramesArePath
<1>10. ASSUME Proper PROVE ProperEvaluation'
  <2>1. ProperEvaluation /\ ResultReturned
    BY <1>1, <1>10 DEF IInv, Active, ProperEvaluation
  <2>2. visiting = exprs[Top.expr].lhs
    BY <1>1, <1>2 DEF FramesArePath, Operand
  <2>3. /\ m_result \in 1 .. Len(values)
        /\ values[m_result] = denotes[exprs[Top.expr].lhs].skipped
        /\ \A k \in Held : stack[k].lhs_result < m_result
    BY <1>1, <2>1, <2>2 DEF ResultReturned
  <2>4. Held' = Held \cup {n} /\ Held \subseteq 1 .. n - 1
    <3>1. \A k \in Held : k \in 1 .. n /\ k # n
      BY <1>1, <1>3 DEF Held
    <3>2. \A k \in 1 .. n : k # n => k \in 1 .. n - 1
      BY <1>3
    <3>3. Held' = {k \in 1 .. n : stack'[k].at = "rhs"}
      BY <1>5 DEF Held
    <3>4. ASSUME NEW k PROVE k \in Held' <=> k \in Held \/ k = n
      <4>1. CASE k = n
        BY <1>3, <1>4, <1>5, <3>3, <4>1
      <4>2. CASE k # n
        BY <1>3, <1>5, <3>2, <3>3, <4>2 DEF Held
      <4> QED
        BY <4>1, <4>2
    <3> QED
      BY <3>1, <3>2, <3>4
  <2>5. /\ \A k \in Held : stack'[k] = stack[k]
        /\ stack'[n].lhs_result = m_result /\ stack'[n].expr = Top.expr
    BY <1>4, <1>5, <2>4
  <2>6. HeldInOrder'
    <3>1. ASSUME NEW k \in Held'
          PROVE  /\ stack'[k].lhs_result \in 1 .. Len(values)
                 /\ values[stack'[k].lhs_result]
                      = denotes[exprs[stack'[k].expr].lhs].skipped
      BY <2>1, <2>3, <2>4, <2>5 DEF ProperEvaluation, HeldInOrder
    <3>2. ASSUME NEW k \in Held', NEW j \in Held', j < k
          PROVE  stack'[j].lhs_result < stack'[k].lhs_result
      <4>1. j \in Held
        <5>1. n \in Nat /\ \A i \in Held' : i \in Nat /\ i <= n
          BY <1>3, <2>4
        <5>2. j # n
          BY <3>2, <5>1
        <5> QED
          BY <2>4, <3>2, <5>2
      <4> QED
        BY <2>1, <2>3, <2>4, <2>5, <3>2, <4>1 DEF ProperEvaluation, HeldInOrder
    <3> QED
      BY <1>1, <3>1, <3>2 DEF HeldInOrder
  <2>7. \A k \in DOMAIN stack' : denotes[stack'[k].expr].proper
    BY <1>3, <1>5, <1>7, <2>1 DEF ProperEvaluation
  <2>8. Top' = frame
    BY <1>5 DEF Top
  <2> QED
    BY <1>1, <1>4, <2>6, <2>7, <2>8 DEF ProperEvaluation
<1> QED
  BY <1>1, <1>8, <1>9, <1>10, EvaluationStep DEF IInv, Active

\* What CombineRhs does to the results made so far.
LEMMA CombineFacts ==
  ASSUME values \in Seq(SUBSET Rows), visitor \in {"executor", "emitter"},
         NEW lhs \in 1 .. Len(values), NEW op, NEW rows \in SUBSET Rows,
         CombineRhs(lhs, op, rows)
  PROVE  /\ values' \in Seq(SUBSET Rows)
         /\ Len(values) \in Nat /\ Len(values') \in Nat /\ Len(values) <= Len(values')
         /\ m_result' \in 1 .. Len(values') /\ lhs <= m_result'
         /\ values'[m_result'] = rows
         /\ \A k \in 1 .. Len(values) : k # lhs => values'[k] = values[k]
<1>1. CASE visitor = "executor"
  <2>1. values' = [values EXCEPT ![lhs] = rows] /\ m_result' = lhs
    BY <1>1 DEF CombineRhs
  <2> QED
    BY <2>1
<1>2. CASE visitor = "emitter"
  <2>1. values' = Append(values, rows) /\ m_result' = Len(values')
    BY <1>2 DEF CombineRhs, NewValue
  <2>2. /\ values' \in Seq(SUBSET Rows) /\ Len(values') = Len(values) + 1
        /\ values'[Len(values) + 1] = rows
        /\ \A k \in 1 .. Len(values) : values'[k] = values[k]
    BY <2>1, AppendFacts
  <2> QED
    BY <2>1, <2>2
<1> QED
  BY <1>1, <1>2

LEMMA ReturnRhsInvariant == IInv /\ ReturnRhs => IInv'
<1> SUFFICES ASSUME IInv, ReturnRhs PROVE IInv'
  OBVIOUS
<1> DEFINE n == Len(stack)
           e == exprs[Top.expr]
           lhs == Top.lhs_result
           rows == Combine(e.op, values[lhs], values[m_result])
<1>1. /\ pc = "return" /\ stack # <<>> /\ Top.at = "rhs"
      /\ UNCHANGED <<visitor, exprs, denotes, root>>
  BY DEF ReturnRhs, Returning
<1>2. /\ TypeOK /\ DenotationsAgree /\ FramesArePath
      /\ values # <<>> => m_result # 0
  BY <1>1, ActiveFacts DEF Active, IInv
<1>3. /\ n \in Nat \ {0} /\ n \in DOMAIN stack /\ DOMAIN stack = 1 .. n
      /\ Pop \in Seq(Frames) /\ Len(Pop) = n - 1 /\ DOMAIN Pop = 1 .. n - 1
      /\ \A k \in 1 .. n - 1 : Pop[k] = stack[k]
      /\ Top = stack[n] /\ Top \in Frames
  BY <1>1, <1>2, PopFacts
<1>4. Top.expr \in DOMAIN exprs /\ e.kind = "predicate"
  BY <1>1, <1>3, ActiveFacts DEF Active
<1>5. n \in Held
  BY <1>1, <1>3 DEF Held
<1>6. lhs \in Nat /\ lhs <= Len(values) /\ Len(values) \in Nat
  <2>1. Top.lhs_result \in Nat
    BY <1>3 DEF Frames
  <2>2. /\ \A k \in DOMAIN stack : stack[k].lhs_result <= Len(values)
        /\ values \in Seq(SUBSET Rows)
    BY <1>2 DEF TypeOK
  <2>3. Len(values) \in Nat
    BY <2>2
  <2> HIDE DEF n
  <2> QED
    BY <1>3, <2>1, <2>2, <2>3
<1>7. CASE lhs = 0
  <2>1. pc' = "crash" /\ UNCHANGED frames
    BY <1>7 DEF ReturnRhs, frames
  <2>2. ~Proper
    <3> SUFFICES ASSUME Proper PROVE FALSE
      OBVIOUS
    <3>1. HeldInOrder
      BY <1>1 DEF IInv, Active, ProperEvaluation
    <3>2. lhs \in 1 .. Len(values)
      BY <1>3, <1>5, <3>1 DEF HeldInOrder
    <3> QED
      BY <1>6, <1>7, <3>2
  <2> QED
    BY <1>1, <2>1, <2>2, GiveUpInvariant DEF Active
<1>8. CASE lhs # 0
  <2>1. /\ CombineRhs(lhs, e.op, rows)
        /\ visiting' = Top.expr /\ stack' = Pop /\ pc' = "return"
    BY <1>8 DEF ReturnRhs
  <2>2. lhs \in 1 .. Len(values) /\ m_result \in 1 .. Len(values)
    BY <1>2, <1>6, <1>8 DEF TypeOK
  <2>3. /\ values \in Seq(SUBSET Rows) /\ visitor \in {"executor", "emitter"}
        /\ values[lhs] \in SUBSET Rows /\ values[m_result] \in SUBSET Rows
    BY <1>2, <2>2 DEF TypeOK
  <2>4. rows \in SUBSET Rows
    BY <2>3 DEF Combine
  <2>5. /\ values' \in Seq(SUBSET Rows)
        /\ Len(values') \in Nat /\ Len(values) <= Len(values')
        /\ m_result' \in 1 .. Len(values') /\ lhs <= m_result'
        /\ values'[m_result'] = rows
        /\ \A k \in 1 .. Len(values) : k # lhs => values'[k] = values[k]
    BY <2>1, <2>2, <2>3, <2>4, CombineFacts
  <2> HIDE DEF n, e, lhs, rows
  <2>6. \A k \in 1 .. n - 1 : k \in 1 .. n /\ k < n /\ stack'[k] = stack[k]
    BY <1>3, <2>1
  <2>7. TypeOK'
    <3>1. /\ \A k \in 1 .. n : stack[k].expr \in 1 .. Len(exprs)
          /\ \A k \in 1 .. n : stack[k].lhs_result <= Len(values)
          /\ \A k \in 1 .. n : stack[k] \in Frames
      <4>1. /\ stack \in Seq(Frames)
            /\ \A k \in DOMAIN stack :
                 stack[k].expr \in 1 .. Len(exprs) /\ stack[k].lhs_result <= Len(values)
        BY <1>2 DEF TypeOK
      <4>2. DOMAIN stack = 1 .. n
        BY <1>3, <4>1
      <4>3. \A k \in DOMAIN stack : stack[k] \in Frames
        BY <4>1
      <4> QED
        BY <4>1, <4>2, <4>3, Zenon
    <3>2. \A k \in 1 .. n : stack[k].lhs_result \in Nat
      BY <3>1 DEF Frames
    <3>3. \A k \in 1 .. n - 1 :
            stack'[k].expr \in 1 .. Len(exprs) /\ stack'[k].lhs_result <= Len(values')
      BY <1>6, <2>5, <2>6, <3>1, <3>2
    <3>4. visiting' \in 0 .. Len(exprs) /\ m_result' \in 0 .. Len(values')
      BY <1>2, <1>4, <2>1, <2>5 DEF TypeOK
    <3> QED
      BY <1>1, <1>2, <1>3, <2>1, <2>5, <3>3, <3>4 DEF TypeOK
  <2>8. FramesArePath'
    <3>1. \A k \in 1 .. n - 1 : k # 1 => k - 1 \in 1 .. n - 1
      BY <1>3
    <3>2. \A k \in 1 .. n - 1 :
            /\ exprs[stack'[k].expr].kind = "predicate"
            /\ stack'[k].expr = IF k = 1 THEN root ELSE Operand(stack'[k - 1])
      BY <1>2, <1>3, <2>6, <3>1 DEF FramesArePath
    <3>3. visiting' = IF stack' = <<>> THEN root ELSE Operand(stack'[n - 1])
      <4>1. stack' = <<>> <=> n = 1
        BY <1>3, <2>1
      <4>2. n # 1 => n - 1 \in 1 .. n - 1
        BY <1>3
      <4>3. Top.expr = IF n = 1 THEN root ELSE Operand(stack[n - 1])
        BY <1>2, <1>3 DEF FramesArePath
      <4> QED
        BY <2>1, <2>6, <4>1, <4>2, <4>3
    <3>4. \A k \in 1 .. n - 1 :
            stack'[k].expr = IF k = 1 THEN root' ELSE Operand(stack[k - 1])'
      BY <1>1, <3>2 DEF Operand
    <3>5. Operand(Top)' = Operand(stack'[n - 1])
      BY <1>1, <1>3, <2>1 DEF Top, Operand
    <3>6. Len(stack') = n - 1 /\ DOMAIN stack' = 1 .. n - 1
      BY <1>3, <2>1
    <3>7. root' # 0 /\ \A k \in 1 .. n - 1 : exprs'[stack'[k].expr].kind = "predicate"
      BY <1>1, <1>2, <3>2 DEF FramesArePath
    <3> QED
      BY <1>1, <3>3, <3>4, <3>5, <3>6, <3>7 DEF FramesArePath
  <2>9. ASSUME Proper PROVE ProperEvaluation'
    <3>1. ProperEvaluation /\ ResultReturned
      BY <1>1, <2>9 DEF IInv, Active, ProperEvaluation
    <3>2. visiting = e.rhs
      BY <1>1, <1>2 DEF FramesArePath, Operand, e
    <3>3. denotes[Top.expr].proper
      BY <1>3, <3>1 DEF ProperEvaluation
    <3>4. /\ values[lhs] = denotes[e.lhs].skipped
          /\ \A k \in Held : k < n => stack[k].lhs_result < lhs
          /\ \A k \in Held : stack[k].lhs_result \in 1 .. Len(values)
      BY <1>3, <1>5, <3>1 DEF ProperEvaluation, HeldInOrder, e, lhs
    <3>5. rows = denotes[Top.expr].skipped
      <4>1. /\ denotes[e.rhs].proper \/ Silent(exprs[e.rhs])
            /\ denotes[Top.expr].skipped =
                 IF Silent(exprs[e.rhs]) THEN denotes[e.lhs].skipped
                 ELSE Combine(e.op, denotes[e.lhs].skipped, denotes[e.rhs].skipped)
        BY <1>2, <1>4, <3>3, ProperOperands DEF e
      <4>2. Silent(exprs[e.rhs]) => ~denotes[e.rhs].proper
        <5>1. e.rhs \in DOMAIN exprs
          BY <1>2, <1>4, OperandsExist DEF IsOperand, e
        <5> QED
          BY <1>2, <5>1, LeafMeaning
      <4>3. CASE denotes[e.rhs].proper
        <5>1. values[m_result] = denotes[e.rhs].skipped
          BY <3>1, <3>2, <4>3 DEF ResultReturned
        <5> QED
          BY <3>4, <4>1, <4>2, <4>3, <5>1 DEF rows
      <4>4. CASE ~denotes[e.rhs].proper
        <5>1. m_result = lhs
          BY <3>1, <3>2, <4>4 DEF ResultReturned, lhs
        <5>2. rows = values[lhs]
          BY <5>1 DEF rows, Combine
        <5> QED
          BY <3>4, <4>1, <4>4, <5>2
      <4> QED
        BY <4>3, <4>4
    <3>6. \A k \in Held' : k \in 1 .. n - 1 /\ k \in Held /\ stack'[k] = stack[k]
      BY <1>3, <2>1, <2>6 DEF Held
    <3>7. \A k \in Held' : stack[k].lhs_result < lhs /\ stack[k].lhs_result \in 1 .. Len(values)
      BY <2>6, <3>4, <3>6
    <3>8. HeldInOrder'
      <4>1. ASSUME NEW k \in Held'
            PROVE  /\ stack'[k].lhs_result \in 1 .. Len(values')
                   /\ values'[stack'[k].lhs_result]
                        = denotes[exprs[stack'[k].expr].lhs].skipped
        <5>1. stack[k].lhs_result # lhs /\ stack[k].lhs_result \in 1 .. Len(values')
          BY <1>6, <2>5, <3>7
        <5>2. values[stack[k].lhs_result] = denotes[exprs[stack[k].expr].lhs].skipped
          BY <3>1, <3>6 DEF ProperEvaluation, HeldInOrder
        <5> QED
          BY <2>5, <3>6, <3>7, <5>1, <5>2
      <4>2. ASSUME NEW k \in Held', NEW j \in Held', j < k
            PROVE  stack'[j].lhs_result < stack'[k].lhs_result
        BY <3>1, <3>6, <4>2 DEF ProperEvaluation, HeldInOrder
      <4> QED
        BY <1>1, <4>1, <4>2 DEF HeldInOrder
    <3>9. ResultReturned'
      <4>1. \A k \in Held' : stack'[k].lhs_result < m_result'
        BY <1>6, <2>5, <3>6, <3>7
      <4> QED
        BY <1>1, <2>1, <2>5, <3>3, <3>5, <4>1 DEF ResultReturned
    <3>10. \A k \in DOMAIN stack' : denotes[stack'[k].expr].proper
      BY <1>3, <2>1, <2>6, <3>1 DEF ProperEvaluation
    <3> QED
      BY <1>1, <2>1, <3>8, <3>9, <3>10 DEF ProperEvaluation
  <2>10. m_result' # 0
    BY <2>5
  <2> QED
    BY <1>1, <2>1, <2>7, <2>8, <2>9, <2>10, EvaluationStep DEF Active
<1> QED
  BY <1>7, <1>8

LEMMA FinishInvariant == IInv /\ Finish => IInv'
<1> SUFFICES ASSUME IInv, Finish PROVE IInv'
  OBVIOUS
<1>1. /\ pc = "return" /\ stack = <<>>
      /\ pc' = IF visitor = "emitter" /\ m_result = 0 THEN "crash" ELSE "done"
      /\ UNCHANGED <<visitor, exprs, denotes, root, stack, visiting, values, m_result>>
  BY DEF Finish, frames
<1>2. TypeOK'
  BY <1>1 DEF IInv, TypeOK
<1>3. DenotationsAgree'
  BY <1>1, ExpressionsKept DEF IInv
<1>4. visiting = root /\ root # 0
  BY <1>1 DEF IInv, Active, FramesArePath
<1>5. Proper => m_result # 0 /\ values[m_result] = denotes[root].skipped
  <2> SUFFICES ASSUME Proper PROVE m_result # 0 /\ values[m_result] = denotes[root].skipped
    OBVIOUS
  <2>1. ResultReturned
    BY <1>1 DEF IInv, Active, ProperEvaluation
  <2> QED
    BY <1>1, <1>4, <2>1 DEF ResultReturned, Proper
<1> QED
  BY <1>1, <1>2, <1>3, <1>4, <1>5
  DEF IInv, Active, Proper, ConstantsSkipped, NullOnlyFromLeaves

LEMMA LeaveInvariant == IInv /\ Leave => IInv'
<1> SUFFICES ASSUME IInv, Leave PROVE IInv'
  OBVIOUS
<1>1. /\ root' = 0 /\ stack' = <<>> /\ visiting' = 0 /\ values' = <<>> /\ m_result' = 0
      /\ pc' = "idle" /\ UNCHANGED <<visitor, exprs, denotes>>
  BY DEF Leave
<1>2. TypeOK'
  BY <1>1 DEF IInv, TypeOK
<1>3. DenotationsAgree'
  BY <1>1, ExpressionsKept DEF IInv
<1> QED
  BY <1>1, <1>2, <1>3 DEF IInv, Active, ConstantsSkipped, NullOnlyFromLeaves

-----------------------------------------------------------------------------
(* The theorems.                                                           *)

LEMMA NextInvariant == IInv /\ [Next]_vars => IInv'
<1> SUFFICES ASSUME IInv, [Next]_vars PROVE IInv'
  OBVIOUS
<1>1. CASE BuildCompare \/ BuildConst \/ BuildPredicate
  BY <1>1, BuildAnyInvariant
<1>2. CASE Start
  BY <1>2, StartInvariant
<1>3. CASE EnterPredicate
  BY <1>3, EnterPredicateInvariant
<1>4. CASE ExecuteCompare \/ EmitCompare \/ VisitConst
  BY <1>4, LeafInvariant
<1>5. CASE ReturnLhs
  BY <1>5, ReturnLhsInvariant
<1>6. CASE ReturnRhs
  BY <1>6, ReturnRhsInvariant
<1>7. CASE Finish
  BY <1>7, FinishInvariant
<1>8. CASE Leave
  BY <1>8, LeaveInvariant
<1>9. CASE UNCHANGED vars
  <2>1. UNCHANGED <<visitor, exprs, denotes, root, stack, visiting, values, m_result, pc>>
    BY <1>9 DEF vars, frames
  <2>2. TypeOK' /\ DenotationsAgree'
    BY <2>1, ExpressionsKept DEF IInv, TypeOK
  <2>3. Active => FramesArePath'
    BY <2>1 DEF IInv, FramesArePath, Operand, Top
  <2>4. Active /\ Proper => ProperEvaluation'
    BY <2>1 DEF IInv, ProperEvaluation, HeldInOrder, Held, ResultReturned, Top
  <2>5. ConstantsSkipped' /\ NullOnlyFromLeaves'
    BY <2>1 DEF IInv, ConstantsSkipped, NullOnlyFromLeaves, Proper
  <2> QED
    BY <2>1, <2>2, <2>3, <2>4, <2>5 DEF IInv, Active, Proper
<1> QED
  BY <1>1, <1>2, <1>3, <1>4, <1>5, <1>6, <1>7, <1>8, <1>9 DEF Next, Step

(***************************************************************************)
(* The inductive invariant of the two visitors: results held by pending    *)
(* operands are the meaning of these, and all different.                   *)
(***************************************************************************)
THEOREM Invariance == Spec => []IInv
BY InitInvariant, NextInvariant, PTL DEF Spec

\* Type correctness of expressions and visitors.
THEOREM TypeCorrect == Spec => []TypeOK
<1>1. IInv => TypeOK
  BY DEF IInv
<1> QED
  BY <1>1, Invariance, PTL

\* visit(const PredicateExpr &) of both visitors computes what the expression
\* is true of, however AND and OR are nested and operands shared.
THEOREM EvaluationCorrect == Spec => []ResultCorrect
<1>1. IInv => ResultCorrect
  <2> SUFFICES ASSUME IInv, pc = "done", denotes[root].heard
               PROVE  m_result # 0 /\ values[m_result] = denotes[root].truth
    BY DEF ResultCorrect
  <2>1. root = 0 \/ root \in DOMAIN exprs
    BY DEF IInv, TypeOK
  <2>2. root # 0
    BY DEF IInv
  <2>3. denotes[root].proper /\ denotes[root].skipped = denotes[root].truth
    BY <2>1, <2>2 DEF IInv, DenotationsAgree
  <2> QED
    BY <2>3 DEF IInv, ConstantsSkipped
<1> QED
  BY <1>1, Invariance, PTL

\* A BooleanConst as a right operand is skipped, by both visitors.
THEOREM RightConstantsSkipped == Spec => []ConstantsSkipped
<1>1. IInv => ConstantsSkipped
  BY DEF IInv
<1> QED
  BY <1>1, Invariance, PTL

\* Null results, and with them crashes, come from leaves without a result.
THEOREM NullOrigin == Spec => []NullOnlyFromLeaves
<1>1. IInv => NullOnlyFromLeaves
  BY DEF IInv
<1> QED
  BY <1>1, Invariance, PTL

\* The bitmap of a pending left operand is not written to while its right
\* operand is evaluated.
THEOREM HeldBitmapsKept == Spec => HeldResultsKept
<1> DEFINE Kept ==
      \A k \in Held :
        Proper /\ k \in DOMAIN stack' /\ stack'[k] = stack[k]
          => values'[stack[k].lhs_result] = values[stack[k].lhs_result]
<1>1. IInv /\ [Next]_vars => [Kept]_vars
  <2> SUFFICES ASSUME IInv, Next, NEW k \in Held, Proper, k \in DOMAIN stack',
                      stack'[k] = stack[k]
               PROVE  values'[stack[k].lhs_result] = values[stack[k].lhs_result]
    OBVIOUS
  <2>1. CASE UNCHANGED values
    BY <2>1
  <2>2. CASE Leave
    BY <2>2 DEF Leave
  <2>3. ASSUME Active, NEW rows \in SUBSET Rows, NewValue(rows)
        PROVE  values'[stack[k].lhs_result] = values[stack[k].lhs_result]
    <3>1. stack[k].lhs_result \in 1 .. Len(values)
      BY <2>3 DEF IInv, ProperEvaluation, HeldInOrder
    <3>2. values \in Seq(SUBSET Rows) /\ values' = Append(values, rows)
      BY <2>3 DEF IInv, TypeOK, NewValue
    <3> QED
      BY <3>1, <3>2, AppendFacts
  <2>4. CASE pc = "visit" /\ exprs[visiting].kind = "compare"
             /\ NewValue(Satisfying[exprs[visiting].cmp])
    <3>1. visiting \in DOMAIN exprs /\ exprs \in Seq(Exprs)
      BY <2>4, ActiveFacts DEF Active, TypeOK
    <3>2. exprs[visiting] \in Exprs
      BY <3>1
    <3>3. exprs[visiting].cmp \in Comparisons
      BY <2>4, <3>2 DEF Exprs
    <3>4. Satisfying[exprs[visiting].cmp] \in SUBSET Rows
      BY <3>3, ComparisonAssumption
    <3> QED
      BY <2>3, <2>4, <3>4 DEF Active
  <2>5. CASE ReturnRhs
    <3> DEFINE n == Len(stack)
               lhs == Top.lhs_result
               rows == Combine(exprs[Top.expr].op, values[lhs], values[m_result])
    <3>1. /\ pc = "return" /\ stack # <<>> /\ Top.at = "rhs"
          /\ \/ UNCHANGED values
             \/ CombineRhs(lhs, exprs[Top.expr].op, rows) /\ stack' = Pop
      BY <2>5 DEF ReturnRhs, Returning
    <3>2. CASE UNCHANGED values
      BY <3>2
    <3>3. CASE CombineRhs(lhs, exprs[Top.expr].op, rows) /\ stack' = Pop
      <4>1. /\ TypeOK /\ ProperEvaluation
        BY <3>1 DEF IInv, Active
      <4>2. /\ n \in Nat \ {0} /\ n \in DOMAIN stack
            /\ DOMAIN Pop = 1 .. n - 1 /\ Top = stack[n]
        BY <3>1, <4>1, PopFacts
      <4>3. n \in Held /\ k < n
        BY <3>1, <3>3, <4>2 DEF Held
      <4>4. /\ lhs \in 1 .. Len(values) /\ stack[k].lhs_result \in 1 .. Len(values)
            /\ stack[k].lhs_result < lhs /\ Len(values) \in Nat
        BY <4>1, <4>2, <4>3 DEF ProperEvaluation, HeldInOrder, TypeOK
      <4>5. stack[k].lhs_result # lhs
        BY <4>4
      <4>6. /\ values \in Seq(SUBSET Rows) /\ visitor \in {"executor", "emitter"}
            /\ rows \in SUBSET Rows
        <5>1. values # <<>> /\ m_result \in 1 .. Len(values)
          BY <4>1, <4>4 DEF IInv, TypeOK
        <5> QED
          BY <4>1, <4>4, <5>1 DEF TypeOK, Combine
      <4> HIDE DEF rows, lhs, n
      <4> QED
        BY <3>3, <4>4, <4>5, <4>6, CombineFacts
    <3> QED
      BY <3>1, <3>2, <3>3
  <2> QED
    BY <2>1, <2>2, <2>4, <2>5
    DEF Next, BuildCompare, BuildConst, BuildPredicate, Build, Start, Step, EnterPredicate,
        ExecuteCompare, EmitCompare, VisitConst, ReturnLhs, Finish, Visit, frames
<1> QED
  BY <1>1, Invariance, PTL DEF Spec, HeldResultsKept
-----------------------------------------------------------------------------
(***************************************************************************)
(* Why an evaluation ends, although operands are shared and an expression  *)
(* may be visited many times in one evaluation.                            *)
(*                                                                         *)
(* An expression is older than those it is an operand of, so the active    *)
(* calls are of older and older expressions.  What is left of the current  *)
(* call on each expression, read from the newest expression to the oldest, *)
(* goes down in the lexicographic order.                                   *)
(***************************************************************************)
Descending ==
  \A k \in DOMAIN stack :
    /\ visiting < stack[k].expr
    /\ \A j \in DOMAIN stack : j < k => stack[k].expr < stack[j].expr

\* At most 4 steps: in, left operand done, right operand done, out.
CallLeft(e) ==
  IF visiting = e THEN IF pc = "visit" THEN 4 ELSE 1
  ELSE IF \E k \in DOMAIN stack : stack[k].expr = e /\ stack[k].at = "lhs" THEN 3
  ELSE IF \E k \in DOMAIN stack : stack[k].expr = e THEN 2
  ELSE 0

UsesUp ==
  /\ exprs' = exprs
  /\ \E e \in DOMAIN exprs :
       /\ CallLeft(e)' < CallLeft(e)
       /\ \A f \in DOMAIN exprs : f > e => CallLeft(f)' = CallLeft(f)

\* A step at expression e leaves the calls on newer ones alone.
LEMMA UsesUpAt ==
  ASSUME NEW e \in DOMAIN exprs, DOMAIN exprs \subseteq Nat, exprs' = exprs,
         visiting \in DOMAIN exprs, visiting <= e, visiting' \in DOMAIN exprs, visiting' <= e,
         \A k \in DOMAIN stack :
           stack[k].expr > e => k \in DOMAIN stack' /\ stack'[k] = stack[k],
         \A k \in DOMAIN stack' :
           stack'[k].expr > e => k \in DOMAIN stack /\ stack'[k] = stack[k],
         CallLeft(e)' < CallLeft(e)
  PROVE  UsesUp
<1>1. ASSUME NEW f \in DOMAIN exprs, f > e
      PROVE  CallLeft(f)' = CallLeft(f)
  <2>1. visiting # f /\ visiting' # f
    BY <1>1
  <2>2. ASSUME NEW k \in DOMAIN stack, stack[k].expr = f
        PROVE  k \in DOMAIN stack' /\ stack'[k].expr = f /\ stack'[k].at = stack[k].at
    BY <1>1, <2>2
  <2>3. ASSUME NEW k \in DOMAIN stack', stack'[k].expr = f
        PROVE  k \in DOMAIN stack /\ stack[k].expr = f /\ stack'[k].at = stack[k].at
    BY <1>1, <2>3
  <2>4. (\E k \in DOMAIN stack : stack[k].expr = f /\ stack[k].at = "lhs")
          <=> (\E k \in DOMAIN stack' : stack'[k].expr = f /\ stack'[k].at = "lhs")
    BY <2>2, <2>3, Zenon
  <2>5. (\E k \in DOMAIN stack : stack[k].expr = f)
          <=> (\E k \in DOMAIN stack' : stack'[k].expr = f)
    BY <2>2, <2>3, Zenon
  <2> QED
    BY <2>1, <2>4, <2>5 DEF CallLeft
<1> QED
  BY <1>1 DEF UsesUp

\* What a call of visit finds: operands are older than their expression.
LEMMA DescendingFacts ==
  ASSUME IInv, Active, Descending
  PROVE  /\ DOMAIN exprs \subseteq Nat /\ visiting \in DOMAIN exprs
         /\ Len(stack) \in Nat /\ DOMAIN stack = 1 .. Len(stack) /\ stack \in Seq(Frames)
         /\ \A k \in DOMAIN stack :
              stack[k].expr \in DOMAIN exprs /\ visiting < stack[k].expr
         /\ \A i \in DOMAIN exprs :
              exprs[i].kind = "predicate"
                => /\ exprs[i].lhs \in DOMAIN exprs /\ exprs[i].lhs < i
                   /\ exprs[i].rhs \in DOMAIN exprs /\ exprs[i].rhs < i
<1>1. /\ TypeOK /\ visiting \in DOMAIN exprs
      /\ \A k \in DOMAIN stack : stack[k].expr \in DOMAIN exprs
  BY ActiveFacts
<1>2. /\ exprs \in Seq(Exprs) /\ Len(exprs) \in Nat /\ DOMAIN exprs = 1 .. Len(exprs)
      /\ stack \in Seq(Frames) /\ Len(stack) \in Nat /\ DOMAIN stack = 1 .. Len(stack)
  BY <1>1 DEF TypeOK
<1>3. ASSUME NEW i \in DOMAIN exprs, exprs[i].kind = "predicate"
      PROVE  /\ exprs[i].lhs \in DOMAIN exprs /\ exprs[i].lhs < i
             /\ exprs[i].rhs \in DOMAIN exprs /\ exprs[i].rhs < i
  <2>1. exprs[i].lhs \in DOMAIN exprs /\ exprs[i].rhs \in DOMAIN exprs
    BY <1>1, <1>3, OperandsExist DEF IsOperand
  <2> QED
    BY <1>1, <1>3, <2>1 DEF TypeOK
<1> QED
  BY <1>1, <1>2, <1>3 DEF Descending

\* A call of visit(const PredicateExpr &) begins.
LEMMA EnterUsesUp ==
  ASSUME IInv, Active, Descending, EnterPredicate
  PROVE  Descending' /\ UsesUp
<1> DEFINE n == Len(stack)
           frame == [expr |-> visiting, at |-> "lhs", lhs_result |-> 0]
<1>1. /\ pc = "visit" /\ exprs[visiting].kind = "predicate" /\ exprs' = exprs /\ pc' = "visit"
      /\ stack' = Append(stack, frame) /\ visiting' = exprs[visiting].lhs
  BY DEF EnterPredicate, Visit
<1>2. /\ DOMAIN exprs \subseteq Nat /\ visiting \in DOMAIN exprs
      /\ n \in Nat /\ DOMAIN stack = 1 .. n
      /\ \A k \in DOMAIN stack :
           stack[k].expr \in DOMAIN exprs /\ visiting < stack[k].expr
      /\ visiting' \in DOMAIN exprs /\ visiting' < visiting
  BY <1>1, DescendingFacts
<1>3. /\ DOMAIN stack' = 1 .. n + 1 /\ stack'[n + 1] = frame
      /\ \A k \in 1 .. n : stack'[k] = stack[k]
  <2>1. stack \in Seq(Frames) /\ frame \in Frames
    BY <1>2, DescendingFacts DEF Frames
  <2> QED
    BY <1>1, <2>1, AppendFacts
<1>4. Descending'
  <2> SUFFICES ASSUME NEW k \in 1 .. n + 1
               PROVE  /\ visiting' < stack'[k].expr
                      /\ \A j \in 1 .. n + 1 : j < k => stack'[k].expr < stack'[j].expr
    BY <1>3 DEF Descending
  <2>1. CASE k = n + 1
    BY <1>2, <1>3, <2>1
  <2>2. CASE k # n + 1
    <3>1. k \in 1 .. n /\ \A j \in 1 .. n + 1 : j < k => j \in 1 .. n
      BY <1>2, <2>2
    <3> QED
      BY <1>2, <1>3, <3>1 DEF Descending
  <2> QED
    BY <2>1, <2>2
<1>5. PICK e \in DOMAIN exprs : e = visiting
  BY <1>2
<1>6. CallLeft(e) = 4
  BY <1>1, <1>5 DEF CallLeft
<1>7. CallLeft(e)' = 3
  <2>1. visiting' # e
    BY <1>2, <1>5
  <2>2. \E k \in DOMAIN stack' : stack'[k].expr = e /\ stack'[k].at = "lhs"
    BY <1>2, <1>3, <1>5
  <2> QED
    BY <2>1, <2>2 DEF CallLeft
<1>8. ASSUME NEW k \in DOMAIN stack', stack'[k].expr > e
      PROVE  k \in DOMAIN stack /\ stack'[k] = stack[k]
  <2>1. k # n + 1
    BY <1>2, <1>3, <1>5, <1>8
  <2> QED
    BY <1>2, <1>3, <2>1
<1>9. \A k \in DOMAIN stack : k \in DOMAIN stack' /\ stack'[k] = stack[k]
  BY <1>2, <1>3
<1>10. visiting <= e /\ visiting' <= e /\ CallLeft(e)' < CallLeft(e)
  BY <1>2, <1>5, <1>6, <1>7
<1> QED
  BY <1>1, <1>2, <1>4, <1>8, <1>9, <1>10, UsesUpAt

\* The visit of a comparison or a constant.
LEMMA LeafUsesUp ==
  ASSUME IInv, Active, Descending, pc = "visit", pc' = "return",
         UNCHANGED <<exprs, stack, visiting>>
  PROVE  Descending' /\ UsesUp
<1>1. DOMAIN exprs \subseteq Nat /\ visiting \in DOMAIN exprs
  BY DescendingFacts
<1>2. PICK e \in DOMAIN exprs : e = visiting
  BY <1>1
<1>3. CallLeft(e) = 4 /\ CallLeft(e)' = 1
  BY <1>2 DEF CallLeft
<1>4. visiting <= e /\ visiting' <= e /\ CallLeft(e)' < CallLeft(e)
  BY <1>1, <1>2, <1>3
<1>5. UsesUp
  BY <1>1, <1>4, UsesUpAt
<1> QED
  BY <1>5 DEF Descending

\* The left operand is done, the right one is next.
LEMMA ReturnLhsUsesUp ==
  ASSUME IInv, Active, Descending, ReturnLhs
  PROVE  Descending' /\ UsesUp
<1> DEFINE n == Len(stack)
           frame == [Top EXCEPT !.at = "rhs", !.lhs_result = m_result]
<1>1. /\ stack # <<>> /\ Top.at = "lhs" /\ exprs' = exprs
      /\ stack' = Append(Pop, frame) /\ visiting' = exprs[Top.expr].rhs
  BY DEF ReturnLhs, Returning
<1>2. /\ n \in Nat \ {0} /\ DOMAIN stack = 1 .. n /\ Top = stack[n] /\ Top \in Frames
      /\ Pop \in Seq(Frames) /\ Len(Pop) = n - 1
      /\ \A k \in 1 .. n - 1 : Pop[k] = stack[k]
  BY <1>1, ActiveFacts, PopFacts
<1>3. /\ DOMAIN exprs \subseteq Nat /\ visiting \in DOMAIN exprs
      /\ \A k \in DOMAIN stack :
           stack[k].expr \in DOMAIN exprs /\ visiting < stack[k].expr
      /\ visiting' \in DOMAIN exprs /\ visiting' < Top.expr
  BY <1>1, <1>2, DescendingFacts, ActiveFacts
<1>4. /\ DOMAIN stack' = 1 .. n
      /\ stack'[n].expr = Top.expr /\ stack'[n].at = "rhs"
      /\ \A k \in 1 .. n - 1 : stack'[k] = stack[k]
  <2>1. frame \in Frames /\ frame.expr = Top.expr /\ frame.at = "rhs"
    <3>1. m_result \in Nat
      BY ActiveFacts DEF TypeOK
    <3> QED
      BY <1>2, <3>1 DEF Frames
  <2>2. /\ DOMAIN stack' = 1 .. Len(Pop) + 1 /\ stack'[Len(Pop) + 1] = frame
        /\ \A k \in 1 .. Len(Pop) : stack'[k] = Pop[k]
    <3>1. Pop \in Seq(Frames) /\ frame \in Frames /\ stack' = Append(Pop, frame)
      BY <1>1, <1>2, <2>1
    <3> HIDE DEF frame
    <3> QED
      BY <3>1, AppendFacts
  <2>3. Len(Pop) + 1 = n
    BY <1>2
  <2> QED
    BY <1>2, <2>1, <2>2, <2>3
<1>5. \A k \in 1 .. n - 1 : Top.expr < stack[k].expr
  BY <1>2 DEF Descending
<1>6. Descending'
  <2> SUFFICES ASSUME NEW k \in 1 .. n
               PROVE  /\ visiting' < stack'[k].expr
                      /\ \A j \in 1 .. n : j < k => stack'[k].expr < stack'[j].expr
    BY <1>4 DEF Descending
  <2>1. CASE k = n
    BY <1>2, <1>3, <1>4, <1>5, <2>1, SMTT(30)
  <2>2. CASE k # n
    <3>n. n \in Nat
      BY <1>2
    <3>1. k \in 1 .. n - 1 /\ \A j \in 1 .. n : j < k => j \in 1 .. n - 1
      <4> HIDE DEF n
      <4> QED
        BY <2>2, <3>n
    <3>2. visiting' < stack[k].expr
      BY <1>2, <1>3, <1>5, <3>1, SMTT(30)
    <3> QED
      BY <1>2, <1>4, <3>1, <3>2 DEF Descending
  <2> QED
    BY <2>1, <2>2
<1>7. PICK e \in DOMAIN exprs : e = Top.expr
  BY <1>2, <1>3
<1>8. CallLeft(e) = 3
  <2>1. visiting # e /\ stack[n].expr = e /\ stack[n].at = "lhs" /\ n \in DOMAIN stack
    BY <1>1, <1>2, <1>3, <1>7
  <2> QED
    BY <2>1 DEF CallLeft
<1>9. CallLeft(e)' = 2
  <2>1. visiting' # e /\ stack'[n].expr = e /\ n \in DOMAIN stack'
    BY <1>2, <1>3, <1>4, <1>7
  <2>2. ASSUME NEW k \in DOMAIN stack', stack'[k].expr = e, stack'[k].at = "lhs"
        PROVE  FALSE
    <3>1. CASE k = n
      BY <1>4, <2>2, <3>1
    <3>2. CASE k # n
      BY <1>2, <1>3, <1>4, <1>5, <1>7, <2>2, <3>2
    <3> QED
      BY <3>1, <3>2
  <2> QED
    BY <2>1, <2>2 DEF CallLeft
<1>10. \A k \in 1 .. n : k = n \/ stack'[k] = stack[k]
  BY <1>2, <1>4
<1>11. /\ visiting <= e /\ visiting' <= e /\ CallLeft(e)' < CallLeft(e)
       /\ ~(stack[n].expr > e) /\ ~(stack'[n].expr > e)
  BY <1>2, <1>3, <1>4, <1>7, <1>8, <1>9
<1> QED
  BY <1>1, <1>2, <1>3, <1>4, <1>6, <1>10, <1>11, UsesUpAt

\* Both operands are done; without a result of the left one the visit crashes.
LEMMA ReturnRhsUsesUp ==
  ASSUME IInv, Active, Descending, ReturnRhs, pc' = "return"
  PROVE  Descending' /\ UsesUp
<1> DEFINE n == Len(stack)
<1>1. /\ stack # <<>> /\ Top.at = "rhs" /\ exprs' = exprs
      /\ stack' = Pop /\ visiting' = Top.expr
  BY DEF ReturnRhs, Returning
<1>2. /\ n \in Nat \ {0} /\ DOMAIN stack = 1 .. n /\ Top = stack[n]
      /\ DOMAIN stack' = 1 .. n - 1 /\ \A k \in 1 .. n - 1 : stack'[k] = stack[k]
  BY <1>1, ActiveFacts, PopFacts
<1>3. /\ DOMAIN exprs \subseteq Nat /\ visiting \in DOMAIN exprs
      /\ \A k \in DOMAIN stack :
           stack[k].expr \in DOMAIN exprs /\ visiting < stack[k].expr
  BY DescendingFacts
<1>4. \A k \in 1 .. n - 1 : Top.expr < stack[k].expr
  BY <1>2 DEF Descending
<1>5. Descending'
  <2> SUFFICES ASSUME NEW k \in 1 .. n - 1
               PROVE  /\ visiting' < stack'[k].expr
                      /\ \A j \in 1 .. n - 1 : j < k => stack'[k].expr < stack'[j].expr
    BY <1>2 DEF Descending
  <2> QED
    BY <1>1, <1>2, <1>4 DEF Descending
<1>6. PICK e \in DOMAIN exprs : e = Top.expr
  BY <1>2, <1>3
<1>7. CallLeft(e) = 2
  <2>1. visiting # e /\ stack[n].expr = e /\ n \in DOMAIN stack
    BY <1>2, <1>3, <1>6
  <2>2. ASSUME NEW k \in DOMAIN stack, stack[k].expr = e, stack[k].at = "lhs"
        PROVE  FALSE
    <3>1. CASE k = n
      BY <1>1, <1>2, <2>2, <3>1
    <3>2. CASE k # n
      BY <1>2, <1>3, <1>4, <1>6, <2>2, <3>2
    <3> QED
      BY <3>1, <3>2
  <2> QED
    BY <2>1, <2>2 DEF CallLeft
<1>8. CallLeft(e)' = 1
  BY <1>1, <1>6 DEF CallLeft
<1>9. /\ visiting <= e /\ visiting' <= e /\ CallLeft(e)' < CallLeft(e)
      /\ ~(stack[n].expr > e)
  BY <1>1, <1>2, <1>3, <1>6, <1>7, <1>8
<1>10. /\ \A k \in 1 .. n : k = n \/ k \in 1 .. n - 1
       /\ \A k \in 1 .. n - 1 : k \in 1 .. n
  <2>1. n \in Nat
    BY <1>2
  <2> HIDE DEF n
  <2> QED
    BY <2>1
<1> QED
  BY <1>1, <1>2, <1>3, <1>5, <1>6, <1>9, <1>10, UsesUpAt

\* Every step of an evaluation that does not end it uses up some of it.
LEMMA StepUsesUp ==
  ASSUME IInv, Active => Descending, Next
  PROVE  /\ Active' => Descending'
         /\ Active => ~Active' \/ UsesUp
<1>1. CASE BuildCompare \/ BuildConst \/ BuildPredicate
  BY <1>1 DEF BuildCompare, BuildConst, BuildPredicate, Build, Active
<1>2. CASE Start
  <2>1. stack' = <<>> /\ ~Active
    BY <1>2 DEF Start, IInv, Active
  <2> QED
    BY <2>1 DEF Descending
<1>3. CASE EnterPredicate
  BY <1>3, EnterUsesUp DEF EnterPredicate, Visit, Active
<1>4. CASE ExecuteCompare \/ EmitCompare \/ VisitConst
  <2>1. pc = "visit" /\ UNCHANGED <<exprs, stack, visiting>>
    BY <1>4 DEF ExecuteCompare, EmitCompare, VisitConst, Visit, frames
  <2>2. pc' \in {"return", "crash"} \cup Exceptions
    BY <1>4 DEF ExecuteCompare, EmitCompare, VisitConst, Exceptions
  <2> QED
    BY <2>1, <2>2, LeafUsesUp DEF Active, Exceptions
<1>5. CASE ReturnLhs
  BY <1>5, ReturnLhsUsesUp DEF ReturnLhs, Returning, Active
<1>6. CASE ReturnRhs
  <2>1. pc = "return" /\ pc' \in {"return", "crash"}
    BY <1>6 DEF ReturnRhs, Returning
  <2> QED
    BY <1>6, <2>1, ReturnRhsUsesUp DEF Active
<1>7. CASE Finish \/ Leave
  BY <1>7 DEF Finish, Leave, Active
<1> QED
  BY <1>1, <1>2, <1>3, <1>4, <1>5, <1>6, <1>7 DEF Next, Step

(***************************************************************************)
(* Evaluations end: the calls active are of older and older expressions,   *)
(* and every step of a visitor either ends the evaluation or leaves less   *)
(* to do on the newest expression it changes anything of.                  *)
(***************************************************************************)
THEOREM EveryStepUsesUp ==
  Spec => [](Active => Descending) /\ [][Active => ~Active' \/ UsesUp]_vars
<1> DEFINE DInv == Active => Descending
<1>1. Init => DInv
  BY DEF Init, Active
<1>2. IInv /\ DInv /\ [Next]_vars => DInv'
  <2>1. IInv /\ DInv /\ Next => DInv'
    BY StepUsesUp
  <2>2. DInv /\ UNCHANGED vars => DInv'
    BY DEF vars, frames, Active, Descending
  <2> QED
    BY <2>1, <2>2
<1>3. IInv /\ DInv /\ [Next]_vars => [Active => ~Active' \/ UsesUp]_vars
  BY StepUsesUp
<1> QED
  BY Invariance, <1>1, <1>2, <1>3, PTL DEF Spec
=============================================================================
