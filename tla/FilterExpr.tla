----------------------------- MODULE FilterExpr -----------------------------
(***************************************************************************)
(* Filter expressions: how they are built, and the two visitors that give  *)
(* them a meaning.                                                         *)
(*                                                                         *)
(*   executor  FilterExprExecutor: a bitmap for the rows of a table.  A    *)
(*             comparison allocates one (FilterBitmap); AND and OR write   *)
(*             to the bitmap of their left operand.                        *)
(*   emitter   IrEmitVisitor: an LLVM value for one row of one column.     *)
(*             Every operation makes a new value.                          *)
(*                                                                         *)
(* Both leave the result of a visit in one field (m_buffer, m_result; here *)
(* m_result) and read it after the call.  Neither overrides visit of       *)
(* BooleanConst, whose base version does nothing, so the field keeps what  *)
(* was in it.                                                              *)
(*                                                                         *)
(* An expression points at its operands, which other expressions may share.*)
(* A bitmap, or the value of every row, is the set of rows it is true of.  *)
(***************************************************************************)
EXTENDS Integers, Sequences

CONSTANTS
  Rows,          \* the rows of the table
  Comparisons,   \* the comparisons considered
  Satisfying,    \* for each comparison the rows that satisfy it
  Missing,       \* those on a column the table does not have
  Unsupported,   \* those on a column whose type has no LLVM type
  Mismatched,    \* those whose literal is of a kind their column's type does not take
  Foreign,       \* those on another column than the emitter's
  Consts,        \* the values of the BooleanConsts considered
  MaxExprs       \* bound on the expressions built

ASSUME ComparisonAssumption ==
  /\ Satisfying \in [Comparisons -> SUBSET Rows]
  /\ Consts \subseteq BOOLEAN

VARIABLES
  visitor,    \* "executor" or "emitter"
  exprs,      \* the expressions built so far
  denotes,    \* what each of them means (not in the code)
  root,       \* the expression being evaluated, or 0
  stack,      \* the active calls of visit(const PredicateExpr &)
  visiting,   \* the expression visit was last called on
  values,     \* the bitmaps or values made during the evaluation
  m_result,   \* one of them, or 0 for null
  pc          \* "idle", "visit" on the way in, "return" on the way out of a
              \* visit, "done", "crash" or the exception thrown

frames == <<stack, visiting, values, m_result>>
vars == <<visitor, exprs, denotes, root, frames, pc>>

Exceptions == {"not_implemented", "bad_variant_access"}

-----------------------------------------------------------------------------
CompareExpr(c) == [kind |-> "compare", cmp |-> c]
BooleanConst(v) == [kind |-> "const", value |-> v]
PredicateExpr(l, r, o) == [kind |-> "predicate", lhs |-> l, rhs |-> r, op |-> o]

Combine(op, A, B) == IF op = "AND" THEN A \cap B ELSE A \cup B

\* The visit returns without a result.
Silent(e) ==
  \/ e.kind = "const"
  \/ e.kind = "compare" /\ visitor = "emitter" /\ e.cmp \in Foreign

(***************************************************************************)
(* What an expression means: the rows it is true of; the rows it is true   *)
(* of when right operands that are silent are left out; whether no other   *)
(* operand is silent (proper), and whether none at all is (heard).         *)
(***************************************************************************)
Denotation(e) ==
  IF e.kind = "predicate"
  THEN LET L == denotes[e.lhs]
           R == denotes[e.rhs]
       IN  [truth   |-> Combine(e.op, L.truth, R.truth),
            skipped |-> IF Silent(exprs[e.rhs]) THEN L.skipped
                        ELSE Combine(e.op, L.skipped, R.skipped),
            proper  |-> L.proper /\ (R.proper \/ Silent(exprs[e.rhs])),
            heard   |-> L.heard /\ R.heard]
  ELSE LET rows == IF e.kind = "compare" THEN Satisfying[e.cmp]
                   ELSE IF e.value THEN Rows ELSE {}
       IN  [truth |-> rows, skipped |-> rows, proper |-> ~Silent(e), heard |-> ~Silent(e)]

\* An expression equal to another one is evaluated like it, on bitmaps or
\* values of its own, so only different ones are built.
Build(e) ==
  /\ pc = "idle"
  /\ Len(exprs) < MaxExprs
  /\ \A i \in DOMAIN exprs : exprs[i] # e
  /\ exprs' = Append(exprs, e)
  /\ denotes' = Append(denotes, Denotation(e))
  /\ UNCHANGED <<visitor, root, frames, pc>>

BuildCompare == \E cmp \in Comparisons : Build(CompareExpr(cmp))
BuildConst == \E value \in Consts : Build(BooleanConst(value))

\* BooleanExpr::AND and ::OR, on any two expressions.
BuildPredicate ==
  \E lhs, rhs \in DOMAIN exprs, op \in {"AND", "OR"} : Build(PredicateExpr(lhs, rhs, op))

-----------------------------------------------------------------------------
Init ==
  /\ visitor \in {"executor", "emitter"}
  /\ exprs = <<>> /\ denotes = <<>>
  /\ root = 0 /\ stack = <<>> /\ visiting = 0 /\ values = <<>> /\ m_result = 0
  /\ pc = "idle"

\* A fresh visitor, without a result, visits the whole expression, here the
\* newest: any other was it once, and what was built since is not part of it.
Start ==
  /\ pc = "idle"
  /\ exprs # <<>>
  /\ root' = Len(exprs) /\ visiting' = root'
  /\ pc' = "visit"
  /\ UNCHANGED <<visitor, exprs, denotes, stack, values, m_result>>

Visit(kind) == pc = "visit" /\ exprs[visiting].kind = kind

\* Mutant: a bitmap made before is used again.
NewValue_Reuse(rows) ==
  IF m_result = 0
  THEN values' = Append(values, rows) /\ m_result' = Len(values')
  ELSE values' = [values EXCEPT ![m_result] = rows] /\ m_result' = m_result

NewValue(rows) ==
  /\ values' = Append(values, rows)
  /\ m_result' = Len(values')

\* expr.lhs->visit(*this)
EnterPredicate ==
  /\ Visit("predicate")
  /\ stack' = Append(stack, [expr |-> visiting, at |-> "lhs", lhs_result |-> 0])
  /\ visiting' = exprs[visiting].lhs
  /\ UNCHANGED <<visitor, exprs, denotes, root, values, m_result, pc>>

\* A column that is not there is a null pointer; a type LLVM has no match for
\* is an exception out of the kernel's compile, and so is a literal of a kind
\* const_from_variant's std::get does not ask for.
ExecuteCompare ==
  /\ visitor = "executor"
  /\ Visit("compare")
  /\ LET cmp == exprs[visiting].cmp
     IN  IF cmp \in Missing \cup Unsupported \cup Mismatched
         THEN /\ pc' = IF cmp \in Missing THEN "crash"
                       ELSE IF cmp \in Unsupported THEN "not_implemented" ELSE "bad_variant_access"
              /\ UNCHANGED <<values, m_result>>
         ELSE NewValue(Satisfying[cmp]) /\ pc' = "return"
  /\ UNCHANGED <<visitor, exprs, denotes, root, stack, visiting>>

\* assert(false) on a column that is not the emitter's; a build without
\* assertions goes on, without a result.
EmitCompare ==
  /\ visitor = "emitter"
  /\ Visit("compare")
  /\ IF Silent(exprs[visiting])
     THEN pc' \in {"crash", "return"} /\ UNCHANGED <<values, m_result>>
     ELSE IF exprs[visiting].cmp \in Mismatched
     THEN pc' = "bad_variant_access" /\ UNCHANGED <<values, m_result>>
     ELSE NewValue(Satisfying[exprs[visiting].cmp]) /\ pc' = "return"
  /\ UNCHANGED <<visitor, exprs, denotes, root, stack, visiting>>

\* Mutant: the constant is written over the result of the operand before it.
VisitConst_InPlace ==
  /\ Visit("const")
  /\ values' = IF m_result = 0 THEN values
               ELSE [values EXCEPT ![m_result] = IF exprs[visiting].value THEN Rows ELSE {}]
  /\ pc' = "return"
  /\ UNCHANGED <<visitor, exprs, denotes, root, stack, visiting, m_result>>

\* ExprVisitor::visit(const BooleanConst &) has an empty body.
VisitConst ==
  /\ Visit("const")
  /\ pc' = "return"
  /\ UNCHANGED <<visitor, exprs, denotes, root, frames>>

-----------------------------------------------------------------------------
Top == stack[Len(stack)]
Pop == SubSeq(stack, 1, Len(stack) - 1)
Returning(at) == pc = "return" /\ stack # <<>> /\ Top.at = at

\* Mutant: the result of the left operand is not kept in a local of the call.
ReturnLhs_NotKept ==
  /\ Returning("lhs")
  /\ stack' = Append(Pop, [Top EXCEPT !.at = "rhs"])
  /\ visiting' = exprs[Top.expr].rhs
  /\ pc' = "visit"
  /\ UNCHANGED <<visitor, exprs, denotes, root, values, m_result>>

\* auto lhs_buf = m_buffer; expr.rhs->visit(*this)
ReturnLhs ==
  /\ Returning("lhs")
  /\ stack' = Append(Pop, [Top EXCEPT !.at = "rhs", !.lhs_result = m_result])
  /\ visiting' = exprs[Top.expr].rhs
  /\ pc' = "visit"
  /\ UNCHANGED <<visitor, exprs, denotes, root, values, m_result>>

\* The executor overwrites the bitmap of the left operand, the emitter makes a
\* new value of the two.
CombineRhs(lhs, op, rows) ==
  IF visitor = "executor"
  THEN values' = [values EXCEPT ![lhs] = rows] /\ m_result' = lhs
  ELSE NewValue(rows)

\* Mutant: the loop is the one for AND, whatever the operation.
ReturnRhs_AlwaysAnd ==
  /\ Returning("rhs")
  /\ LET e == exprs[Top.expr]
         lhs == Top.lhs_result
     IN  IF lhs = 0
         THEN pc' = "crash" /\ UNCHANGED <<stack, visiting, values, m_result>>
         ELSE /\ CombineRhs(lhs, e.op, values[lhs] \cap values[m_result])
              /\ visiting' = Top.expr /\ stack' = Pop /\ pc' = "return"
  /\ UNCHANGED <<visitor, exprs, denotes, root>>

\* Without a result of the left operand there is a null pointer to follow; with
\* one there is a result of the right one, if only the same.
ReturnRhs ==
  /\ Returning("rhs")
  /\ LET e == exprs[Top.expr]
         lhs == Top.lhs_result
     IN  IF lhs = 0
         THEN pc' = "crash" /\ UNCHANGED <<stack, visiting, values, m_result>>
         ELSE /\ CombineRhs(lhs, e.op, Combine(e.op, values[lhs], values[m_result]))
              /\ visiting' = Top.expr /\ stack' = Pop /\ pc' = "return"
  /\ UNCHANGED <<visitor, exprs, denotes, root>>

\* The result is handed over, null or not.  A function that returns a null
\* value does not pass LLVM's verifier.
Finish ==
  /\ pc = "return"
  /\ stack = <<>>
  /\ pc' = IF visitor = "emitter" /\ m_result = 0 THEN "crash" ELSE "done"
  /\ UNCHANGED <<visitor, exprs, denotes, root, frames>>

\* The result has been used, or an exception thrown; the visitor goes, and what
\* it made with it.
Leave ==
  /\ pc \in {"done"} \cup Exceptions
  /\ root' = 0 /\ stack' = <<>> /\ visiting' = 0 /\ values' = <<>> /\ m_result' = 0
  /\ pc' = "idle"
  /\ UNCHANGED <<visitor, exprs, denotes>>

Step == EnterPredicate \/ ExecuteCompare \/ EmitCompare \/ VisitConst
        \/ ReturnLhs \/ ReturnRhs \/ Finish \/ Leave
Next == BuildCompare \/ BuildConst \/ BuildPredicate \/ Start \/ Step

Spec == Init /\ [][Next]_vars

-----------------------------------------------------------------------------
Held == {k \in DOMAIN stack : stack[k].at = "rhs"}
Active == pc \in {"visit", "return"}
Proper == root # 0 /\ denotes[root].proper

Exprs ==
  [kind : {"compare"}, cmp : Comparisons]
    \cup [kind : {"const"}, value : Consts]
    \cup [kind : {"predicate"}, lhs : Nat \ {0}, rhs : Nat \ {0}, op : {"AND", "OR"}]
Meanings == [truth : SUBSET Rows, skipped : SUBSET Rows, proper : BOOLEAN, heard : BOOLEAN]
Frames == [expr : Nat, at : {"lhs", "rhs"}, lhs_result : Nat]

TypeOK ==
  /\ visitor \in {"executor", "emitter"}
  /\ exprs \in Seq(Exprs)
  /\ \A i \in DOMAIN exprs :
       exprs[i].kind = "predicate" => exprs[i].lhs < i /\ exprs[i].rhs < i
  /\ denotes \in Seq(Meanings)
  /\ Len(denotes) = Len(exprs)
  /\ root \in 0 .. Len(exprs)
  /\ stack \in Seq(Frames)
  /\ \A k \in DOMAIN stack :
       stack[k].expr \in 1 .. Len(exprs) /\ stack[k].lhs_result <= Len(values)
  /\ visiting \in 0 .. Len(exprs)
  /\ values \in Seq(SUBSET Rows)
  /\ m_result \in 0 .. Len(values)
  /\ pc \in {"idle", "visit", "return", "done", "crash"} \cup Exceptions

(***************************************************************************)
(* An expression of comparisons, AND and OR evaluates to the rows it is    *)
(* true of, although results pass through one field, are overwritten in    *)
(* place, and operands may be shared or the same.                          *)
(***************************************************************************)
ResultCorrect ==
  pc = "done" /\ denotes[root].heard
    => m_result # 0 /\ values[m_result] = denotes[root].truth

(***************************************************************************)
(* What a constant does: as a right operand it is left out, whatever its   *)
(* value and whatever the operation, as the stale field makes the left     *)
(* operand meet itself.                                                    *)
(***************************************************************************)
ConstantsSkipped ==
  pc = "done" /\ denotes[root].proper
    => m_result # 0 /\ values[m_result] = denotes[root].skipped

(***************************************************************************)
(* A left operand that waits for its right one is not written to, by the   *)
(* in-place operations inside the right one, unless a constant without a   *)
(* result of its own is a left operand there.                              *)
(***************************************************************************)
HeldResultsKept ==
  [][\A k \in Held :
       Proper /\ k \in DOMAIN stack' /\ stack'[k] = stack[k]
         => values'[stack[k].lhs_result] = values[stack[k].lhs_result]]_vars

(***************************************************************************)
(* No null pointer is followed because of how AND and OR are nested: only  *)
(* a missing column, a comparison that is not the emitter's, or a constant *)
(* in the place of a left operand or of the whole expression can be the    *)
(* reason.                                                                 *)
(***************************************************************************)
NullOnlyFromLeaves ==
  pc = "crash" /\ Proper
    => /\ exprs[visiting].kind = "compare"
       /\ IF visitor = "executor" THEN exprs[visiting].cmp \in Missing
          ELSE exprs[visiting].cmp \in Foreign

-----------------------------------------------------------------------------
(***************************************************************************)
(* The inductive invariant.  The frames are a path from the root to the    *)
(* expression visited.  If the root is proper, each held result is the     *)
(* meaning of its operand, and older than the ones held further in and     *)
(* than the result returned: no two are the same.                          *)
(***************************************************************************)
DenotationsAgree ==
  \A i \in DOMAIN exprs :
    /\ denotes[i] = Denotation(exprs[i])
    /\ denotes[i].heard => denotes[i].proper /\ denotes[i].skipped = denotes[i].truth

Operand(frame) == IF frame.at = "lhs" THEN exprs[frame.expr].lhs ELSE exprs[frame.expr].rhs

FramesArePath ==
  /\ root # 0
  /\ \A k \in DOMAIN stack :
       /\ exprs[stack[k].expr].kind = "predicate"
       /\ stack[k].expr = IF k = 1 THEN root ELSE Operand(stack[k - 1])
  /\ visiting = IF stack = <<>> THEN root ELSE Operand(Top)

HeldInOrder ==
  \A k \in Held :
    /\ stack[k].lhs_result \in 1 .. Len(values)
    /\ values[stack[k].lhs_result] = denotes[exprs[stack[k].expr].lhs].skipped
    /\ \A j \in Held : j < k => stack[j].lhs_result < stack[k].lhs_result

ResultReturned ==
  IF denotes[visiting].proper
  THEN /\ m_result \in 1 .. Len(values)
       /\ values[m_result] = denotes[visiting].skipped
       /\ \A k \in Held : stack[k].lhs_result < m_result
  ELSE stack # <<>> /\ Top.at = "rhs" /\ m_result = Top.lhs_result

ProperEvaluation ==
  /\ \A k \in DOMAIN stack : denotes[stack[k].expr].proper
  /\ HeldInOrder
  /\ pc = "return" => ResultReturned
  /\ pc = "visit" /\ stack # <<>> /\ Top.at = "rhs" => m_result = Top.lhs_result

IInv ==
  /\ TypeOK
  /\ DenotationsAgree
  /\ values # <<>> => m_result # 0
  /\ pc = "idle" => stack = <<>>
  /\ pc = "done" => root # 0
  /\ Active => FramesArePath
  /\ Active /\ Proper => ProperEvaluation
  /\ ConstantsSkipped
  /\ NullOnlyFromLeaves
=============================================================================
