--------------------------- MODULE LiteralCompare ---------------------------
(***************************************************************************)
(* A literal compared with the values of a column.  compile picks the LLVM *)
(* type of the column, makes the literal a constant of that type and emits *)
(* the comparison, signed, unsigned or floating by the type; the kernel    *)
(* then compares row after row.                                            *)
(*                                                                         *)
(* An integer of a column is its bits, a number below the modulus of its   *)
(* type.  A floating number is a count of units, the steps of double: the  *)
(* numbers of a type are the multiples of its grid up to its limit, and    *)
(* the infinities are the two multiples after them.  (The steps of a real   *)
(* type grow with the exponent; here they are one.)                        *)
(***************************************************************************)
EXTENDS Integers

CONSTANTS
  Signed, Unsigned,   \* integral types
  Floating,           \* HALF_FLOAT, FLOAT and DOUBLE
  Others,             \* all other types of a column
  Modulus,            \* of each integral type: 2^8 to 2^64 in the code
  Grid, Limit,        \* of each floating type
  Unit,               \* units in 1
  Ints, Doubles,      \* numbers the literals considered hold
  Numbers             \* for each floating type, the numbers of columns

Integral == Signed \cup Unsigned
Ops == {"GT", "LT", "GE", "LE", "EQ", "NEQ"}

ASSUME TypesAssumption ==
  /\ Signed \cap Unsigned = {} /\ Integral \cap Floating = {}
  /\ Others \cap (Integral \cup Floating) = {}
ASSUME IntegralAssumption ==
  \A t \in Integral : Modulus[t] \in Nat \ {0} /\ Modulus[t] % 2 = 0
ASSUME FloatingAssumption ==
  \A t \in Floating :
    /\ Grid[t] \in Nat \ {0} /\ Limit[t] \in Nat /\ Limit[t] % Grid[t] = 0
    /\ Numbers[t] \subseteq {n \in -(Limit[t] + Grid[t]) .. Limit[t] + Grid[t] : n % Grid[t] = 0}
ASSUME LiteralAssumption == Ints \subseteq Int /\ Doubles \subseteq Int /\ Unit \in Nat

VARIABLES
  type,       \* the type of the column
  literal,    \* LiteralExpr::value
  constant,   \* the constant compared with
  value,      \* the value of the row compared last
  results,    \* what each comparison gives for it
  pc          \* "from_arrow", "const_from_variant", "compare", "compared",
              \* "not_implemented" or "bad_variant_access"

vars == <<type, literal, constant, value, results, pc>>

Number(n) == [nan |-> FALSE, num |-> n]
NaN == [nan |-> TRUE, num |-> 0]

\* std::variant<int, double, std::string, bool>
Literals ==
  [kind : {"int"}, val : {Number(n) : n \in Ints}]
    \cup [kind : {"double"}, val : {Number(n) : n \in Doubles} \cup {NaN}]
    \cup [kind : {"string", "bool"}, val : {Number(0)}]

Values(t) ==
  IF t \in Integral THEN {Number(n) : n \in 0 .. Modulus[t] - 1}
  ELSE {Number(n) : n \in Numbers[t]} \cup {NaN}

None == [op \in Ops |-> FALSE]

Init ==
  /\ type \in Integral \cup Floating \cup Others
  /\ literal \in Literals
  /\ constant = NaN /\ value = NaN /\ results = None
  /\ pc = "from_arrow"

\* The type of the parameter of the predicate function.
FromArrow ==
  /\ pc = "from_arrow"
  /\ pc' = IF type \in Others THEN "not_implemented" ELSE "const_from_variant"
  /\ UNCHANGED <<type, literal, constant, value, results>>

\* i8val, ..., u64val: the low bits, which an int8_t parameter or ConstantInt takes.
IntConst(n) == Number(n % Modulus[type])

\* Mutant: a number past the limit comes back at the other end.
FloatConst_Wraps(x) ==
  IF x.nan THEN x ELSE Number(((x.num + Limit[type]) % (2 * Limit[type] + 1)) - Limit[type])

\* f16val, f32val, f64val: ConstantFP rounds to the nearest, of two to the even
\* one, and to infinity past the limit.
FloatConst(x) ==
  LET g == Grid[type]
      down == g * (x.num \div g)
      rest == x.num - down
      nearest == IF 2 * rest < g \/ (2 * rest = g /\ (x.num \div g) % 2 = 0)
                 THEN down ELSE down + g
      inf == Limit[type] + g
  IN  IF x.nan THEN x
      ELSE Number(IF nearest > inf THEN inf ELSE IF nearest < -inf THEN -inf ELSE nearest)

\* std::get<int> throws for a literal that is none; std::get<double> is asked
\* of doubles only.
Accepted == literal.kind = "int" \/ (literal.kind = "double" /\ type \in Floating)

Const ==
  IF type \in Integral THEN IntConst(literal.val.num)
  ELSE FloatConst(IF literal.kind = "int" THEN Number(literal.val.num * Unit) ELSE literal.val)

ConstFromVariant ==
  /\ pc = "const_from_variant"
  /\ IF Accepted THEN constant' = Const /\ pc' = "compare"
     ELSE pc' = "bad_variant_access" /\ UNCHANGED constant
  /\ UNCHANGED <<type, literal, value, results>>

-----------------------------------------------------------------------------
Relation(op, a, b) ==
  \/ op = "GT" /\ a > b
  \/ op = "LT" /\ a < b
  \/ op = "GE" /\ a >= b
  \/ op = "LE" /\ a <= b
  \/ op = "EQ" /\ a = b
  \/ op = "NEQ" /\ a # b

\* Mutant: the signed comparison for every integral type.
Operand_AllSigned(x) ==
  IF type \in Integral /\ 2 * x.num >= Modulus[type] THEN x.num - Modulus[type] ELSE x.num

\* ICmpS* take the bits as two's complement, ICmpU* as they are.
Operand(x) ==
  IF type \in Signed /\ 2 * x.num >= Modulus[type] THEN x.num - Modulus[type] ELSE x.num

\* Mutant: FCmpUNE, which is true of NaN.
CreateCmp_Unordered(op, lhs, rhs) ==
  IF lhs.nan \/ rhs.nan THEN op = "NEQ" ELSE Relation(op, Operand(lhs), Operand(rhs))

\* FCmpO* is false of NaN, also FCmpONE; integers are none.
CreateCmp(op, lhs, rhs) ==
  ~lhs.nan /\ ~rhs.nan /\ Relation(op, Operand(lhs), Operand(rhs))

\* The kernel on one row, and on the next.
Compare ==
  /\ pc \in {"compare", "compared"}
  /\ value' \in Values(type)
  /\ results' = [op \in Ops |-> CreateCmp(op, value', constant)]
  /\ pc' = "compared"
  /\ UNCHANGED <<type, literal, constant>>

Next == FromArrow \/ ConstFromVariant \/ Compare

Spec == Init /\ [][Next]_vars

-----------------------------------------------------------------------------
TypeOK ==
  /\ type \in Integral \cup Floating \cup Others
  /\ literal \in Literals
  /\ constant.nan \in BOOLEAN
  /\ type \in Integral => constant.num \in 0 .. Modulus[type] - 1
  /\ type \in Floating => /\ constant.num % Grid[type] = 0
                          /\ constant.num <= Limit[type] + Grid[type]
                          /\ -constant.num <= Limit[type] + Grid[type]
  /\ value = NaN \/ (type \notin Others /\ value \in Values(type))
  /\ results \in [Ops -> BOOLEAN]
  /\ pc \in {"from_arrow", "const_from_variant", "compare", "compared",
             "not_implemented", "bad_variant_access"}

Compared == pc = "compared"

\* The number of the literal, in units for a floating column.
Exact == IF literal.kind = "int" /\ type \in Floating THEN literal.val.num * Unit
         ELSE literal.val.num

\* The column's type has the literal among its numbers.
Representable ==
  IF type \in Integral
  THEN LET M == Modulus[type]
       IN  IF type \in Signed THEN -M <= 2 * Exact /\ 2 * Exact < M ELSE 0 <= Exact /\ Exact < M
  ELSE ~literal.val.nan /\ Exact % Grid[type] = 0 /\ Exact <= Limit[type] /\ -Exact <= Limit[type]

\* expr is true of the row.
Truth(op) == ~value.nan /\ ~literal.val.nan /\ Relation(op, Operand(value), Exact)

(***************************************************************************)
(* A literal the type of the column can hold is compared as the number it  *)
(* is, signed and unsigned, integral and floating.                         *)
(***************************************************************************)
RepresentableCompared ==
  Compared /\ Representable => \A op \in Ops : results[op] = Truth(op)

(***************************************************************************)
(* Whatever has become of the literal, the six comparisons agree: one of   *)
(* LT, EQ and GT, the others made of them.  Of NaN none is true, and       *)
(* CreateFCmpONE makes NEQ no exception.                                   *)
(***************************************************************************)
OperatorsAgree ==
  Compared =>
    IF value.nan \/ constant.nan THEN results = None
    ELSE /\ \E op \in {"LT", "EQ", "GT"} :
              \A other \in {"LT", "EQ", "GT"} : results[other] = (other = op)
         /\ results["LE"] = (results["LT"] \/ results["EQ"])
         /\ results["GE"] = (results["GT"] \/ results["EQ"])
         /\ results["NEQ"] = ~results["EQ"]

(***************************************************************************)
(* Rounding the literal for a floating column never turns a comparison     *)
(* with a finite value around: a value found less or greater than the      *)
(* constant is so of the literal, also of one beyond the limit of the type.*)
(* An infinite value may equal the constant such a literal is rounded to.  *)
(***************************************************************************)
RoundingKeepsOrder ==
  Compared /\ type \in Floating /\ -(Limit[type] + Grid[type]) < value.num
    /\ value.num < Limit[type] + Grid[type]
    => \A op \in {"LT", "GT"} : results[op] => Truth(op)

\* The inductive invariant: the constant is the literal's, the results are the row's.
IInv ==
  /\ TypeOK
  /\ pc \in {"const_from_variant", "compare", "compared"} => type \notin Others
  /\ pc \in {"compare", "compared"} => Accepted /\ constant = Const
  /\ pc = "compared" =>
       /\ value \in Values(type)
       /\ results = [op \in Ops |-> CreateCmp(op, value, constant)]
=============================================================================
