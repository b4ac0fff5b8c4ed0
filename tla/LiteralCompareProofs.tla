------------------------ MODULE LiteralCompareProofs ------------------------
(***************************************************************************)
(* Proofs about LiteralCompare, for every width of the integral types,     *)
(* every grid and limit of the floating ones, and every literal.           *)
(***************************************************************************)
EXTENDS LiteralCompare, TLAPS

-----------------------------------------------------------------------------
\* Division of an integer, negative ones included, rounds down.
LEMMA DivMod ==
  ASSUME NEW g \in Nat \ {0}, NEW x \in Int
  PROVE  /\ x \div g \in Int /\ x % g \in 0 .. g - 1
         /\ g * (x \div g) \in Int /\ x = g * (x \div g) + (x % g)
  BY Z3

\* A multiple leaves nothing.
LEMMA Multiple ==
  ASSUME NEW g \in Nat \ {0}, NEW q \in Int
  PROVE  (g * q) % g = 0
  BY Z3

\* Different multiples are a grid apart.
LEMMA Apart ==
  ASSUME NEW g \in Nat \ {0}, NEW a \in Int, NEW b \in Int, g * a < g * b
  PROVE  g * a + g <= g * b
<1>1. a < b
  <2> SUFFICES ASSUME b <= a PROVE FALSE
    OBVIOUS
  <2>1. PICK d \in Nat : a = b + d
    <3>1. a - b \in Nat /\ a = b + (a - b)
      OBVIOUS
    <3>. QED  BY <3>1
  <2>2. g * a = g * b + g * d /\ g * d \in Nat /\ g * b \in Int
    BY <2>1, Z3
  <2>. QED  BY <2>2
<1>2. PICK d \in Nat : b = a + 1 + d
  <2>1. b - a - 1 \in Nat /\ b = a + 1 + (b - a - 1)
    BY <1>1
  <2>. QED  BY <2>1
<1>3. g * b = g * a + g + g * d /\ g * d \in Nat /\ g * a \in Int
  BY <1>2, Z3
<1>. QED  BY <1>3

\* So are numbers of the grid.
LEMMA GridApart ==
  ASSUME NEW g \in Nat \ {0}, NEW x \in Int, NEW y \in Int, x % g = 0, y % g = 0, x < y
  PROVE  x + g <= y
<1>1. x = g * (x \div g) /\ y = g * (y \div g) /\ x \div g \in Int /\ y \div g \in Int
  BY DivMod
<1>. QED  BY <1>1, Apart

\* And the next multiples of one are on the grid.
LEMMA GridNext ==
  ASSUME NEW g \in Nat \ {0}, NEW q \in Int
  PROVE  (g * q + g) % g = 0
<1>1. g * q + g = g * (q + 1) /\ q + 1 \in Int
  BY Z3
<1>. QED  BY <1>1, Multiple

-----------------------------------------------------------------------------
(***************************************************************************)
(* The constant of a floating type: on the grid, within the infinities,    *)
(* the number itself if the type has it, and at most half a step away if   *)
(* it is finite.                                                           *)
(***************************************************************************)
LEMMA FloatConstNumber ==
  ASSUME type \in Floating, NEW n \in Int
  PROVE  LET g == Grid[type]
             c == FloatConst(Number(n))
             inf == Limit[type] + g
         IN  /\ c.nan = FALSE /\ c.num \in Int /\ c.num % g = 0
             /\ c.num <= inf /\ -c.num <= inf
             /\ n % g = 0 /\ n <= Limit[type] /\ -n <= Limit[type] => c.num = n
             /\ c.num < inf => 2 * n <= 2 * c.num + g
             /\ -c.num < inf => 2 * c.num <= 2 * n + g
<1> DEFINE g == Grid[type]
           c == FloatConst(Number(n))
           limit == Limit[type]
           down == g * (n \div g)
           even == (n \div g) % 2 = 0
           rest == n - down
           nearest == IF 2 * rest < g \/ (2 * rest = g /\ even) THEN down ELSE down + g
           inf == limit + g
           num == IF nearest > inf THEN inf ELSE IF nearest < -inf THEN -inf ELSE nearest
<1>1. g \in Nat \ {0} /\ limit \in Nat /\ limit % g = 0
  BY FloatingAssumption
<1>2. c = Number(num)
  BY DEF FloatConst, Number
<1>3. c.nan = FALSE /\ c.num = num
  BY <1>2 DEF Number
<1>4. /\ down \in Int /\ rest \in 0 .. g - 1 /\ rest = n % g /\ n = down + rest
      /\ down % g = 0 /\ (down + g) % g = 0
  <2>1. n \div g \in Int /\ n % g \in 0 .. g - 1 /\ down \in Int /\ n = down + (n % g)
    BY <1>1, DivMod
  <2>2. down % g = 0
    BY <1>1, <2>1, Multiple
  <2>3. (down + g) % g = 0
    BY <1>1, <2>1, GridNext
  <2> HIDE DEF g, down
  <2>4. n - down = n % g
    BY <2>1, <1>1
  <2>. QED  BY <2>1, <2>2, <2>3, <2>4
<1>5. inf % g = 0 /\ (-inf) % g = 0
  <2> HIDE DEF g, limit
  <2>1. limit \in Int
    BY <1>1
  <2>2. limit = g * (limit \div g) + (limit % g) /\ limit \div g \in Int
        /\ g * (limit \div g) \in Int
    BY <1>1, <2>1, DivMod
  <2>a. limit = g * (limit \div g)
    BY <2>2, <2>1, <1>1
  <2>3. PICK q \in Int : limit = g * q
    BY <2>a, <2>2
  <2>4. inf = g * (q + 1) /\ -inf = g * (-(q + 1))
    BY <2>3, <1>1, Z3
  <2>5. (g * (q + 1)) % g = 0 /\ (g * (-(q + 1))) % g = 0
    <3>1. q + 1 \in Int /\ -(q + 1) \in Int
      OBVIOUS
    <3>. QED  BY <3>1, <1>1, Multiple
  <2>. QED  BY <2>4, <2>5
<1> HIDE DEF g, limit, down, even, c
<1>6. inf \in Nat /\ inf = limit + g
  BY <1>1
<1>7. rest \in Nat /\ rest < g
  BY <1>1, <1>4
<1>8. nearest \in {down, down + g} /\ nearest \in Int /\ nearest % g = 0
  BY <1>1, <1>4
<1>9. 2 * n <= 2 * nearest + g /\ 2 * nearest <= 2 * n + g
  BY <1>1, <1>4, <1>7
<1>10. rest = 0 => nearest = n
  BY <1>1, <1>4
<1> HIDE DEF inf, rest, nearest
<1>11. num \in Int /\ num % g = 0 /\ num <= inf /\ -num <= inf
  BY <1>5, <1>6, <1>8
<1>12. n % g = 0 /\ n <= limit /\ -n <= limit => num = n
  BY <1>1, <1>4, <1>6, <1>10
<1>13. num < inf => 2 * n <= 2 * num + g
  BY <1>1, <1>6, <1>8, <1>9
<1>14. -num < inf => 2 * num <= 2 * n + g
  BY <1>1, <1>6, <1>8, <1>9
<1>. QED  BY <1>3, <1>11, <1>12, <1>13, <1>14 DEF g, c, limit, inf

\* The constant of an integral type: the bits of the literal that fit it, of
\* which a literal that fits loses none.
LEMMA IntConstNumber ==
  ASSUME type \in Integral, NEW n \in Int
  PROVE  LET M == Modulus[type]
             c == IntConst(n)
         IN  /\ c.nan = FALSE /\ c.num \in 0 .. M - 1 /\ c.num \in Int
             /\ type \notin Signed /\ 0 <= n /\ n < M => Operand(c) = n
             /\ type \in Signed /\ -M <= 2 * n /\ 2 * n < M => Operand(c) = n
<1> DEFINE M == Modulus[type]
           c == IntConst(n)
<1>1. M \in Nat \ {0}
  BY IntegralAssumption
<1>2. c.nan = FALSE /\ c.num = n % M
  BY DEF IntConst, Number
<1> DEFINE x == c.num
<1>a. x = n % M
  BY <1>2
<1>b. Operand(c) = IF type \in Signed /\ 2 * x >= M THEN x - M ELSE x
  BY DEF Operand
<1> HIDE DEF M, c, x
<1>3. x \in 0 .. M - 1 /\ x \in Int
  BY <1>1, <1>a, DivMod
<1>4. 0 <= n /\ n < M => n % M = n
  BY <1>1, Z3
<1>5. -M <= n /\ n < 0 => n % M = n + M
  BY <1>1, Z3
<1>6. type \notin Signed /\ 0 <= n /\ n < M => Operand(c) = n
  BY <1>1, <1>3, <1>4, <1>a, <1>b
<1>7. type \in Signed /\ -M <= 2 * n /\ 2 * n < M => Operand(c) = n
  <2> SUFFICES ASSUME type \in Signed, -M <= 2 * n, 2 * n < M PROVE Operand(c) = n
    OBVIOUS
  <2>1. CASE 0 <= n
    BY <2>1, <1>1, <1>3, <1>4, <1>a, <1>b
  <2>2. CASE n < 0
    <3>1. x = n + M
      BY <2>2, <1>1, <1>5, <1>a
    <3>. QED  BY <3>1, <2>2, <1>1, <1>b
  <2>. QED  BY <2>1, <2>2
<1>. QED  BY <1>2, <1>3, <1>6, <1>7 DEF M, c, x
-----------------------------------------------------------------------------
\* Nothing is in two classes of types.
LEMMA Classes ==
  /\ type \in Floating => type \notin Integral
  /\ type \in Others => type \notin Integral /\ type \notin Floating
  BY TypesAssumption, Zenon

\* The literal's number is one, unless it is not a number.
LEMMA LiteralNumber ==
  ASSUME literal \in Literals
  PROVE  /\ literal.val \in [nan : BOOLEAN, num : Int]
         /\ literal.val = IF literal.val.nan THEN NaN ELSE Number(literal.val.num)
         /\ literal.kind = "int" => ~literal.val.nan
<1>1. CASE literal \in [kind : {"int"}, val : {Number(n) : n \in Ints}]
  <2>1. literal.kind = "int"
    BY <1>1
  <2>2. PICK n \in Ints : literal.val = Number(n)
    BY <1>1
  <2>3. n \in Int
    BY LiteralAssumption
  <2>. QED  BY <2>1, <2>2, <2>3 DEF Number
<1>2. CASE literal \in [kind : {"double"}, val : {Number(n) : n \in Doubles} \cup {NaN}]
  <2>1. literal.kind # "int"
    BY <1>2
  <2>2. literal.val \in {Number(n) : n \in Doubles} \cup {NaN}
    BY <1>2
  <2>3. CASE literal.val = NaN
    BY <2>1, <2>3 DEF NaN
  <2>4. CASE literal.val \in {Number(n) : n \in Doubles}
    <3>1. PICK n \in Doubles : literal.val = Number(n)
      BY <2>4
    <3>2. n \in Int
      BY LiteralAssumption
    <3>. QED  BY <2>1, <3>1, <3>2 DEF Number
  <2>. QED  BY <2>2, <2>3, <2>4
<1>3. CASE literal \in [kind : {"string", "bool"}, val : {Number(0)}]
  <2>1. literal.kind # "int" /\ literal.val = Number(0)
    BY <1>3
  <2>. QED  BY <2>1 DEF Number
<1>. QED  BY <1>1, <1>2, <1>3 DEF Literals

\* A constant is a number of its type.
LEMMA ConstInType ==
  ASSUME literal \in Literals, type \in Integral \cup Floating
  PROVE  /\ Const.nan \in BOOLEAN
         /\ type \in Integral => ~Const.nan /\ Const.num \in 0 .. Modulus[type] - 1
         /\ type \in Floating => /\ Const.num \in Int /\ Const.num % Grid[type] = 0
                                 /\ Const.num <= Limit[type] + Grid[type]
                                 /\ -Const.num <= Limit[type] + Grid[type]
<1>1. CASE type \in Integral
  <2>1. literal.val.num \in Int /\ type \notin Floating
    BY <1>1, LiteralNumber, Classes
  <2>2. Const = IntConst(literal.val.num)
    BY <1>1 DEF Const
  <2>3. IntConst(literal.val.num).nan = FALSE
        /\ IntConst(literal.val.num).num \in 0 .. Modulus[type] - 1
    BY <1>1, <2>1, IntConstNumber
  <2>. QED  BY <1>1, <2>1, <2>2, <2>3
<1>2. CASE type \in Floating
  <2>1. type \notin Integral
    BY <1>2, Classes
  <2>2. ASSUME NEW n \in Int, Const = FloatConst(Number(n))
        PROVE  /\ Const.nan = FALSE /\ Const.num \in Int /\ Const.num % Grid[type] = 0
               /\ Const.num <= Limit[type] + Grid[type]
               /\ -Const.num <= Limit[type] + Grid[type]
    <3>1. LET c == FloatConst(Number(n))
          IN  /\ c.nan = FALSE /\ c.num \in Int /\ c.num % Grid[type] = 0
              /\ c.num <= Limit[type] + Grid[type] /\ -c.num <= Limit[type] + Grid[type]
      BY <1>2, FloatConstNumber
    <3>. QED  BY <2>2, <3>1
  <2>3. CASE literal.kind = "int"
    <3>1. literal.val.num * Unit \in Int
      BY LiteralNumber, LiteralAssumption
    <3>2. Const = FloatConst(Number(literal.val.num * Unit))
      BY <2>1, <2>3 DEF Const
    <3>. QED  BY <2>1, <2>2, <3>1, <3>2
  <2>4. CASE literal.kind # "int" /\ ~literal.val.nan
    <3>1. Const = FloatConst(Number(literal.val.num)) /\ literal.val.num \in Int
      BY <2>1, <2>4, LiteralNumber DEF Const
    <3>. QED  BY <2>1, <2>2, <3>1
  <2>5. CASE literal.kind # "int" /\ literal.val.nan
    <3>1. Const = NaN
      BY <2>1, <2>5, LiteralNumber DEF Const, FloatConst
    <3>2. 0 % Grid[type] = 0 /\ 0 <= Limit[type] + Grid[type]
      BY <1>2, FloatingAssumption
    <3>3. Const.nan = TRUE /\ Const.num = 0
      BY <3>1 DEF NaN
    <3>4. -Const.num <= Limit[type] + Grid[type]
      <4>1. \A k, m \in Int : k = 0 /\ 0 <= m => -k <= m
        OBVIOUS
      <4>2. 0 \in Int /\ Limit[type] + Grid[type] \in Int
        BY <1>2, FloatingAssumption
      <4>. QED  BY <3>2, <3>3, <4>1, <4>2, Zenon
    <3>5. 0 \in Int /\ TRUE \in BOOLEAN
      OBVIOUS
    <3>. QED  BY <2>1, <3>2, <3>3, <3>4, <3>5, Zenon
  <2>. QED  BY <2>3, <2>4, <2>5
<1>. QED  BY <1>1, <1>2

\* Before the first step.
LEMMA InitInvariant == Init => IInv
<1> SUFFICES ASSUME Init PROVE IInv
  OBVIOUS
<1>1. type \in Integral => 0 \in 0 .. Modulus[type] - 1
  BY IntegralAssumption
<1>2. type \in Floating => 0 % Grid[type] = 0 /\ 0 <= Limit[type] + Grid[type]
  BY FloatingAssumption
<1>3. TypeOK
  BY <1>1, <1>2 DEF Init, TypeOK, NaN, None
<1>. QED  BY <1>3 DEF Init, IInv

\* Every step keeps the invariant.
LEMMA StepInvariant == IInv /\ [Next]_vars => IInv'
<1> SUFFICES ASSUME IInv, [Next]_vars PROVE IInv'
  OBVIOUS
<1>1. CASE FromArrow
  BY <1>1 DEF IInv, TypeOK, FromArrow
<1>2. CASE ConstFromVariant
  <2>1. CASE Accepted
    <3>1. constant' = Const /\ Const' = Const /\ Accepted' /\ type' = type /\ literal' = literal
          /\ value' = value /\ results' = results /\ pc' = "compare"
      BY <1>2, <2>1 DEF ConstFromVariant, Const, Accepted, FloatConst, IntConst
    <3>2. type \notin Others /\ type \in Integral \cup Floating /\ literal \in Literals
      BY <1>2 DEF ConstFromVariant, IInv, TypeOK
    <3>3. TypeOK'
      BY <3>1, <3>2, ConstInType DEF IInv, TypeOK
    <3>. QED  BY <3>1, <3>2, <3>3 DEF IInv
  <2>2. CASE ~Accepted
    BY <1>2, <2>2 DEF ConstFromVariant, IInv, TypeOK
  <2>. QED  BY <2>1, <2>2
<1>3. CASE Compare
  <2>1. type \notin Others /\ Accepted /\ constant = Const
    BY <1>3 DEF Compare, IInv
  <2>2. constant' = constant /\ type' = type /\ literal' = literal /\ pc' = "compared"
    BY <1>3 DEF Compare
  <2>3. Const' = Const /\ (Accepted' <=> Accepted)
    BY <2>2 DEF Const, Accepted, FloatConst, IntConst
  <2>4. value' \in Values(type)
        /\ results' = [op \in Ops |-> CreateCmp(op, value', constant)]
    BY <1>3 DEF Compare
  <2>5. results' \in [Ops -> BOOLEAN]
    <3>1. \A op \in Ops : CreateCmp(op, value', constant) \in BOOLEAN
      BY DEF CreateCmp
    <3>. QED  BY <2>4, <3>1
  <2>6. Values(type)' = Values(type) /\ \A op : CreateCmp(op, value, constant)' = CreateCmp(op, value', constant)
    BY <2>2 DEF Values, CreateCmp, Operand
  <2>7. TypeOK'
    BY <2>1, <2>2, <2>4, <2>5, <2>6 DEF IInv, TypeOK
  <2>8. results' = [op \in Ops |-> CreateCmp(op, value, constant)]'
    BY <2>4, <2>6
  <2>. QED  BY <2>1, <2>2, <2>3, <2>4, <2>6, <2>7, <2>8 DEF IInv
<1>4. CASE UNCHANGED vars
  <2>1. /\ type' = type /\ literal' = literal /\ constant' = constant /\ value' = value
        /\ results' = results /\ pc' = pc
    BY <1>4 DEF vars
  <2>. QED
    BY <2>1 DEF IInv, TypeOK, Values, Accepted, Const, FloatConst, IntConst, CreateCmp, Operand
<1>. QED  BY <1>1, <1>2, <1>3, <1>4 DEF Next

\* The inductive invariant holds.
THEOREM Invariance == Spec => []IInv
<1>. QED  BY InitInvariant, StepInvariant, PTL DEF Spec

\* Type correctness: every constant is a number of the column's type.
THEOREM TypeCorrect == Spec => []TypeOK
<1>1. IInv => TypeOK
  BY DEF IInv
<1>. QED  BY <1>1, Invariance, PTL

-----------------------------------------------------------------------------
\* After a comparison: the row's results are those of the literal's constant.
LEMMA ComparedState ==
  ASSUME IInv, Compared
  PROVE  /\ literal \in Literals /\ type \in Integral \cup Floating /\ Accepted
         /\ constant = Const /\ value \in Values(type)
         /\ \A op \in Ops : results[op] = CreateCmp(op, value, Const)
  BY DEF IInv, TypeOK, Compared

\* Of a literal that is a number, the floating constant is the rounded one.
LEMMA FloatingConst ==
  ASSUME literal \in Literals, type \in Floating, Accepted, ~literal.val.nan
  PROVE  Exact \in Int /\ Const = FloatConst(Number(Exact))
<1>1. type \notin Integral
  BY Classes
<1>2. CASE literal.kind = "int"
  <2>1. Exact = literal.val.num * Unit /\ Const = FloatConst(Number(Exact))
    BY <1>1, <1>2 DEF Exact, Const
  <2>. QED  BY <2>1, LiteralNumber, LiteralAssumption
<1>3. CASE literal.kind # "int"
  <2>1. Exact = literal.val.num /\ Const = FloatConst(literal.val)
    BY <1>1, <1>3 DEF Exact, Const
  <2>. QED  BY <2>1, LiteralNumber
<1>. QED  BY <1>2, <1>3

\* Of a literal that is not a number the constant is none either.
LEMMA FloatingNaN ==
  ASSUME literal \in Literals, type \in Floating, literal.val.nan
  PROVE  Const.nan = TRUE
<1>1. type \notin Integral /\ literal.kind # "int" /\ literal.val = NaN
  BY Classes, LiteralNumber
<1>2. Const = NaN
  BY <1>1 DEF Const, FloatConst, NaN
<1>. QED  BY <1>2 DEF NaN

\* The values of a floating column are on the grid.
LEMMA FloatingValue ==
  ASSUME type \in Floating, value \in Values(type)
  PROVE  /\ value.nan \in BOOLEAN /\ value.num \in Int /\ value.num % Grid[type] = 0
         /\ Operand(value) = value.num
<1>1. type \notin Integral /\ type \notin Signed
  BY Classes DEF Integral
<1>2. Operand(value) = value.num
  BY <1>1 DEF Operand
<1>3. Grid[type] \in Nat \ {0} /\ Limit[type] \in Nat
  BY FloatingAssumption
<1>4. CASE value = NaN
  <2>1. value.nan = TRUE /\ value.num = 0
    BY <1>4 DEF NaN
  <2>2. 0 % Grid[type] = 0
    BY <1>3
  <2>3. value.num % Grid[type] = 0
    BY <2>1, <2>2, Zenon
  <2>4. 0 \in Int /\ TRUE \in BOOLEAN
    OBVIOUS
  <2>. QED  BY <2>1, <2>3, <2>4, <1>2, Zenon
<1>5. CASE value # NaN
  <2>1. PICK n \in Numbers[type] : value = Number(n)
    BY <1>1, <1>5 DEF Values
  <2>2. n \in Int /\ n % Grid[type] = 0
    BY <1>3, FloatingAssumption
  <2>3. value.nan = FALSE /\ value.num = n
    BY <2>1 DEF Number
  <2>. QED  BY <2>2, <2>3, <1>2
<1>. QED  BY <1>4, <1>5

\* The values of an integral column are bits.
LEMMA IntegralValue ==
  ASSUME type \in Integral, value \in Values(type)
  PROVE  value.nan = FALSE /\ value.num \in Int /\ Operand(value) \in Int
<1>1. Modulus[type] \in Nat
  BY IntegralAssumption
<1>2. PICK n \in 0 .. Modulus[type] - 1 : value = Number(n)
  BY DEF Values
<1>3. value.nan = FALSE /\ value.num = n
  BY <1>2 DEF Number
<1>. QED  BY <1>1, <1>3 DEF Operand

\* The constant is a number to the comparison.
LEMMA ConstOperand ==
  ASSUME literal \in Literals, type \in Integral \cup Floating
  PROVE  Const.nan \in BOOLEAN /\ Operand(Const) \in Int
<1>1. Const.nan \in BOOLEAN
  BY ConstInType
<1>2. Const.num \in Int
  <2>1. CASE type \in Integral
    <3>1. Const.num \in 0 .. Modulus[type] - 1 /\ Modulus[type] \in Nat
      BY <2>1, ConstInType, IntegralAssumption
    <3>. QED  BY <3>1
  <2>2. CASE type \in Floating
    BY <2>2, ConstInType
  <2>. QED  BY <2>1, <2>2
<1>3. type \in Signed => Modulus[type] \in Nat
  BY IntegralAssumption DEF Integral
<1>. QED  BY <1>1, <1>2, <1>3 DEF Operand

\* A literal the column's type can hold is the constant.
LEMMA ConstExact ==
  ASSUME literal \in Literals, type \in Integral \cup Floating, Accepted, Representable
  PROVE  Const.nan = FALSE /\ literal.val.nan = FALSE /\ Operand(Const) = Exact
<1>1. CASE type \in Integral
  <2>1. type \notin Floating
    BY <1>1, Classes
  <2>2. literal.val.nan = FALSE /\ literal.val.num \in Int /\ Exact = literal.val.num
        /\ Const = IntConst(Exact)
    <3>1. literal.kind = "int"
      BY <2>1 DEF Accepted
    <3>2. literal.val.nan = FALSE /\ literal.val.num \in Int
      BY <3>1, LiteralNumber
    <3>. QED  BY <1>1, <2>1, <3>2 DEF Exact, Const
  <2>3. IF type \in Signed THEN -Modulus[type] <= 2 * Exact /\ 2 * Exact < Modulus[type]
        ELSE 0 <= Exact /\ Exact < Modulus[type]
    BY <1>1 DEF Representable
  <2>4. LET c == IntConst(Exact)
        IN  c.nan = FALSE /\ Operand(c) = Exact
    <3>1. Exact \in Int
      BY <2>2
    <3>. QED  BY <1>1, <2>3, <3>1, IntConstNumber
  <2>. QED  BY <2>2, <2>4
<1>2. CASE type \in Floating
  <2>1. type \notin Integral /\ type \notin Signed
    BY <1>2, Classes DEF Integral
  <2>2. /\ ~literal.val.nan /\ Exact % Grid[type] = 0
        /\ Exact <= Limit[type] /\ -Exact <= Limit[type]
    BY <2>1 DEF Representable
  <2>3. Exact \in Int /\ Const = FloatConst(Number(Exact))
    BY <1>2, <2>2, FloatingConst
  <2>4. LET c == FloatConst(Number(Exact))
        IN  c.nan = FALSE /\ c.num = Exact
    BY <1>2, <2>2, <2>3, FloatConstNumber
  <2>5. literal.val.nan = FALSE
    BY <2>2, LiteralNumber
  <2>. QED  BY <2>1, <2>3, <2>4, <2>5 DEF Operand
<1>. QED  BY <1>1, <1>2

\* A literal the column's type can hold is compared as the number it is.
THEOREM RepresentableExact == Spec => []RepresentableCompared
<1>1. IInv => RepresentableCompared
  <2> SUFFICES ASSUME IInv, Compared, Representable, NEW op \in Ops
               PROVE  results[op] = Truth(op)
    BY DEF RepresentableCompared
  <2>1. results[op] = CreateCmp(op, value, Const)
    BY ComparedState
  <2>2. Const.nan = FALSE /\ literal.val.nan = FALSE /\ Operand(Const) = Exact
    BY ComparedState, ConstExact
  <2>3. CreateCmp(op, value, Const) = (~value.nan /\ Relation(op, Operand(value), Exact))
    BY <2>2 DEF CreateCmp
  <2>4. Truth(op) = (~value.nan /\ Relation(op, Operand(value), Exact))
    BY <2>2 DEF Truth
  <2>. QED  BY <2>1, <2>3, <2>4
<1>. QED  BY <1>1, Invariance, PTL

\* The six comparisons agree, and none is true of NaN.
THEOREM OperatorsConsistent == Spec => []OperatorsAgree
<1>1. IInv => OperatorsAgree
  <2> SUFFICES ASSUME IInv, Compared PROVE OperatorsAgree
    BY DEF OperatorsAgree
  <2>1. /\ literal \in Literals /\ type \in Integral \cup Floating /\ constant = Const
        /\ value \in Values(type) /\ \A op \in Ops : results[op] = CreateCmp(op, value, Const)
        /\ results = [op \in Ops |-> CreateCmp(op, value, constant)]
    BY ComparedState DEF IInv, Compared
  <2>2. value.nan \in BOOLEAN /\ Operand(value) \in Int
    BY <2>1, IntegralValue, FloatingValue
  <2>3. Const.nan \in BOOLEAN /\ Operand(Const) \in Int
    BY <2>1, ConstOperand
  <2>4. CASE value.nan \/ constant.nan
    <3>1. \A op \in Ops : CreateCmp(op, value, constant) = FALSE
      BY <2>4 DEF CreateCmp
    <3>3. results = None
      BY <2>1, <3>1 DEF None
    <3>. QED  BY <2>4, <3>3 DEF OperatorsAgree
  <2>5. CASE ~(value.nan \/ constant.nan)
    <3> DEFINE a == Operand(value)
               b == Operand(Const)
    <3>1. \A op \in Ops : results[op] = Relation(op, a, b)
      <4>1. \A op \in Ops : Relation(op, a, b) \in BOOLEAN
        BY DEF Relation
      <4>2. \A op \in Ops : CreateCmp(op, value, Const) = Relation(op, a, b)
        BY <2>1, <2>5, <4>1, Zenon DEF CreateCmp
      <4>. QED  BY <2>1, <4>2
    <3>2. a \in Int /\ b \in Int
      BY <2>2, <2>3
    <3> HIDE DEF a, b
    <3>3. /\ results["LT"] <=> a < b
          /\ results["GT"] <=> a > b
          /\ results["LE"] <=> a <= b
          /\ results["GE"] <=> a >= b
          /\ results["EQ"] <=> a = b
          /\ results["NEQ"] <=> a # b
      <4>1. /\ results["LT"] = Relation("LT", a, b) /\ results["GT"] = Relation("GT", a, b)
            /\ results["LE"] = Relation("LE", a, b) /\ results["GE"] = Relation("GE", a, b)
            /\ results["EQ"] = Relation("EQ", a, b) /\ results["NEQ"] = Relation("NEQ", a, b)
        BY <3>1 DEF Ops
      <4>2. /\ Relation("LT", a, b) <=> a < b
            /\ Relation("GT", a, b) <=> a > b
            /\ Relation("LE", a, b) <=> a <= b
            /\ Relation("GE", a, b) <=> a >= b
            /\ Relation("EQ", a, b) <=> a = b
            /\ Relation("NEQ", a, b) <=> a # b
        BY DEF Relation
      <4>. QED  BY <4>1, <4>2, Zenon
    <3>4. \A op \in Ops : results[op] \in BOOLEAN
      BY <3>1 DEF Relation
    <3>5. /\ results["LT"] \in BOOLEAN /\ results["GT"] \in BOOLEAN
          /\ results["LE"] \in BOOLEAN /\ results["GE"] \in BOOLEAN
          /\ results["EQ"] \in BOOLEAN /\ results["NEQ"] \in BOOLEAN
      BY <3>4 DEF Ops
    <3>6. \E op \in {"LT", "EQ", "GT"} :
            \A other \in {"LT", "EQ", "GT"} : results[other] = (other = op)
      <4>1. CASE a < b
        <5>1. results["LT"] = TRUE /\ results["EQ"] = FALSE /\ results["GT"] = FALSE
          BY <3>2, <3>3, <3>5, <4>1
        <5>. QED  BY <5>1
      <4>2. CASE a = b
        <5>1. results["LT"] = FALSE /\ results["EQ"] = TRUE /\ results["GT"] = FALSE
          BY <3>2, <3>3, <3>5, <4>2
        <5>. QED  BY <5>1
      <4>3. CASE a > b
        <5>1. results["LT"] = FALSE /\ results["EQ"] = FALSE /\ results["GT"] = TRUE
          BY <3>2, <3>3, <3>5, <4>3
        <5>. QED  BY <5>1
      <4>. QED  BY <3>2, <4>1, <4>2, <4>3
    <3>7. /\ results["LE"] = (results["LT"] \/ results["EQ"])
          /\ results["GE"] = (results["GT"] \/ results["EQ"])
          /\ results["NEQ"] = ~results["EQ"]
      <4>1. /\ a <= b <=> a < b \/ a = b
            /\ a >= b <=> a > b \/ a = b
        BY <3>2
      <4>. QED  BY <3>3, <3>5, <4>1, Zenon
    <3>. QED  BY <2>5, <3>6, <3>7 DEF OperatorsAgree
  <2>. QED  BY <2>4, <2>5
<1>. QED  BY <1>1, Invariance, PTL

\* Rounding the literal never turns a comparison with a finite value around.
THEOREM RoundingOrder == Spec => []RoundingKeepsOrder
<1>1. IInv => RoundingKeepsOrder
  <2> SUFFICES ASSUME IInv, Compared, type \in Floating,
                      -(Limit[type] + Grid[type]) < value.num,
                      value.num < Limit[type] + Grid[type],
                      NEW op \in {"LT", "GT"}, results[op]
               PROVE  Truth(op)
    BY DEF RoundingKeepsOrder
  <2>1. /\ literal \in Literals /\ Accepted /\ value \in Values(type)
        /\ op \in Ops /\ results[op] = CreateCmp(op, value, Const)
    BY ComparedState DEF Ops
  <2>2. CreateCmp(op, value, Const)
    BY <2>1
  <2>3. ~value.nan /\ ~Const.nan /\ Relation(op, Operand(value), Operand(Const))
    BY <2>2 DEF CreateCmp
  <2>4. ~literal.val.nan
    BY <2>1, <2>3, FloatingNaN
  <2>5. Exact \in Int /\ Const = FloatConst(Number(Exact))
    BY <2>1, <2>4, FloatingConst
  <2> DEFINE g == Grid[type]
             limit == Limit[type]
             v == value.num
             c == Const.num
             n == Exact
  <2>6. Operand(value) = v /\ Operand(Const) = c /\ v \in Int /\ v % g = 0
    <3>1. type \notin Signed
      BY Classes DEF Integral
    <3>. QED  BY <2>1, <3>1, FloatingValue DEF Operand
  <2>7. /\ c \in Int /\ c % g = 0
        /\ c < limit + g => 2 * n <= 2 * c + g
        /\ -c < limit + g => 2 * c <= 2 * n + g
    <3>1. LET k == FloatConst(Number(n))
          IN  /\ k.num \in Int /\ k.num % g = 0
              /\ k.num < limit + g => 2 * n <= 2 * k.num + g
              /\ -k.num < limit + g => 2 * k.num <= 2 * n + g
      BY <2>5, FloatConstNumber
    <3>. QED  BY <2>5, <3>1
  <2>8. g \in Nat \ {0} /\ limit \in Nat /\ n \in Int /\ -(limit + g) < v /\ v < limit + g
    BY <2>5, FloatingAssumption
  <2>9. Relation(op, v, c)
    BY <2>3, <2>6
  <2>10. Relation(op, v, n) => Truth(op)
    BY <2>3, <2>4, <2>6 DEF Truth
  <2> HIDE DEF g, limit, v, c, n
  <2>11. CASE op = "LT"
    <3>1. v < c
      BY <2>9, <2>11 DEF Relation
    <3>2. v + g <= c
      BY <3>1, <2>6, <2>7, <2>8, GridApart
    <3>3. -c < limit + g
      BY <3>1, <2>6, <2>7, <2>8
    <3>4. v < n
      BY <3>2, <3>3, <2>6, <2>7, <2>8
    <3>. QED  BY <3>4, <2>10, <2>11 DEF Relation
  <2>12. CASE op = "GT"
    <3>1. c < v
      BY <2>6, <2>7, <2>9, <2>12 DEF Relation
    <3>2. c + g <= v
      BY <3>1, <2>6, <2>7, <2>8, GridApart
    <3>3. c < limit + g
      BY <3>1, <2>6, <2>7, <2>8
    <3>4. n < v
      BY <3>2, <3>3, <2>6, <2>7, <2>8
    <3>5. v > n
      BY <3>4, <2>6, <2>8
    <3>. QED  BY <3>5, <2>10, <2>12 DEF Relation
  <2>. QED  BY <2>11, <2>12
<1>. QED  BY <1>1, Invariance, PTL
=============================================================================
