------------------------- MODULE KernelLoopsProofs -------------------------
(***************************************************************************)
(* Proofs about KernelLoops, for every width of a byte, every modulus of i8*)
(* more than twice that width, and every call.                             *)
(***************************************************************************)
EXTENDS KernelLoops, TLAPS

-----------------------------------------------------------------------------
\* The bit a row has in its byte and the byte it is in determine the row.
LEMMA DivMod ==
  \A a \in Nat : /\ a \div W \in Nat
                 /\ a % W \in 0 .. W - 1
                 /\ a = W * (a \div W) + (a % W)
  BY WidthAssumption, Z3

\* A row q bytes and r bits into the bitmap is in byte q at bit r.
LEMMA DivUnique ==
  ASSUME NEW q \in Nat, NEW r \in 0 .. W - 1
  PROVE  (W * q + r) \div W = q /\ (W * q + r) % W = r
  BY WidthAssumption

\* A value that fits its type is unchanged by the conversion.
LEMMA ModSmall ==
  \A m \in Nat \ {0}, a \in Nat : a < m => a % m = a
  OBVIOUS

\* Bytes before byte n end before its first row.
LEMMA TimesBelow ==
  \A a \in Nat, n \in Nat : a < n => W * a + W <= W * n
<1> SUFFICES ASSUME NEW a \in Nat, NEW n \in Nat, a < n
             PROVE  W * a + W <= W * n
  OBVIOUS
<1>1. PICK d \in Nat : n = a + 1 + d
  <2>1. n - a - 1 \in Nat /\ n = a + 1 + (n - a - 1)
    OBVIOUS
  <2>. QED  BY <2>1
<1>2. W * n = W * a + W + W * d /\ W * d \in Nat /\ W * a \in Nat
  BY <1>1, WidthAssumption, Z3
<1>. QED  BY <1>2, WidthAssumption

\* What a call is, its fields one by one.
LEMMA CallFields ==
  ASSUME IsCall(call)
  PROVE  /\ call.func \in {"filter", "filter_remaining"}
         /\ call.len \in Nat /\ call.bit_offset \in 0 .. W - 1 /\ call.bit_offset \in Nat
         /\ call.source \in SUBSET Nat /\ call.bytes \in Nat
         /\ call.dest \in [0 .. call.bytes - 1 -> Byte]
         /\ call.len \div W \in Nat
         /\ call.func = "filter" => call.len \div W <= call.bytes /\ call.bit_offset = 0
         /\ call.func = "filter_remaining" => call.len < I8 /\ call.bytes = 1
<1>1. call.len \div W \in Nat
  BY DivMod DEF IsCall
<1>2. call.bit_offset \in 0 .. W - 1 => call.bit_offset \in Nat
  BY WidthAssumption
<1>. QED  BY <1>1, <1>2, Zenon DEF IsCall

\* A shift within the byte moves one bit, if there is one.
LEMMA ShlBit ==
  ASSUME NEW bit \in SUBSET {0}, NEW n \in 0 .. W - 1
  PROVE  Shl(bit, n) = {{p \in 0 .. W - 1 : p = n /\ bit # {}}}
<1>1. {p + n : p \in bit} \cap (0 .. W - 1) = {p \in 0 .. W - 1 : p = n /\ bit # {}}
  <2>1. CASE bit = {}
    BY <2>1
  <2>2. CASE bit # {}
    <3>1. bit = {0} /\ 0 + n = n
      <4>1. bit = {0}
        BY <2>2
      <4>2. n \in Int
        BY WidthAssumption
      <4>. QED  BY <4>1, <4>2
    <3>2. {p + n : p \in bit} = {n}
      BY <3>1
    <3>. QED  BY <3>2, <2>2
  <2>. QED  BY <2>1, <2>2
<1>2. n < W
  BY WidthAssumption
<1>. QED  BY <1>1, <1>2 DEF Shl

\* A shift gives a byte, whatever the amount.
LEMMA ShlByte ==
  ASSUME NEW bit, NEW n, NEW byte \in Shl(bit, n)
  PROVE  byte \in Byte
  BY DEF Shl, Byte

-----------------------------------------------------------------------------
\* Before the first step nothing is evaluated.
LEMMA InitInvariant == Init => IInv
<1> SUFFICES ASSUME Init PROVE IInv
  OBVIOUS
<1>1. IsCall(call)
  BY CallAssumption DEF Init
<1>2. TypeOK
  BY <1>1, CallFields, WidthAssumption DEF Init, TypeOK, Byte
<1>3. call.func = "filter" => InFilter
  <2> SUFFICES ASSUME call.func = "filter" PROVE InFilter
    OBVIOUS
  <2>1. \A b \in 0 .. call.bytes - 1 : ~(b < i)
    BY <1>1, CallFields DEF Init
  <2>2. pc = "outerloop.cond" /\ dest = call.dest
    BY DEF Init
  <2>. QED  BY <2>1, <2>2 DEF InFilter
<1>4. call.func = "filter_remaining" => InRemaining
  <2> SUFFICES ASSUME call.func = "filter_remaining" PROVE InRemaining
    OBVIOUS
  <2>1. dest[0] = call.dest[0] /\ call.dest[0] \in Byte
    BY <1>1, CallFields DEF Init
  <2>2. 0 .. i - 1 = {}
    BY DEF Init
  <2>. QED  BY <2>1, <2>2 DEF Init, InRemaining
<1>. QED  BY <1>2, <1>3, <1>4 DEF Init, IInv, WideCountIgnored

(***************************************************************************)
(* The blocks of the function filter.                                      *)
(***************************************************************************)
LEMMA FilterInvariant ==
  ASSUME IInv, call.func = "filter",
         OuterloopCond \/ OuterloopBody \/ InnerloopCond \/ InnerloopBody \/ InnerloopEnd
  PROVE  IInv'
<1> USE DEF TypeOK, IInv
<1>c. call' = call
  BY DEF OuterloopCond, OuterloopBody, InnerloopCond, InnerloopBody, InnerloopEnd
<1>f. /\ call.len \in Nat /\ call.bytes \in Nat /\ call.source \in SUBSET Nat
      /\ call.len \div W \in Nat /\ call.len \div W <= call.bytes
      /\ call.dest \in [0 .. call.bytes - 1 -> Byte]
  BY CallFields
<1>w. W \in Nat \ {0} /\ I8 \in Nat /\ 2 * W < I8
  BY WidthAssumption
<1> SUFFICES TypeOK' /\ InFilter'
  BY <1>c DEF WideCountIgnored
<1>0. InFilter
  OBVIOUS
<1>1. CASE OuterloopCond
  <2>1. TypeOK'
    BY <1>1, <1>f, <1>w DEF OuterloopCond
  <2>2. dest' = dest /\ i' = i /\ pc' \in {"outerloop.body", "done"}
    BY <1>1 DEF OuterloopCond
  <2>3. /\ pc' = "outerloop.body" => i < call.len \div W
        /\ pc' = "done" => i = call.len \div W
    BY <1>1, <1>f DEF OuterloopCond
  <2>4. InFilter'
    BY <2>2, <2>3, <1>0, <1>c DEF InFilter
  <2>. QED  BY <2>1, <2>4
<1>2. CASE OuterloopBody
  <2>1. TypeOK'
    BY <1>2, <1>f, <1>w DEF OuterloopBody, Byte
  <2>2. Gathered' = {}
    BY <1>2, <1>w DEF OuterloopBody, Gathered
  <2>3. /\ dest' = dest /\ i' = i /\ tmp_bitmap' = {} /\ pc' = "innerloop.cond"
        /\ i < call.len \div W
    BY <1>2, <1>0 DEF OuterloopBody, InFilter
  <2>4. InFilter'
    BY <2>2, <2>3, <1>0, <1>c DEF InFilter
  <2>. QED  BY <2>1, <2>4
<1>3. CASE InnerloopCond
  <2>1. TypeOK'
    BY <1>3, <1>f, <1>w DEF InnerloopCond
  <2>2. Gathered' = Gathered
    BY <1>3 DEF InnerloopCond, Gathered
  <2>3. Signed(j) = j
    BY <1>w DEF Signed
  <2>4. /\ dest' = dest /\ i' = i /\ tmp_bitmap' = tmp_bitmap /\ j' = j
        /\ i < call.len \div W /\ tmp_bitmap = Gathered
    BY <1>3, <1>0 DEF InnerloopCond, InFilter
  <2>5. /\ pc' \in {"innerloop.body", "innerloop.end"}
        /\ pc' = "innerloop.body" => j < W
        /\ pc' = "innerloop.end" => j = W
    BY <1>3, <2>3, <1>w DEF InnerloopCond
  <2>6. InFilter'
    BY <2>2, <2>4, <2>5, <1>0, <1>c DEF InFilter
  <2>. QED  BY <2>1, <2>6
<1>4. CASE InnerloopBody
  <2>1. j < W /\ i < call.len \div W /\ tmp_bitmap = Gathered /\ j \in Nat /\ i \in Nat
    BY <1>4, <1>0, <1>f, <1>w DEF InnerloopBody, InFilter
  <2>2. Signed(j) = j /\ (W - 1 - j) % I8 = W - 1 - j /\ (j + 1) % I8 = j + 1
    <3>1. Signed(j) = j
      BY <2>1, <1>w DEF Signed
    <3>2. W - 1 - j \in Nat /\ W - 1 - j < I8 /\ j + 1 < I8
      BY <2>1, <1>w
    <3>a. j + 1 \in Nat /\ I8 \in Nat \ {0}
      BY <2>1, <1>w
    <3>3. (W - 1 - j) % I8 = W - 1 - j
      BY <3>2, <3>a, ModSmall, Zenon
    <3>4. (j + 1) % I8 = j + 1
      BY <3>2, <3>a, ModSmall, Zenon
    <3>. QED  BY <3>1, <3>3, <3>4
  <2> DEFINE n == i * W
             bit == Predicate(n + j)
  <2>3. n \in Nat
    BY <2>1, <1>w
  <2>4. bit \in SUBSET {0} /\ (bit # {} <=> n + j \in call.source)
    BY DEF Predicate
  <2>5. tmp_bitmap' = tmp_bitmap \cup {p \in 0 .. W - 1 : p = W - 1 - j /\ bit # {}}
    <3>1. W - 1 - j \in 0 .. W - 1
      BY <2>1, <1>w
    <3>2. Shl(bit, W - 1 - j) = {{p \in 0 .. W - 1 : p = W - 1 - j /\ bit # {}}}
      BY <3>1, <2>4, ShlBit
    <3>3. \E byte \in Shl(bit, W - 1 - j) : tmp_bitmap' = tmp_bitmap \cup byte
      BY <1>4, <2>2 DEF InnerloopBody
    <3>. QED  BY <3>2, <3>3
  <2>6. j' = j + 1 /\ i' = i /\ dest' = dest /\ pc' = "innerloop.cond"
    BY <1>4, <2>2 DEF InnerloopBody
  <2>7. tmp_bitmap' = Gathered'
    <3>1. Gathered = {p \in 0 .. W - 1 : p >= W - j /\ n + (W - 1 - p) \in call.source}
      BY DEF Gathered
    <3>2. Gathered' = {p \in 0 .. W - 1 : p >= W - (j + 1) /\ n + (W - 1 - p) \in call.source}
      BY <2>6, <1>c DEF Gathered
    <3> HIDE DEF n, bit
    <3>3. \A p \in 0 .. W - 1 : p = W - 1 - j => n + (W - 1 - p) = n + j
      BY <2>1, <2>3, <1>w
    <3>4. \A p \in 0 .. W - 1 : p >= W - (j + 1) <=> p >= W - j \/ p = W - 1 - j
      BY <2>1, <1>w
    <3>. QED  BY <3>1, <3>2, <3>3, <3>4, <2>1, <2>4, <2>5, Zenon
  <2>8. TypeOK'
    <3>1. tmp_bitmap' \in Byte
      BY <2>5, <1>w DEF Byte
    <3>. QED  BY <3>1, <2>6, <2>1, <1>c, <1>f, <1>w, <1>4 DEF InnerloopBody
  <2>9. InFilter'
    BY <2>1, <2>6, <2>7, <1>0, <1>c DEF InFilter
  <2>. QED  BY <2>8, <2>9
<1>5. CASE InnerloopEnd
  <2>1. i < call.len \div W /\ j = W /\ tmp_bitmap = Gathered /\ i \in 0 .. call.bytes - 1
    BY <1>5, <1>0, <1>f, <1>w DEF InnerloopEnd, InFilter
  <2>2. /\ dest' = [dest EXCEPT ![i] = @ \cap tmp_bitmap]
        /\ i' = i + 1 /\ pc' = "outerloop.cond" /\ j' = j /\ tmp_bitmap' = tmp_bitmap
    BY <1>5 DEF InnerloopEnd
  <2>3. TypeOK'
    <3>1. dest[i] \cap tmp_bitmap \in Byte
      BY <2>1 DEF Byte
    <3>2. dest' \in [0 .. call.bytes - 1 -> Byte]
      BY <3>1, <2>2
    <3>3. i' \in 0 .. call.len \div W
      BY <2>1, <2>2, <1>f
    <3>. QED  BY <3>2, <3>3, <2>2, <1>c
  <2>4. ASSUME NEW b \in 0 .. call.bytes - 1
        PROVE  dest'[b] = IF b < i + 1
                          THEN {p \in call.dest[b] : b * W + (W - 1 - p) \in call.source}
                          ELSE call.dest[b]
    <3>1. CASE b = i
      <4>1. dest[i] = call.dest[i] /\ call.dest[i] \subseteq 0 .. W - 1
        <5>1. ~(i < i)
          BY <2>1
        <5>2. dest[i] = call.dest[i]
          BY <5>1, <2>1, <1>0 DEF InFilter
        <5>. QED  BY <5>2, <1>f, <2>1 DEF Byte
      <4>2. tmp_bitmap = {p \in 0 .. W - 1 : i * W + (W - 1 - p) \in call.source}
        <5>1. \A p \in 0 .. W - 1 : p >= W - j
          BY <2>1, <1>w
        <5>. QED  BY <5>1, <2>1 DEF Gathered
      <4>3. dest'[i] = dest[i] \cap tmp_bitmap
        BY <2>1, <2>2
      <4>4. i < i + 1
        BY <2>1
      <4>. QED  BY <3>1, <4>1, <4>2, <4>3, <4>4, Zenon
    <3>2. CASE b # i
      <4>1. dest'[b] = dest[b]
        BY <3>2, <2>2
      <4>2. b < i + 1 <=> b < i
        BY <3>2, <2>1
      <4>. QED  BY <4>1, <4>2, <1>0 DEF InFilter
    <3>. QED  BY <3>1, <3>2
  <2>5. InFilter'
    BY <2>4, <2>2, <1>c DEF InFilter
  <2>. QED  BY <2>3, <2>5
<1>. QED  BY <1>1, <1>2, <1>3, <1>4, <1>5

(***************************************************************************)
(* The blocks of the function filter_remaining.                            *)
(***************************************************************************)
LEMMA RemainingInvariant ==
  ASSUME IInv, call.func = "filter_remaining", LoopCond \/ LoopBody
  PROVE  IInv'
<1> USE DEF TypeOK, IInv
<1>c. call' = call
  BY DEF LoopCond, LoopBody
<1>f. /\ call.len \in Nat /\ call.bytes = 1 /\ call.len < I8
      /\ call.bit_offset \in Nat /\ call.bit_offset < W
      /\ call.dest \in [0 .. call.bytes - 1 -> Byte]
  BY CallFields, WidthAssumption
<1>w. W \in Nat \ {0} /\ I8 \in Nat /\ 2 * W < I8
  BY WidthAssumption
<1>g. Fits' = Fits
  BY <1>c DEF Fits
<1>1. CASE LoopCond
  <2>1. i \in Nat /\ i <= call.len
    BY <1>f
  <2>2. Signed(i) < Signed(call.len) => 2 * call.len < I8 /\ i < call.len
    <3>1. CASE 2 * call.len >= I8
      BY <3>1, <1>f, <1>w DEF Signed
    <3>2. CASE 2 * call.len < I8
      BY <3>2, <2>1, <1>f, <1>w DEF Signed
    <3>. QED  BY <3>1, <3>2, <1>f, <1>w
  <2>3. 2 * call.len < I8 /\ i < call.len => Signed(i) < Signed(call.len)
    BY <2>1, <1>f, <1>w DEF Signed
  <2>4. TypeOK'
    BY <1>1, <1>f, <1>w DEF LoopCond
  <2>5. pc' = "loop.body" => 2 * call.len < I8 /\ i < call.len
    BY <1>1, <2>2 DEF LoopCond
  <2>6. Fits => InRemaining'
    <3> SUFFICES ASSUME Fits PROVE InRemaining'
      OBVIOUS
    <3>1. 2 * call.len < I8
      BY <1>f, <1>w DEF Fits
    <3>2. pc' = "done" => i = call.len
      BY <3>1, <2>1, <2>3, <1>f, <1>1 DEF LoopCond
    <3>. QED  BY <3>2, <2>5, <1>1, <1>c DEF LoopCond, InRemaining
  <2>. QED
    BY <2>4, <2>5, <2>6, <1>1, <1>g, <1>c DEF LoopCond, WideCountIgnored
<1>2. CASE LoopBody
  <2>1. 2 * call.len < I8 /\ i < call.len /\ i \in Nat
    BY <1>2, <1>f DEF LoopBody
  <2>2. Signed(i) = i
    BY <2>1, <1>f, <1>w DEF Signed
  <2>3. (i + 1) % I8 = i + 1
    <3>1. i + 1 \in Nat /\ i + 1 < I8 /\ I8 \in Nat \ {0}
      BY <2>1, <1>f, <1>w
    <3>. QED  BY <3>1, ModSmall, Zenon
  <2> DEFINE amount == (W - 1 - (i + call.bit_offset)) % I8
             bit == {0} \ Predicate(i)
  <2>4. PICK zero_bit \in Shl(bit, amount) : dest' = [dest EXCEPT ![0] = @ \ zero_bit]
    BY <1>2, <2>2 DEF LoopBody
  <2>5. i' = i + 1 /\ pc' = "loop.cond" /\ j' = j /\ tmp_bitmap' = tmp_bitmap
    BY <1>2, <2>3 DEF LoopBody
  <2>6. 0 \in 0 .. call.bytes - 1
    BY <1>f
  <2>7. TypeOK'
    <3>1. dest[0] \ zero_bit \in Byte
      BY <2>6 DEF Byte
    <3>2. dest' \in [0 .. call.bytes - 1 -> Byte]
      BY <3>1, <2>4
    <3>. QED  BY <3>2, <2>1, <2>5, <1>c, <1>f
  <2>8. Fits => InRemaining'
    <3> SUFFICES ASSUME Fits PROVE InRemaining'
      OBVIOUS
    <3>1. call.bit_offset + call.len <= W
      BY DEF Fits
    <3>2. amount = W - 1 - (i + call.bit_offset) /\ amount \in 0 .. W - 1
      <4>1. W - 1 - (i + call.bit_offset) \in Nat /\ W - 1 - (i + call.bit_offset) < I8
        BY <3>1, <2>1, <1>f, <1>w
      <4>2. I8 \in Nat \ {0}
        BY <1>w
      <4>3. amount = W - 1 - (i + call.bit_offset)
        BY <4>1, <4>2, ModSmall, Zenon
      <4>4. W - 1 - (i + call.bit_offset) \in 0 .. W - 1
        BY <4>1, <2>1, <1>f, <1>w
      <4>. QED  BY <4>3, <4>4
    <3>3. bit \in SUBSET {0} /\ (bit # {} <=> i \notin call.source)
      BY DEF Predicate
    <3> HIDE DEF amount, bit
    <3>a. amount \in 0 .. W - 1
      BY <3>2
    <3>b. Shl(bit, amount) = {{p \in 0 .. W - 1 : p = amount /\ bit # {}}}
      BY <3>a, <3>3, ShlBit
    <3>4. zero_bit = {p \in 0 .. W - 1 : p = amount /\ bit # {}}
      BY <3>b, <2>4
    <3> DEFINE row(p) == W - 1 - p - call.bit_offset
    <3>5. dest[0] = {p \in call.dest[0] : row(p) \in 0 .. i - 1 => row(p) \in call.source}
      BY DEF InRemaining
    <3>6. dest'[0] = dest[0] \ zero_bit
      BY <2>4, <2>6
    <3>7. call.dest[0] \subseteq 0 .. W - 1
      BY <1>f, <2>6 DEF Byte
    <3>8. \A p \in 0 .. W - 1 :
            /\ row(p) \in 0 .. i <=> row(p) \in 0 .. i - 1 \/ p = amount
            /\ p = amount => row(p) = i
            /\ row(p) = i => row(p) \notin 0 .. i - 1
      BY <3>2, <2>1, <1>f, <1>w
    <3> HIDE DEF row
    <3>9. dest'[0] = {p \in call.dest[0] : row(p) \in 0 .. i => row(p) \in call.source}
      BY <3>3, <3>4, <3>5, <3>6, <3>7, <3>8, Zenon
    <3>10. (i + 1) - 1 = i
      BY <2>1
    <3>. QED  BY <3>9, <3>10, <2>5, <1>c DEF InRemaining, row
  <2>9. WideCountIgnored'
    BY <2>1, <1>c, <1>f, <1>w DEF WideCountIgnored
  <2>. QED  BY <2>1, <2>5, <2>7, <2>8, <2>9, <1>c, <1>f, <1>g, <1>w
<1>. QED  BY <1>1, <1>2

\* Every step keeps the invariant.
LEMMA StepInvariant == IInv /\ [Next]_vars => IInv'
<1> SUFFICES ASSUME IInv, [Next]_vars PROVE IInv'
  OBVIOUS
<1>1. CASE OuterloopCond \/ OuterloopBody \/ InnerloopCond \/ InnerloopBody \/ InnerloopEnd
  <2>1. pc \in {"outerloop.cond", "outerloop.body", "innerloop.cond", "innerloop.body",
                "innerloop.end"}
    BY <1>1 DEF OuterloopCond, OuterloopBody, InnerloopCond, InnerloopBody, InnerloopEnd
  <2>2. call.func = "filter"
    BY <2>1 DEF IInv, TypeOK
  <2>. QED  BY <1>1, <2>2, FilterInvariant
<1>2. CASE LoopCond \/ LoopBody
  <2>1. pc \in {"loop.cond", "loop.body"}
    BY <1>2 DEF LoopCond, LoopBody
  <2>2. call.func = "filter_remaining"
    <3>1. IsCall(call) /\ call.func # "filter"
      BY <2>1 DEF IInv, TypeOK
    <3>. QED  BY <3>1, CallFields
  <2>. QED  BY <1>2, <2>2, RemainingInvariant
<1>3. CASE UNCHANGED vars
  <2>1. /\ call' = call /\ dest' = dest /\ i' = i /\ j' = j /\ tmp_bitmap' = tmp_bitmap
        /\ pc' = pc
    BY <1>3 DEF vars
  <2>2. TypeOK' <=> TypeOK
    BY <2>1 DEF TypeOK
  <2>3. InFilter' <=> InFilter
    BY <2>1 DEF InFilter, Gathered
  <2>4. InRemaining' <=> InRemaining
    BY <2>1 DEF InRemaining
  <2>5. (Fits' <=> Fits) /\ (WideCountIgnored' <=> WideCountIgnored)
    BY <2>1 DEF Fits, WideCountIgnored
  <2>. QED  BY <2>1, <2>2, <2>3, <2>4, <2>5 DEF IInv
<1>. QED  BY <1>1, <1>2, <1>3 DEF Next

\* The inductive invariant holds.
THEOREM Invariance == Spec => []IInv
<1>. QED  BY InitInvariant, StepInvariant, PTL DEF Spec

\* Type correctness.
THEOREM TypeCorrect == Spec => []TypeOK
<1>1. IInv => TypeOK
  BY DEF IInv
<1>. QED  BY <1>1, Invariance, PTL

\* A count of 2^7 or more evaluates no row.
THEOREM WideCount == Spec => []WideCountIgnored
<1>1. IInv => WideCountIgnored
  BY DEF IInv
<1>. QED  BY <1>1, Invariance, PTL

-----------------------------------------------------------------------------
(***************************************************************************)
(* From the invariant to the effect of a call: bits in row order.          *)
(***************************************************************************)
\* Bit k of the bitmap in byte k \div W, and the row byte and position stand for.
LEMMA BitPlace ==
  ASSUME IsCall(call), NEW k \in 0 .. W * call.bytes - 1
  PROVE  /\ k \in Nat /\ k \div W \in 0 .. call.bytes - 1 /\ k % W \in 0 .. W - 1
         /\ W - 1 - (k % W) \in 0 .. W - 1
         /\ (k \div W) * W + (W - 1 - (W - 1 - (k % W))) = k
<1>1. call.bytes \in Nat /\ W \in Nat \ {0}
  BY CallFields, WidthAssumption
<1>2. W * call.bytes \in Nat /\ k \in Nat
  BY <1>1
<1> DEFINE q == k \div W
           r == k % W
<1>3. q \in Nat /\ r \in 0 .. W - 1 /\ k = W * q + r
  BY <1>2, DivMod
<1> HIDE DEF q, r
<1>4. q < call.bytes
  <2> SUFFICES ASSUME call.bytes <= q PROVE FALSE
    BY <1>1, <1>3
  <2>1. call.bytes < q + 1 /\ q + 1 \in Nat
    BY <1>1, <1>3
  <2>2. W * call.bytes + W <= W * (q + 1)
    BY <2>1, <1>1, TimesBelow
  <2>3. W * (q + 1) = W * q + W /\ W * q \in Nat
    BY <1>1, <1>3
  <2>. QED  BY <2>2, <2>3, <1>1, <1>2, <1>3
<1>5. W * q = q * W /\ q * W \in Nat
  BY <1>1, <1>3
<1>6. W - 1 - r \in 0 .. W - 1 /\ W - 1 - (W - 1 - r) = r
  BY <1>1, <1>3
<1>. QED  BY <1>1, <1>2, <1>3, <1>4, <1>5, <1>6 DEF q, r

\* Whether bit k belongs to a byte before byte n is whether it is before its row.
LEMMA BitBefore ==
  ASSUME NEW k \in Nat, NEW n \in Nat
  PROVE  k \div W < n <=> k < W * n
<1> DEFINE q == k \div W
           r == k % W
<1>1. q \in Nat /\ r \in 0 .. W - 1 /\ k = W * q + r
  BY DivMod
<1>2. W \in Nat \ {0} /\ W * n \in Nat /\ W * q \in Nat
  BY <1>1, WidthAssumption
<1> HIDE DEF q, r
<1>3. q < n => W * q + W <= W * n
  BY <1>1, TimesBelow
<1>4. n < q + 1 => W * n + W <= W * (q + 1)
  BY <1>1, TimesBelow
<1>5. W * (q + 1) = W * q + W
  BY <1>1, <1>2
<1>6. q < n <=> k < W * n
  BY <1>1, <1>2, <1>3, <1>4, <1>5
<1>. QED  BY <1>6 DEF q

\* The rows of the call evaluated so far, as bits of the bitmap.
EvaluatedSoFar == IF call.func = "filter" THEN W * i ELSE i

(***************************************************************************)
(* At every step, the bit of a row that has been evaluated and fails is    *)
(* clear and every other bit is as it was.                                 *)
(***************************************************************************)
LEMMA BitValue ==
  IInv /\ Fits =>
    \A k \in 0 .. W * call.bytes - 1 :
      Bitmap(dest)[k] =
        IF /\ k - call.bit_offset \in 0 .. EvaluatedSoFar - 1
           /\ k - call.bit_offset \notin call.source
        THEN 0 ELSE Bitmap(call.dest)[k]
<1> SUFFICES ASSUME IInv, Fits, NEW k \in 0 .. W * call.bytes - 1
             PROVE  Bitmap(dest)[k] =
                      IF /\ k - call.bit_offset \in 0 .. EvaluatedSoFar - 1
                         /\ k - call.bit_offset \notin call.source
                      THEN 0 ELSE Bitmap(call.dest)[k]
  OBVIOUS
<1>1. IsCall(call) /\ i \in Nat
  <2>1. IsCall(call)
    BY DEF IInv, TypeOK
  <2>. QED  BY <2>1, CallFields DEF IInv, TypeOK
<1> DEFINE q == k \div W
           p == W - 1 - (k % W)
<1>2. k \in Nat /\ q \in 0 .. call.bytes - 1 /\ p \in 0 .. W - 1 /\ q * W + (W - 1 - p) = k
  BY <1>1, BitPlace
<1>3. /\ Bitmap(dest)[k] = IF p \in dest[q] THEN 1 ELSE 0
      /\ Bitmap(call.dest)[k] = IF p \in call.dest[q] THEN 1 ELSE 0
  BY DEF Bitmap
<1>4. W \in Nat \ {0}
  BY WidthAssumption
<1> SUFFICES p \in dest[q] <=>
               /\ p \in call.dest[q]
               /\ k - call.bit_offset \in 0 .. EvaluatedSoFar - 1
                    => k - call.bit_offset \in call.source
  BY <1>3
<1>5. CASE call.func = "filter"
  <2>1. dest[q] = IF q < i THEN {x \in call.dest[q] : q * W + (W - 1 - x) \in call.source}
                  ELSE call.dest[q]
    BY <1>2, <1>5 DEF IInv, InFilter
  <2>2. call.bit_offset = 0
    BY <1>1, <1>5, CallFields
  <2>3. q < i <=> k - 0 \in 0 .. W * i - 1
    <3>1. q < i <=> k < W * i
      BY <1>1, <1>2, BitBefore
    <3>2. W * i \in Nat
      BY <1>1, <1>4
    <3>. QED  BY <3>1, <3>2, <1>2
  <2>4. k - 0 = k
    BY <1>2
  <2> HIDE DEF p, q
  <2>5. p \in dest[q] <=> p \in call.dest[q] /\ (q < i => k \in call.source)
    BY <2>1, <1>2
  <2>. QED  BY <1>5, <2>2, <2>3, <2>4, <2>5 DEF EvaluatedSoFar
<1>6. CASE call.func # "filter"
  <2>1. call.func = "filter_remaining" /\ call.bytes = 1 /\ call.bit_offset \in Nat
    BY <1>1, <1>6, CallFields
  <2>2. q = 0
    BY <1>2, <2>1
  <2>3. W - 1 - p - call.bit_offset = k - call.bit_offset
    <3>1. 0 * W + (W - 1 - p) = W - 1 - p
      BY <1>2, <1>4
    <3>. QED  BY <3>1, <2>2, <1>2
  <2> HIDE DEF p, q
  <2>4. dest[0] = {x \in call.dest[0] :
                    W - 1 - x - call.bit_offset \in 0 .. i - 1
                      => W - 1 - x - call.bit_offset \in call.source}
    BY <2>1 DEF IInv, InRemaining
  <2>5. p \in dest[0] <=> /\ p \in call.dest[0]
                          /\ W - 1 - p - call.bit_offset \in 0 .. i - 1
                               => W - 1 - p - call.bit_offset \in call.source
    BY <2>4, Zenon
  <2>. QED  BY <1>6, <2>2, <2>3, <2>5 DEF EvaluatedSoFar
<1>. QED  BY <1>5, <1>6

\* No more is evaluated than the call asks for, and all of it in the end.
LEMMA EvaluatedUpTo ==
  ASSUME IInv, Fits
  PROVE  /\ EvaluatedSoFar \in Nat /\ Count \in Nat /\ EvaluatedSoFar <= Count
         /\ pc = "done" => EvaluatedSoFar = Count
<1>1. IsCall(call)
  BY DEF IInv, TypeOK
<1>2. W \in Nat \ {0} /\ call.len \in Nat /\ call.len \div W \in Nat
  BY <1>1, CallFields, WidthAssumption
<1>3. CASE call.func = "filter"
  <2>1. i \in Nat /\ i <= call.len \div W
    BY <1>2, <1>3 DEF IInv, TypeOK
  <2>2. pc = "done" => i = call.len \div W
    BY <1>3 DEF IInv, InFilter
  <2> DEFINE n == call.len \div W
  <2>3. n \in Nat /\ i \in Nat /\ i <= n
    BY <2>1, <1>2
  <2> HIDE DEF n
  <2>4. W * i \in Nat /\ W * n \in Nat /\ W * i <= W * n
    <3>1. CASE i = n
      BY <3>1, <2>3, <1>2
    <3>2. CASE i < n
      BY <3>2, <2>3, <1>2, TimesBelow
    <3>. QED  BY <3>1, <3>2, <2>3
  <2>. QED  BY <2>2, <2>4, <1>3 DEF n, EvaluatedSoFar, Count
<1>4. CASE call.func # "filter"
  <2>1. call.func = "filter_remaining"
    BY <1>1, <1>4, CallFields
  <2>2. i \in Nat /\ i <= call.len
    BY <1>2, <1>4 DEF IInv, TypeOK
  <2>3. pc = "done" => i = call.len
    BY <2>1 DEF IInv, InRemaining
  <2>. QED  BY <2>2, <2>3, <1>2, <1>4 DEF EvaluatedSoFar, Count
<1>. QED  BY <1>3, <1>4

(***************************************************************************)
(* The loops do what FilterBitmap's Apply says, for every call that fits.  *)
(***************************************************************************)
THEOREM CallEffect == Spec => []CallApplied
<1>1. IInv => CallApplied
  <2> SUFFICES ASSUME IInv, pc = "done", Fits
               PROVE  Bitmap(dest) = Before!Apply(0, [first |-> 0, count |-> Count,
                                                      bit |-> call.bit_offset])
    BY DEF CallApplied
  <2>1. /\ IsCall(call) /\ W \in Nat \ {0} /\ call.bytes \in Nat
        /\ call.bit_offset \in Nat
    <3>1. IsCall(call)
      BY DEF IInv, TypeOK
    <3>. QED  BY <3>1, CallFields, WidthAssumption
  <2>2. Before!NumBytes = call.bytes
    <3>1. Before!Rows = W * call.bytes
      <4>1. W * call.bytes \in Nat
        BY <2>1
      <4>. QED  BY <4>1 DEF Before!Rows
    <3>2. W - 1 \in 0 .. W - 1
      BY <2>1
    <3>3. (W * call.bytes + (W - 1)) \div W = call.bytes
      BY <3>2, <2>1, DivUnique
    <3>4. W * call.bytes + W - 1 = W * call.bytes + (W - 1)
      BY <2>1
    <3>. QED  BY <3>1, <3>3, <3>4 DEF Before!NumBytes
  <2>3. ASSUME NEW k \in 0 .. W * call.bytes - 1
        PROVE  Before!Predicate(0, 0 + (k - call.bit_offset))
                 <=> k - call.bit_offset \in call.source
    <3>1. k \in Int /\ 0 * (W * call.bytes) = 0
      BY <2>1
    <3>2. 0 + (0 + (k - call.bit_offset)) = k - call.bit_offset
      BY <3>1, <2>1
    <3>. QED  BY <3>1, <3>2 DEF Before!Predicate
  <2>4. EvaluatedSoFar = Count
    BY EvaluatedUpTo
  <2>. QED
    BY <2>2, <2>3, <2>4, BitValue DEF Before!Apply, Before!Bits, Bitmap
<1>. QED  BY <1>1, Invariance, PTL

(***************************************************************************)
(* While a call runs, it clears only bits of its own rows that fail.       *)
(***************************************************************************)
THEOREM OnlyOwnBits == Spec => OnlyFailingCleared
<1>1. (IInv /\ Fits =>
        \A k \in 0 .. W * call.bytes - 1 :
          Bitmap(dest)[k] =
            IF /\ k - call.bit_offset \in 0 .. EvaluatedSoFar - 1
               /\ k - call.bit_offset \notin call.source
            THEN 0 ELSE Bitmap(call.dest)[k])'
  BY BitValue, PTL
<1>a. IInv /\ Fits => EvaluatedSoFar \in Nat /\ EvaluatedSoFar <= Count
  BY EvaluatedUpTo
<1>b. (IInv /\ Fits => EvaluatedSoFar \in Nat /\ EvaluatedSoFar <= Count)'
  BY <1>a, PTL
<1>2. ASSUME IInv, IInv', [Next]_vars, Fits, NEW k \in 0 .. W * call.bytes - 1,
             Bitmap(dest)'[k] # Bitmap(dest)[k]
      PROVE  /\ Bitmap(dest)[k] = 1
             /\ k - call.bit_offset \in (0 .. Count - 1) \ call.source
  <2>1. call' = call /\ (Fits' <=> Fits)
    <3>1. call' = call
      BY <1>2 DEF Next, vars, OuterloopCond, OuterloopBody, InnerloopCond, InnerloopBody,
                  InnerloopEnd, LoopCond, LoopBody
    <3>. QED  BY <3>1 DEF Fits
  <2>2. /\ EvaluatedSoFar \in Nat /\ Count \in Nat
        /\ EvaluatedSoFar' \in Nat /\ EvaluatedSoFar' <= Count
    <3>1. EvaluatedSoFar \in Nat /\ Count \in Nat
      BY <1>2, EvaluatedUpTo
    <3>2. Count' = Count
      BY <2>1 DEF Count
    <3>. QED  BY <3>1, <3>2, <2>1, <1>2, <1>b
  <2>3. k \in Int /\ call.bit_offset \in Nat /\ Bitmap(call.dest)[k] \in {0, 1}
    <3>1. IsCall(call)
      BY <1>2 DEF IInv, TypeOK
    <3>2. k \in Nat
      BY <1>2, <3>1, BitPlace
    <3>. QED  BY <3>1, <3>2, <1>2, CallFields DEF Bitmap
  <2>4. Bitmap(dest)[k] = IF /\ k - call.bit_offset \in 0 .. EvaluatedSoFar - 1
                             /\ k - call.bit_offset \notin call.source
                          THEN 0 ELSE Bitmap(call.dest)[k]
    BY <1>2, BitValue
  <2>5. Bitmap(dest)'[k] = IF /\ k - call.bit_offset \in 0 .. EvaluatedSoFar' - 1
                              /\ k - call.bit_offset \notin call.source
                           THEN 0 ELSE Bitmap(call.dest)[k]
    <3>1. Bitmap(call.dest)' = Bitmap(call.dest)
      BY <2>1 DEF Bitmap
    <3>. QED  BY <1>1, <1>2, <2>1, <3>1
  <2>6. EvaluatedSoFar <= EvaluatedSoFar'
    <3>1. i' \in {i, i + 1}
      <4>1. CASE LoopBody
        <5>1. call.func # "filter"
          BY <4>1, <1>2 DEF LoopBody, IInv, TypeOK
        <5>2. IsCall(call)
          BY <1>2 DEF IInv, TypeOK
        <5>3. call.func = "filter_remaining" /\ call.len \in Nat /\ call.len < I8
          BY <5>1, <5>2, CallFields
        <5>4. i < call.len /\ i \in Nat
          BY <4>1, <5>1, <5>3, <1>2 DEF LoopBody, IInv, TypeOK
        <5>5. (i + 1) % I8 = i + 1
          <6>1. i + 1 \in Nat /\ I8 \in Nat \ {0}
            BY <5>4, WidthAssumption
          <6>2. 2 * call.len < I8
            BY <4>1, <5>3, <1>2 DEF LoopBody, IInv
          <6>3. i + 1 < I8
            BY <5>3, <5>4, <6>2, WidthAssumption
          <6>. QED  BY <6>1, <6>3, ModSmall, Zenon
        <5>. QED  BY <4>1, <5>5 DEF LoopBody
      <4>2. CASE ~LoopBody
        BY <4>2, <1>2 DEF Next, vars, OuterloopCond, OuterloopBody, InnerloopCond,
                          InnerloopBody, InnerloopEnd, LoopCond
      <4>. QED  BY <4>1, <4>2
    <3>2. i \in Nat
      <4>1. IsCall(call)
        BY <1>2 DEF IInv, TypeOK
      <4>. QED  BY <4>1, <1>2, CallFields DEF IInv, TypeOK
    <3>3. W * (i + 1) = W * i + W /\ W * i \in Nat
      BY <3>2, WidthAssumption
    <3>4. CASE i' = i
      <4>1. EvaluatedSoFar' = EvaluatedSoFar
        BY <3>4, <2>1 DEF EvaluatedSoFar
      <4>. QED  BY <4>1, <2>2
    <3>5. CASE i' = i + 1
      <4>1. EvaluatedSoFar' = IF call.func = "filter" THEN W * (i + 1) ELSE i + 1
        BY <3>5, <2>1 DEF EvaluatedSoFar
      <4>2. W \in Nat
        BY WidthAssumption
      <4>. QED  BY <4>1, <4>2, <3>2, <3>3 DEF EvaluatedSoFar
    <3>. QED  BY <3>1, <3>4, <3>5
  <2> DEFINE row == k - call.bit_offset
             e == EvaluatedSoFar
             f == EvaluatedSoFar'
  <2>7. row \in Int
    BY <2>3
  <2>8. row \in 0 .. f - 1 /\ row \notin 0 .. e - 1 /\ row \notin call.source
    <3>1. row \in 0 .. e - 1 => row \in 0 .. f - 1
      BY <2>2, <2>6, <2>7
    <3>. QED  BY <3>1, <2>4, <2>5, <1>2
  <2>9. Bitmap(dest)[k] = 1
    BY <2>3, <2>4, <2>5, <2>8, <1>2
  <2>10. row \in 0 .. Count - 1
    <3> HIDE DEF row, f
    <3>1. f \in Nat /\ f <= Count
      BY <2>2 DEF f
    <3>. QED  BY <3>1, <2>2, <2>7, <2>8
  <2>. QED  BY <2>8, <2>9, <2>10
<1>3. IInv /\ IInv' /\ [Next]_vars =>
        [Fits =>
           \A k \in 0 .. W * call.bytes - 1 :
             Bitmap(dest)'[k] # Bitmap(dest)[k]
               => /\ Bitmap(dest)[k] = 1
                  /\ k - call.bit_offset \in (0 .. Count - 1) \ call.source]_vars
  BY <1>2
<1>. QED  BY <1>3, Invariance, PTL DEF Spec, OnlyFailingCleared
-----------------------------------------------------------------------------
(***************************************************************************)
(* What a call still has to do: bytes, or rows in filter_remaining, after  *)
(* the current one, and the blocks of the current one.                     *)
(***************************************************************************)
BytesLeft == IF call.func = "filter" THEN call.len \div W - i ELSE call.len - i

BlocksLeft ==
  CASE pc = "outerloop.cond" -> 2 * W + 4
    [] pc = "outerloop.body" -> 2 * W + 3
    [] pc = "innerloop.cond" -> 2 * (W - j) + 2
    [] pc = "innerloop.body" -> 2 * (W - j) + 1
    [] pc \in {"innerloop.end", "loop.body"} -> 1
    [] pc = "loop.cond" -> 2
    [] pc = "done" -> 0

\* The pair <<BytesLeft, BlocksLeft>> goes down.
UsesUp ==
  \/ BytesLeft' < BytesLeft
  \/ BytesLeft' = BytesLeft /\ BlocksLeft' < BlocksLeft

\* Both are natural numbers.
LEMMA LeftType ==
  ASSUME IInv
  PROVE  BytesLeft \in Nat /\ BlocksLeft \in Nat
<1>1. /\ call.len \in Nat /\ call.len \div W \in Nat
      /\ call.func \in {"filter", "filter_remaining"}
  BY CallFields DEF IInv, TypeOK
<1>2. BytesLeft \in Nat
  BY <1>1 DEF IInv, TypeOK, BytesLeft
<1>3. pc = "innerloop.body" => j < W
  BY <1>1 DEF IInv, TypeOK, InFilter
<1>4. BlocksLeft \in Nat
  BY <1>1, <1>3, WidthAssumption, SMTT(30) DEF IInv, TypeOK, BlocksLeft
<1>. QED  BY <1>2, <1>4

\* No block leaves as much to do as there was.
LEMMA StepUsesUp ==
  ASSUME IInv, Next
  PROVE  UsesUp
<1>w. W \in Nat \ {0} /\ I8 \in Nat \ {0} /\ 2 * W < I8
  BY WidthAssumption
<1>f. /\ call.len \in Nat /\ call.len \div W \in Nat
      /\ call.func \in {"filter", "filter_remaining"}
      /\ call.func = "filter_remaining" => call.len < I8
  BY CallFields DEF IInv, TypeOK
<1>t. /\ i \in Nat /\ j \in 0 .. W /\ BytesLeft \in Nat
      /\ pc \in {"outerloop.cond", "outerloop.body", "innerloop.cond", "innerloop.body",
                 "innerloop.end"} => call.func = "filter"
      /\ pc \in {"loop.cond", "loop.body"} => call.func = "filter_remaining"
  BY <1>f, LeftType DEF IInv, TypeOK
<1>1. CASE OuterloopCond \/ OuterloopBody \/ InnerloopCond \/ LoopCond
  <2>1. BytesLeft' = BytesLeft
    BY <1>1 DEF OuterloopCond, OuterloopBody, InnerloopCond, LoopCond, BytesLeft
  <2>2. BlocksLeft' < BlocksLeft
    BY <1>1, <1>w, <1>t DEF OuterloopCond, OuterloopBody, InnerloopCond, LoopCond, BlocksLeft
  <2>. QED  BY <2>1, <2>2 DEF UsesUp
<1>2. CASE InnerloopBody
  <2>1. j < W
    BY <1>2, <1>t DEF InnerloopBody, IInv, InFilter
  <2>2. j' = j + 1
    <3>1. j + 1 \in Nat /\ j + 1 < I8
      BY <2>1, <1>w, <1>t
    <3>2. (j + 1) % I8 = j + 1
      BY <3>1, <1>w, ModSmall, Zenon
    <3>. QED  BY <3>2, <1>2 DEF InnerloopBody
  <2>3. BytesLeft' = BytesLeft
    BY <1>2 DEF InnerloopBody, BytesLeft
  <2>4. pc = "innerloop.body" /\ pc' = "innerloop.cond"
    BY <1>2 DEF InnerloopBody
  <2>5. BlocksLeft' < BlocksLeft
    BY <2>1, <2>2, <2>4, <1>w, <1>t DEF BlocksLeft
  <2>. QED  BY <2>3, <2>5 DEF UsesUp
<1>3. CASE InnerloopEnd
  <2>1. call' = call /\ i' = i + 1 /\ call.func = "filter"
    BY <1>3, <1>t DEF InnerloopEnd
  <2>. QED  BY <2>1, <1>f, <1>t DEF BytesLeft, UsesUp
<1>4. CASE LoopBody
  <2>1. call.func = "filter_remaining" /\ i < call.len
    BY <1>4, <1>t DEF LoopBody, IInv
  <2>2. i' = i + 1
    <3>1. i + 1 \in Nat /\ i + 1 < I8
      BY <2>1, <1>w, <1>f, <1>t
    <3>2. (i + 1) % I8 = i + 1
      BY <3>1, <1>w, ModSmall, Zenon
    <3>. QED  BY <3>2, <1>4 DEF LoopBody
  <2>3. call' = call /\ call.func # "filter"
    BY <2>1, <1>4 DEF LoopBody
  <2>. QED  BY <2>2, <2>3, <1>f, <1>t DEF BytesLeft, UsesUp
<1>. QED  BY <1>1, <1>2, <1>3, <1>4 DEF Next

(***************************************************************************)
(* Why a generated function returns: no counter goes around its type, so   *)
(* every basic block leaves less to do than there was.                     *)
(***************************************************************************)
THEOREM EveryStepUsesUp ==
  Spec => [](BytesLeft \in Nat /\ BlocksLeft \in Nat) /\ [][UsesUp]_vars
<1>1. IInv => BytesLeft \in Nat /\ BlocksLeft \in Nat
  BY LeftType
<1>2. IInv /\ [Next]_vars => [UsesUp]_vars
  BY StepUsesUp
<1>. QED  BY Invariance, <1>1, <1>2, PTL DEF Spec
=============================================================================
