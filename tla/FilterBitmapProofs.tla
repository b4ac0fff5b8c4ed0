------------------------- MODULE FilterBitmapProofs -------------------------
(***************************************************************************)
(* Proofs about FilterBitmap, for every width of a byte, every modulus of  *)
(* the integer types above it, every set of chunk layouts and every        *)
(* comparison.  First arithmetic, then what each kernel call does, then    *)
(* the inductive invariant IInv and what follows from it.                  *)
(***************************************************************************)
EXTENDS FilterBitmap, TLAPS

-----------------------------------------------------------------------------
\* Division by the width of a byte: the bit a row has in its byte and the byte
\* it is in (the offset % 8 and offset / 8 of the code) determine the row.
LEMMA DivMod ==
  \A a \in Nat : /\ a \div W \in Nat
                 /\ a % W \in 0 .. W - 1
                 /\ a = W * (a \div W) + (a % W)
  BY WidthAssumption, Z3

\* The bit of a byte counts up from 0, whatever the sign of the difference.
LEMMA ModNat ==
  ASSUME NEW a \in Nat, NEW b \in Nat
  PROVE  a % W \in Nat /\ (W - (a % W)) % W \in Nat /\ (a - b) % W \in Nat
  BY WidthAssumption

\* A row q bytes and r bits into the bitmap is in byte q at bit r.
LEMMA DivUnique ==
  ASSUME NEW q \in Nat, NEW r \in 0 .. W - 1
  PROVE  (W * q + r) \div W = q /\ (W * q + r) % W = r
  BY WidthAssumption

\* The first row of byte q is its bit 0.
LEMMA ByteStart ==
  \A q \in Nat : (W * q + 0) % W = 0
<1>1. 0 \in 0 .. W - 1
  BY WidthAssumption
<1>. QED  BY <1>1, DivUnique, Zenon

\* remaining_bits, as execution.cpp:73 computes it, rounds up to the next byte.
LEMMA RoundUp ==
  \A a \in Nat : (W - (a % W)) % W = IF a % W = 0 THEN 0 ELSE W - (a % W)
  BY DivMod, WidthAssumption

\* A bit at or after the start of byte m is in byte m or a later one.
LEMMA DivMonotone ==
  \A m \in Nat, k \in Nat : k >= W * m => k \div W >= m
  BY DivMod, WidthAssumption

\* Bytes are numbered in row order.
LEMMA TimesMonotone ==
  \A a \in Nat, b \in Nat : a <= b => W * a <= W * b
  BY WidthAssumption, Z3

\* A value that fits its unsigned type is unchanged by the conversion ...
LEMMA ModSmall ==
  \A m \in Nat \ {0}, a \in Nat : a < m => a % m = a
  OBVIOUS

\* ... no conversion makes a value larger ...
LEMMA ModBelow ==
  \A m \in Nat \ {0}, a \in Nat : a % m \in Nat /\ a % m <= a
  OBVIOUS

\* ... and a difference below zero wraps.
LEMMA ModWrap ==
  \A m \in Nat \ {0}, a \in Nat, b \in Nat :
    a < b /\ b <= m => (a - b) % m = m + a - b
  OBVIOUS

-----------------------------------------------------------------------------
(***************************************************************************)
(* The call of the main pass on a chunk after s others starts on the byte  *)
(* boundary s + remaining_bits.                                            *)
(***************************************************************************)
LEMMA StartArithmetic ==
  ASSUME NEW s \in Nat,
         NEW rem, rem = (W - (s % W)) % W,
         NEW m, m = (s \div W) + (IF rem # 0 THEN 1 ELSE 0)
  PROVE  m \in Nat /\ rem \in 0 .. W - 1 /\ W * m = s + rem
<1>1. rem = IF s % W = 0 THEN 0 ELSE W - (s % W)
  BY RoundUp
<1>2. /\ s \div W \in Nat
      /\ s % W \in 0 .. W - 1
      /\ s = W * (s \div W) + (s % W)
  BY DivMod
<1>3. rem \in 0 .. W - 1
  BY <1>1, <1>2, WidthAssumption
<1>4. m \in Nat
  BY <1>2
<1>5. W * m = s + rem
  <2>1. CASE s % W = 0
    <3>1. rem = 0 /\ m = s \div W
      BY <2>1, <1>1, <1>2
    <3>2. s = W * m
      <4>1. W * (s \div W) \in Int
        BY <1>2, WidthAssumption
      <4>. QED  BY <2>1, <3>1, <1>2, <4>1
    <3>. QED  BY <3>1, <3>2
  <2>2. CASE s % W # 0
    <3>1. m = (s \div W) + 1
      BY <2>2, <1>1, <1>2, WidthAssumption
    <3>2. W * m = W * (s \div W) + W
      BY <3>1, <1>2, WidthAssumption
    <3>. QED  BY <3>2, <2>2, <1>1, <1>2, WidthAssumption
  <2>. QED  BY <2>1, <2>2
<1>. QED  BY <1>3, <1>4, <1>5

(***************************************************************************)
(* Unless its length wraps, the call of the main pass on a chunk of n rows *)
(* after s others ends on the last byte boundary of the chunk; if the      *)
(* length wraps it runs past the chunk.                                    *)
(***************************************************************************)
LEMMA ExecuteArithmetic ==
  \A s \in Nat, n \in Nat, rem \in 0 .. W - 1, m \in Nat :
    n < SizeT /\ W * m = s + rem =>
      LET cnt == W * (((n - rem) % SizeT) \div W)
      IN  /\ cnt \in Nat
          /\ n >= rem => /\ rem + cnt <= n
                         /\ s + rem + cnt = (s + n) - ((s + n) % W)
          /\ n < rem => rem + cnt > n
<1>. TAKE s \in Nat, n \in Nat, rem \in 0 .. W - 1, m \in Nat
<1>. HAVE n < SizeT /\ W * m = s + rem
<1>. DEFINE len == (n - rem) % SizeT
            cnt == W * (len \div W)
<1>1. len \in Nat /\ cnt = W * (len \div W)
  BY WidthAssumption
<1>. HIDE DEF len, cnt
<1>2. /\ len \div W \in Nat
      /\ len % W \in 0 .. W - 1
      /\ len = cnt + (len % W)
  BY <1>1, DivMod
<1>3. cnt \in Nat
  <2>1. len % W <= len
    BY <1>1, ModBelow, WidthAssumption
  <2>2. cnt = len - (len % W)
    <3>1. cnt \in Int
      BY <1>1, <1>2, WidthAssumption
    <3>. QED  BY <3>1, <1>1, <1>2
  <2>. QED  BY <2>1, <2>2, <1>1, <1>2
<1>4. ASSUME n >= rem
      PROVE  rem + cnt <= n /\ s + rem + cnt = (s + n) - ((s + n) % W)
  <2>1. len = n - rem
    <3>1. n - rem \in Nat /\ n - rem < SizeT /\ SizeT \in Nat \ {0}
      BY <1>4, WidthAssumption
    <3>. QED  BY <3>1, ModSmall, Zenon DEF len
  <2>2. s + n = W * m + W * (len \div W) + (len % W)
    BY <2>1, <1>1, <1>2, <1>3
  <2>3. s + n = W * (m + (len \div W)) + (len % W)
    BY <2>2, <1>2, WidthAssumption
  <2>4. (s + n) % W = len % W
    BY <2>3, <1>2, DivUnique
  <2>5. len = cnt + (len % W) /\ len % W \in Nat
    BY <1>2, WidthAssumption
  <2>. QED  BY <2>1, <2>4, <2>5, <1>3
<1>5. ASSUME n < rem
      PROVE  rem + cnt > n
  <2>1. len = SizeT + n - rem
    <3>1. rem \in Nat /\ rem <= SizeT /\ SizeT \in Nat \ {0}
      BY WidthAssumption
    <3>. QED  BY <1>5, <3>1, ModWrap, Zenon DEF len
  <2>. QED  BY <2>1, <1>2, <1>3, WidthAssumption
<1>. QED  BY <1>3, <1>4, <1>5 DEF cnt, len

(***************************************************************************)
(* The head call on a chunk of n rows after s others, s not on a byte      *)
(* boundary: it starts on row s, never leaves the chunk or the byte, and   *)
(* reaches the end of the byte if the cast length does.                    *)
(***************************************************************************)
LEMMA HeadArithmetic ==
  ASSUME NEW s \in Nat, NEW n \in Nat, s % W # 0,
         NEW byte_end, byte_end = (W - (s % W)) % U8,
         NEW chunk_end, chunk_end = (n - 0) % U8,
         NEW cnt, cnt = IF byte_end < chunk_end THEN byte_end ELSE chunk_end,
         NEW bit, bit = W * (s \div W) + (s % W)
  PROVE  /\ cnt \in Nat
         /\ bit = s
         /\ cnt <= n
         /\ (bit % W) + cnt <= W
         /\ n % U8 >= W - (s % W) => cnt = W - (s % W)
<1>1. /\ s \div W \in Nat
      /\ s % W \in 0 .. W - 1
      /\ s = W * (s \div W) + (s % W)
  BY DivMod
<1>2. bit = s
  BY <1>1
<1>3. byte_end = W - (s % W) /\ byte_end \in Nat
  BY <1>1, WidthAssumption, ModSmall
<1>4. chunk_end = n % U8 /\ chunk_end \in Nat /\ chunk_end <= n
  BY WidthAssumption, ModBelow
<1>. QED  BY <1>1, <1>2, <1>3, <1>4, WidthAssumption

(***************************************************************************)
(* The tail call on a chunk of n rows that ends at row e, inside a byte:   *)
(* it evaluates the rows of that byte up to e, unless the chunk is shorter *)
(* than that; then the array offset wraps to a row past the chunk.         *)
(***************************************************************************)
LEMMA TailArithmetic ==
  ASSUME NEW e \in Nat, NEW n \in Nat, e % W # 0,
         NEW fst, fst = (n - (e % W)) % SizeT,
         NEW byte_end, byte_end = (W - 0) % U8,
         NEW chunk_end, chunk_end = (n - fst) % U8,
         NEW cnt, cnt = IF fst = 0 /\ byte_end < chunk_end THEN byte_end ELSE chunk_end,
         NEW bit, bit = W * (e \div W) + 0,
         n < SizeT
  PROVE  /\ fst \in Nat
         /\ cnt \in Nat
         /\ bit = e - (e % W)
         /\ bit % W = 0
         /\ n >= e % W => fst = n - (e % W) /\ cnt = e % W
         /\ n < e % W => fst > n
<1>1. /\ e \div W \in Nat
      /\ e % W \in 0 .. W - 1
      /\ e = W * (e \div W) + (e % W)
  BY DivMod
<1>2. bit = e - (e % W)
  <2>1. W * (e \div W) \in Int
    BY <1>1, WidthAssumption
  <2>. QED  BY <1>1, <2>1
<1>3. bit % W = 0
  BY <1>1, ByteStart, Zenon
<1>4. byte_end = W
  BY WidthAssumption, ModSmall
<1>5. fst \in Nat
  BY <1>1, WidthAssumption
<1>6. chunk_end \in Nat
  BY <1>5, WidthAssumption
<1>7. ASSUME n >= e % W
      PROVE  fst = n - (e % W) /\ cnt = e % W
  <2>1. fst = n - (e % W)
    <3>1. n - (e % W) \in Nat /\ n - (e % W) < SizeT
      BY <1>1, <1>7, WidthAssumption
    <3>2. SizeT \in Nat \ {0}
      BY WidthAssumption
    <3>. QED  BY <3>1, <3>2, ModSmall, Zenon
  <2>2. chunk_end = e % W
    <3>1. n - fst = e % W /\ e % W \in Nat /\ e % W < U8
      BY <2>1, <1>1, WidthAssumption
    <3>. QED  BY <3>1, WidthAssumption, ModSmall
  <2>. QED  BY <2>1, <2>2, <1>4, <1>1
<1>8. ASSUME n < e % W
      PROVE  fst > n
  <2>1. fst = SizeT + n - (e % W)
    BY <1>1, <1>8, ModWrap, WidthAssumption
  <2>. QED  BY <2>1, <1>1, WidthAssumption
<1>. QED  BY <1>2, <1>3, <1>4, <1>5, <1>6, <1>7, <1>8, WidthAssumption

\* A chunk that ends at e, inside a byte it does not reach back to the start
\* of, is short: it started inside that byte.
LEMMA ShortAtTheEnd ==
  ASSUME NEW s \in Nat, NEW n \in Nat, n < (s + n) % W
  PROVE  s % W # 0 /\ n < W - (s % W)
<1>. DEFINE e == s + n
<1>1. /\ e \div W \in Nat
      /\ e % W \in 0 .. W - 1
      /\ e = W * (e \div W) + (e % W)
  BY DivMod
<1>2. (e % W) - n \in 0 .. W - 1
  BY <1>1, WidthAssumption
<1>3. s = W * (e \div W) + ((e % W) - n)
  <2>1. W * (e \div W) \in Int
    BY <1>1, WidthAssumption
  <2>. QED  BY <1>1, <2>1
<1>4. s % W = (e % W) - n
  <2>. HIDE DEF e
  <2>. QED  BY <1>1, <1>2, <1>3, DivUnique
<1>. QED  BY <1>1, <1>4, WidthAssumption

-----------------------------------------------------------------------------
\* What a layout gives the proofs: chunk c starts after the rows of the chunks
\* before it, its rows are rows of the table, and every row has a bit.
LEMMA LayoutFacts ==
  ASSUME TypeOK
  PROVE  /\ column.chunks \in Nat
         /\ Rows \in Nat
         /\ NumBytes \in Nat
         /\ Rows <= W * NumBytes
         /\ \A c \in Chunks : /\ column.start[c] \in Nat
                              /\ Length(c) \in Nat
                              /\ Length(c) < SizeT
                              /\ column.start[c + 1] = column.start[c] + Length(c)
                              /\ column.start[c + 1] <= Rows
<1>1. IsLayout(column)
  BY LayoutAssumption DEF TypeOK
<1>2. Rows \in Nat
  BY <1>1 DEF IsLayout, Rows
<1>3. NumBytes \in Nat /\ Rows <= W * NumBytes
  <2>1. Rows + W - 1 \in Nat
    BY <1>2, WidthAssumption
  <2>2. /\ (Rows + W - 1) \div W \in Nat
        /\ (Rows + W - 1) % W \in 0 .. W - 1
        /\ Rows + W - 1 = W * ((Rows + W - 1) \div W) + ((Rows + W - 1) % W)
    BY <2>1, DivMod
  <2>3. W * ((Rows + W - 1) \div W) \in Int
    BY <2>2, WidthAssumption
  <2>. QED  BY <1>2, <2>2, <2>3, WidthAssumption DEF NumBytes
<1>4. ASSUME NEW c \in Chunks
      PROVE  /\ column.start[c] \in Nat
             /\ Length(c) \in Nat
             /\ Length(c) < SizeT
             /\ column.start[c + 1] = column.start[c] + Length(c)
             /\ column.start[c + 1] <= Rows
  <2>1. /\ c \in 0 .. column.chunks
        /\ c + 1 \in 0 .. column.chunks
        /\ column.chunks \in 0 .. column.chunks
        /\ c <= c + 1 /\ c + 1 <= column.chunks
    BY <1>1 DEF IsLayout, Chunks
  <2>2. /\ column.start[c] \in Nat
        /\ column.start[c + 1] \in Nat
        /\ column.start[c] <= column.start[c + 1]
        /\ column.start[c + 1] <= Rows
        /\ Rows < SizeT
    BY <1>1, <2>1 DEF IsLayout, Rows
  <2>. QED  BY <2>2, <1>2, WidthAssumption DEF Length
<1>. QED  BY <1>1, <1>2, <1>3, <1>4 DEF IsLayout

(***************************************************************************)
(* Where each of the three calls lands, and when it is one with no effect  *)
(* defined: the main pass's and the tail's on a short chunk only, the      *)
(* head's never.                                                           *)
(***************************************************************************)
LEMMA ExecuteCallFacts ==
  ASSUME TypeOK, NEW c \in Chunks,
         NEW call, call = ExecuteCall(c),
         NEW rem, rem = (W - (column.start[c] % W)) % W
  PROVE  /\ call.first = rem
         /\ call.first \in Nat
         /\ call.count \in Nat
         /\ call.bit = column.start[c] + call.first
         /\ \E m \in Nat : call.bit = W * m
         /\ call.first + call.count <= Length(c)
              => call.bit + call.count = column.start[c + 1] - (column.start[c + 1] % W)
         /\ call.first + call.count <= Length(c) <=> ~ShortChunk(c)
<1>1. /\ column.start[c] \in Nat
      /\ Length(c) \in Nat
      /\ Length(c) < SizeT
      /\ column.start[c + 1] = column.start[c] + Length(c)
  BY LayoutFacts
<1>. DEFINE m   == (column.start[c] \div W) + (IF rem # 0 THEN 1 ELSE 0)
            cnt == W * (((Length(c) - rem) % SizeT) \div W)
<1>2. call.first = rem /\ call.count = cnt /\ call.bit = W * m
  BY DEF ExecuteCall
<1>3. m \in Nat /\ rem \in 0 .. W - 1 /\ W * m = column.start[c] + rem
  BY <1>1, StartArithmetic
<1>. HIDE DEF m
<1>4. /\ cnt \in Nat
      /\ Length(c) >= rem
           => /\ rem + cnt <= Length(c)
              /\ column.start[c] + rem + cnt
                   = (column.start[c] + Length(c)) - ((column.start[c] + Length(c)) % W)
      /\ Length(c) < rem => rem + cnt > Length(c)
  <2>1. PICK r \in 0 .. W - 1 : r = rem
    BY <1>3
  <2>2. W * m = column.start[c] + r
    BY <1>3, <2>1
  <2>. DEFINE k == W * (((Length(c) - r) % SizeT) \div W)
  <2>3. k = cnt
    BY <2>1
  <2>4. /\ k \in Nat
        /\ Length(c) >= r
             => /\ r + k <= Length(c)
                /\ column.start[c] + r + k
                     = (column.start[c] + Length(c)) - ((column.start[c] + Length(c)) % W)
        /\ Length(c) < r => r + k > Length(c)
    BY <1>1, <1>3, <2>2, ExecuteArithmetic, Zenon
  <2>. HIDE DEF k, cnt
  <2>. QED  BY <2>1, <2>3, <2>4, Zenon
<1>. HIDE DEF cnt
<1>5. ShortChunk(c) <=> Length(c) < rem
  <2>1. rem = IF column.start[c] % W = 0 THEN 0 ELSE W - (column.start[c] % W)
    BY <1>1, RoundUp
  <2>. QED  BY <2>1, <1>1, DivMod, WidthAssumption DEF ShortChunk
<1>6. rem \in Nat
  BY <1>3, WidthAssumption
<1>. QED  BY <1>1, <1>2, <1>3, <1>4, <1>5, <1>6

LEMMA HeadCallFacts ==
  ASSUME TypeOK, NEW c \in Chunks, column.start[c] % W # 0,
         NEW call,
         call = RemainingCall(c, column.start[c] \div W, 0, column.start[c] % W)
  PROVE  /\ call.first = 0
         /\ call.count \in Nat
         /\ call.bit = column.start[c]
         /\ call.count <= Length(c)
         /\ (call.bit % W) + call.count <= W
         /\ LayoutCovers => call.count = W - (column.start[c] % W)
<1>1. /\ column.start[c] \in Nat
      /\ Length(c) \in Nat
  BY LayoutFacts
<1>. DEFINE byte_end  == (W - (column.start[c] % W)) % U8
            chunk_end == (Length(c) - 0) % U8
            cnt == IF byte_end < chunk_end THEN byte_end ELSE chunk_end
            bit == W * (column.start[c] \div W) + (column.start[c] % W)
<1>2. call.first = 0 /\ call.count = cnt /\ call.bit = bit
  BY DEF RemainingCall
<1>3. /\ cnt \in Nat
      /\ bit = column.start[c]
      /\ cnt <= Length(c)
      /\ (bit % W) + cnt <= W
      /\ Length(c) % U8 >= W - (column.start[c] % W)
           => cnt = W - (column.start[c] % W)
  <2>. HIDE DEF byte_end, chunk_end, cnt, bit
  <2>. QED  BY <1>1, HeadArithmetic DEF byte_end, chunk_end, cnt, bit
<1>. HIDE DEF cnt, bit
<1>. QED  BY <1>2, <1>3 DEF LayoutCovers

LEMMA TailCallFacts ==
  ASSUME TypeOK, NEW c \in Chunks, column.start[c + 1] % W # 0,
         NEW call,
         call = RemainingCall(c, column.start[c + 1] \div W,
                              (Length(c) - (column.start[c + 1] % W)) % SizeT, 0)
  PROVE  /\ call.first \in Nat
         /\ call.count \in Nat
         /\ call.bit = column.start[c + 1] - (column.start[c + 1] % W)
         /\ call.first + call.count <= Length(c)
              => /\ call.bit = column.start[c] + call.first
                 /\ call.count = column.start[c + 1] % W
         /\ ~ShortChunk(c)
              => /\ call.first + call.count <= Length(c)
                 /\ (call.bit % W) + call.count <= W
<1>1. /\ column.start[c] \in Nat
      /\ Length(c) \in Nat
      /\ Length(c) < SizeT
      /\ column.start[c + 1] = column.start[c] + Length(c)
  BY LayoutFacts
<1>. DEFINE e == column.start[c + 1]
            fst == (Length(c) - (e % W)) % SizeT
            byte_end  == (W - 0) % U8
            chunk_end == (Length(c) - fst) % U8
            cnt == IF fst = 0 /\ byte_end < chunk_end THEN byte_end ELSE chunk_end
            bit == W * (e \div W) + 0
<1>2. call.first = fst /\ call.count = cnt /\ call.bit = bit
  BY DEF RemainingCall
<1>3. /\ fst \in Nat
      /\ cnt \in Nat
      /\ bit = e - (e % W)
      /\ bit % W = 0
      /\ Length(c) >= e % W => fst = Length(c) - (e % W) /\ cnt = e % W
      /\ Length(c) < e % W => fst > Length(c)
  <2>1. e \in Nat
    BY <1>1
  <2>. HIDE DEF e, fst, byte_end, chunk_end, cnt, bit
  <2>. QED  BY <1>1, <2>1, TailArithmetic DEF fst, byte_end, chunk_end, cnt, bit, e
<1>4. Length(c) < e % W => ShortChunk(c)
  BY <1>1, ShortAtTheEnd DEF ShortChunk
<1>5. e % W \in 0 .. W - 1 /\ e \in Nat
  BY <1>1, DivMod
<1>. HIDE DEF fst, cnt, bit
<1>6. call.first + call.count <= Length(c) => Length(c) >= e % W
  BY <1>1, <1>2, <1>3, <1>5, WidthAssumption
<1>7. ~ShortChunk(c) => Length(c) >= e % W
  BY <1>1, <1>4, <1>5, WidthAssumption
<1>8. Length(c) >= e % W => /\ call.first + call.count = Length(c)
                            /\ call.bit = column.start[c] + call.first
                            /\ call.count = e % W
                            /\ (call.bit % W) + call.count <= W
  <2>. HAVE Length(c) >= e % W
  <2>1. call.first = Length(c) - (e % W) /\ call.count = e % W
    BY <1>2, <1>3
  <2>2. e % W \in Nat /\ e % W < W
    BY <1>5, WidthAssumption
  <2>3. call.bit % W = 0 /\ call.bit = e - (e % W)
    BY <1>2, <1>3
  <2>4. e = column.start[c] + Length(c) /\ column.start[c] \in Nat /\ Length(c) \in Nat
    BY <1>1
  <2>5. call.first + call.count = Length(c) /\ call.bit = column.start[c] + call.first
    <3>. HIDE DEF e
    <3>. QED  BY <2>1, <2>2, <2>3, <2>4
  <2>6. (call.bit % W) + call.count <= W
    <3>. HIDE DEF e
    <3>. QED  BY <2>1, <2>2, <2>3, WidthAssumption
  <2>. QED  BY <2>1, <2>5, <2>6
<1>9. /\ call.first \in Nat
      /\ call.count \in Nat
      /\ call.bit = e - (e % W)
  BY <1>2, <1>3
<1>10. Length(c) \in Nat
  BY <1>1
<1>11. call.first + call.count <= Length(c)
         => call.bit = column.start[c] + call.first /\ call.count = e % W
  BY <1>6, <1>8, Zenon
<1>12. ~ShortChunk(c) => /\ call.first + call.count <= Length(c)
                        /\ (call.bit % W) + call.count <= W
  <2>. HAVE ~ShortChunk(c)
  <2>1. Length(c) >= e % W
    BY <1>7, Zenon
  <2>2. call.first + call.count = Length(c) /\ (call.bit % W) + call.count <= W
    BY <1>8, <2>1, Zenon
  <2>3. Length(c) <= Length(c)
    BY <1>10
  <2>. QED  BY <2>2, <2>3, Zenon
<1>. QED  BY <1>9, <1>11, <1>12, Zenon

-----------------------------------------------------------------------------
\* A call with a defined effect evaluates rows of its own chunk, each through
\* the bit of that row.
LEMMA CallAligned ==
  ASSUME TypeOK, OffsetTracks, CallPending, CallFits
  PROVE  /\ PendingCall.first \in Nat
         /\ PendingCall.count \in Nat
         /\ PendingCall.bit = column.start[chunk_num] + PendingCall.first
         /\ PendingCall.first + PendingCall.count <= Length(chunk_num)
<1>1. chunk_num \in Chunks
  BY DEF CallPending
<1>2. PendingCall.first + PendingCall.count <= Length(chunk_num)
  BY DEF CallFits
<1>3. CASE pc = "execute"
  <2>1. PendingCall = ExecuteCall(chunk_num)
    BY <1>3 DEF PendingCall
  <2>. QED  BY <1>1, <1>2, <2>1, ExecuteCallFacts
<1>4. CASE pc = "head"
  <2>1. /\ column.start[chunk_num] % W # 0
        /\ PendingCall = RemainingCall(chunk_num, column.start[chunk_num] \div W, 0,
                                       column.start[chunk_num] % W)
    BY <1>4 DEF PendingCall, CallPending, OffsetTracks
  <2>2. column.start[chunk_num] \in Nat
    BY <1>1, LayoutFacts
  <2>. QED  BY <1>1, <1>2, <2>1, <2>2, HeadCallFacts
<1>5. CASE pc = "tail"
  <2>1. /\ column.start[chunk_num + 1] % W # 0
        /\ PendingCall = RemainingCall(chunk_num, column.start[chunk_num + 1] \div W,
                             (Length(chunk_num) - (column.start[chunk_num + 1] % W)) % SizeT, 0)
    BY <1>5 DEF PendingCall, CallPending, OffsetTracks
  <2>. QED  BY <1>1, <1>2, <2>1, TailCallFacts
<1>. QED  BY <1>3, <1>4, <1>5 DEF CallPending

(***************************************************************************)
(* What a kernel call, or the lack of one, does to the bitmap: it only     *)
(* clears bits, only of rows that fail the comparison, and afterwards the  *)
(* rows it covered are evaluated.                                          *)
(***************************************************************************)
LEMMA KernelEffect ==
  ASSUME TypeOK, OffsetTracks, KernelCall
  PROVE  /\ bitmap' \in [Bits -> {0, 1}]
         /\ \A k \in Bits : bitmap'[k] = 1 => bitmap[k] = 1
         /\ \A k \in Bits : bitmap'[k] # bitmap[k]
              => /\ CallPending
                 /\ k \in PendingCall.bit .. PendingCall.bit + PendingCall.count - 1
                 /\ k < Rows
                 /\ k \notin match
         /\ CallPending
              => \A r \in PendingCall.bit .. PendingCall.bit + PendingCall.count - 1 :
                   r \in Bits /\ (bitmap'[r] = 1 => r \in match)
<1>1. CASE ~CallPending
  BY <1>1 DEF KernelCall, TypeOK
<1>2. CASE CallPending
  <2>. DEFINE c == chunk_num
              call == PendingCall
  <2>1. /\ c \in Chunks
        /\ CallFits
        /\ bitmap' = Apply(c, call)
    BY <1>2 DEF KernelCall, CallPending
  <2>2. /\ call.first \in Nat
        /\ call.count \in Nat
        /\ call.bit = column.start[c] + call.first
        /\ call.first + call.count <= Length(c)
    BY <1>2, <2>1, CallAligned
  <2>3. /\ Rows \in Nat
        /\ NumBytes \in Nat
        /\ Rows <= W * NumBytes
        /\ column.start[c] \in Nat
        /\ Length(c) \in Nat
        /\ column.start[c] + Length(c) <= Rows
    BY <2>1, LayoutFacts
  <2>4. ASSUME NEW k \in Bits
        PROVE  /\ k \in Int
               /\ bitmap'[k] = IF /\ k - call.bit \in 0 .. call.count - 1
                                  /\ ~Predicate(c, call.first + (k - call.bit))
                               THEN 0 ELSE bitmap[k]
    BY <2>1 DEF Apply, Bits
  <2>. HIDE DEF c, call
  <2>5. ASSUME NEW k \in Bits
        PROVE  /\ k - call.bit \in 0 .. call.count - 1
                    <=> k \in call.bit .. call.bit + call.count - 1
               /\ Predicate(c, call.first + (k - call.bit)) <=> k \in match
    <3>1. k \in Int
      BY <2>4
    <3>2. column.start[c] + (call.first + (k - call.bit)) = k
      BY <3>1, <2>2, <2>3
    <3>. QED  BY <3>1, <3>2, <2>2, <2>3 DEF Predicate
  <2>6. ASSUME NEW k \in Bits
        PROVE  bitmap'[k] = IF k \in call.bit .. call.bit + call.count - 1 /\ k \notin match
                            THEN 0 ELSE bitmap[k]
    BY <2>4, <2>5
  <2>7. bitmap \in [Bits -> {0, 1}]
    BY DEF TypeOK
  <2>8. bitmap' \in [Bits -> {0, 1}]
    <3>1. bitmap' = [k \in Bits |-> bitmap'[k]]
      BY <2>1 DEF Apply
    <3>. QED  BY <3>1, <2>6, <2>7
  <2>9. ASSUME NEW r \in call.bit .. call.bit + call.count - 1
        PROVE  r \in Bits /\ r < Rows
    <3>1. r \in Nat /\ r < Rows
      BY <2>2, <2>3
    <3>2. W * NumBytes \in Int
      BY <2>3, WidthAssumption
    <3>. QED  BY <3>1, <3>2, <2>3 DEF Bits
  <2>. QED  BY <1>2, <2>6, <2>7, <2>8, <2>9 DEF call
<1>. QED  BY <1>1, <1>2

\* A fault is a short chunk's: the head call always fits its chunk and byte.
LEMMA FaultIsShort ==
  ASSUME TypeOK, OffsetTracks, CallPending
  PROVE  /\ ~CallFits => ShortChunk(chunk_num)
         /\ pc = "execute" /\ CallFits => ~ShortChunk(chunk_num)
<1>. DEFINE c == chunk_num
<1>1. /\ c \in Chunks
      /\ Rows \in Nat
      /\ NumBytes \in Nat
      /\ Rows <= W * NumBytes
      /\ column.start[c] \in Nat
      /\ Length(c) \in Nat
      /\ column.start[c + 1] = column.start[c] + Length(c)
      /\ column.start[c + 1] <= Rows
  BY LayoutFacts DEF CallPending
<1>2. W * NumBytes \in Int
  BY <1>1, WidthAssumption
<1>3. ASSUME NEW call, call.first \in Nat, call.count \in Nat,
             call.bit = column.start[c] + call.first,
             call.first + call.count <= Length(c)
      PROVE  call.bit + call.count <= W * NumBytes
  BY <1>1, <1>2, <1>3
<1>4. CASE pc = "execute"
  <2>1. PendingCall = ExecuteCall(c)
    BY <1>4 DEF PendingCall
  <2>. QED  BY <1>1, <1>3, <1>4, <2>1, ExecuteCallFacts DEF CallFits
<1>5. CASE pc = "head"
  <2>1. /\ column.start[c] % W # 0
        /\ PendingCall = RemainingCall(c, column.start[c] \div W, 0, column.start[c] % W)
    BY <1>5 DEF PendingCall, CallPending, OffsetTracks
  <2>2. /\ PendingCall.first = 0
        /\ PendingCall.count \in Nat
        /\ PendingCall.bit = column.start[c]
        /\ PendingCall.count <= Length(c)
        /\ (PendingCall.bit % W) + PendingCall.count <= W
    BY <1>1, <2>1, HeadCallFacts
  <2>3. /\ PendingCall.bit = column.start[c] + PendingCall.first
        /\ PendingCall.first + PendingCall.count <= Length(c)
    BY <1>1, <2>2
  <2>4. PendingCall.first \in Nat
    BY <2>2
  <2>. QED  BY <1>3, <1>5, <2>2, <2>3, <2>4 DEF CallFits
<1>6. CASE pc = "tail"
  <2>1. /\ column.start[c + 1] % W # 0
        /\ PendingCall = RemainingCall(c, column.start[c + 1] \div W,
                                       (Length(c) - (column.start[c + 1] % W)) % SizeT, 0)
    BY <1>6 DEF PendingCall, CallPending, OffsetTracks
  <2>. QED  BY <1>1, <1>3, <1>6, <2>1, TailCallFacts DEF CallFits
<1>. QED  BY <1>4, <1>5, <1>6 DEF CallPending

-----------------------------------------------------------------------------
(***************************************************************************)
(* The inductive invariant holds at the start and is kept by every step.   *)
(***************************************************************************)
LEMMA InitIInv == Init => IInv
<1>. SUFFICES ASSUME Init PROVE IInv
  OBVIOUS
<1>1. IsLayout(column)
  BY LayoutAssumption DEF Init
<1>2. column.chunks \in Nat /\ Rows \in Nat
  BY <1>1 DEF IsLayout, Rows
<1>3. TypeOK
  BY <1>2 DEF Init, TypeOK
<1>4. NeverDropsMatch
  BY DEF Init, NeverDropsMatch
<1>5. MainPassDone = {}
  BY DEF Init, MainPassDone
<1>6. OffsetTracks /\ NoShortChunkPassed /\ BytesEvaluated /\ Frontier
  BY <1>5 DEF Init, OffsetTracks, NoShortChunkPassed, BytesEvaluated, Frontier
<1>. QED  BY <1>3, <1>4, <1>6 DEF IInv, Init

\* Bits are only ever cleared, so a row once evaluated stays evaluated, and a
\* call keeps the bitmap well-typed and drops no matching row.
LEMMA KernelKeeps ==
  ASSUME TypeOK, OffsetTracks, NeverDropsMatch, KernelCall, UNCHANGED <<column, match>>
  PROVE  /\ bitmap' \in [Bits -> {0, 1}]
         /\ NeverDropsMatch'
         /\ \A r \in Bits : Evaluated(r) => Evaluated(r)'
         /\ CallPending
              => \A r \in PendingCall.bit .. PendingCall.bit + PendingCall.count - 1 :
                   Evaluated(r)'
<1>1. Bits' = Bits /\ Rows' = Rows
  BY DEF Bits, NumBytes, Rows
<1>2. bitmap \in [Bits -> {0, 1}]
  BY DEF TypeOK
<1>3. bitmap' \in [Bits -> {0, 1}]
  BY KernelEffect
<1>4. NeverDropsMatch'
  <2>1. ASSUME NEW k \in Bits, bitmap'[k] = 0
        PROVE  k < Rows /\ k \notin match
    <3>1. CASE bitmap'[k] = bitmap[k]
      BY <2>1, <3>1 DEF NeverDropsMatch
    <3>2. CASE bitmap'[k] # bitmap[k]
      BY <3>2, KernelEffect
    <3>. QED  BY <3>1, <3>2
  <2>. QED  BY <1>1, <2>1 DEF NeverDropsMatch
<1>5. \A r \in Bits : bitmap'[r] = 1 => bitmap[r] = 1
  BY KernelEffect
<1>6. \A r \in Bits : Evaluated(r) => Evaluated(r)'
  BY <1>5 DEF Evaluated
<1>7. CallPending
        => \A r \in PendingCall.bit .. PendingCall.bit + PendingCall.count - 1 :
             bitmap'[r] = 1 => r \in match
  BY KernelEffect
<1>8. CallPending
        => \A r \in PendingCall.bit .. PendingCall.bit + PendingCall.count - 1 :
             Evaluated(r)'
  BY <1>7 DEF Evaluated
<1>. QED  BY <1>3, <1>4, <1>6, <1>8

\* Every row of the table has a bit.
LEMMA RowBits ==
  ASSUME TypeOK, NEW r \in 0 .. Rows - 1
  PROVE  r \in Bits
<1>1. Rows \in Nat /\ NumBytes \in Nat /\ Rows <= W * NumBytes
  BY LayoutFacts
<1>2. W * NumBytes \in Int
  BY <1>1, WidthAssumption
<1>. QED  BY <1>1, <1>2 DEF Bits

\* The rows of whole bytes of a chunk are rows of the table.
LEMMA InsideRows ==
  ASSUME TypeOK, NEW d \in Chunks, NEW r \in Inside(d)
  PROVE  r \in 0 .. Rows - 1 /\ r \in Bits
<1>1. /\ Rows \in Nat
      /\ NumBytes \in Nat
      /\ Rows <= W * NumBytes
      /\ column.start[d] \in Nat
      /\ column.start[d + 1] \in Nat
      /\ column.start[d + 1] <= Rows
  BY LayoutFacts
<1>2. /\ (W - (column.start[d] % W)) % W \in Nat
      /\ column.start[d + 1] % W \in Nat
  BY <1>1, ModNat
<1>3. r \in Nat /\ r < Rows
  BY <1>1, <1>2 DEF Inside
<1>. QED  BY <1>1, <1>3, RowBits

\* One iteration of the main pass.
LEMMA ExecuteKeepsIInv ==
  ASSUME IInv, Execute
  PROVE  IInv'
<1>. DEFINE c == chunk_num
<1>. USE DEF IInv
<1>1. /\ Rows' = Rows /\ Chunks' = Chunks /\ LayoutCovers' = LayoutCovers
      /\ Bits' = Bits
      /\ \A d : ShortChunk(d)' = ShortChunk(d) /\ Inside(d)' = Inside(d)
  BY DEF Execute, Rows, Chunks, LayoutCovers, ShortChunk, Length, Inside, Bits, NumBytes
<1>2. /\ CallPending
      /\ CallFits
      /\ c \in Chunks
      /\ pc = "execute" /\ pc' = "execute" /\ chunk_num' = c + 1
      /\ PendingCall = ExecuteCall(c)
  BY DEF Execute, CallPending, KernelCall, PendingCall
<1>3. /\ bitmap' \in [Bits -> {0, 1}]
      /\ NeverDropsMatch'
      /\ \A r \in Bits : Evaluated(r) => Evaluated(r)'
      /\ \A r \in PendingCall.bit .. PendingCall.bit + PendingCall.count - 1 : Evaluated(r)'
  BY <1>2, KernelKeeps DEF Execute
<1>4. /\ column.chunks \in Nat
      /\ Rows \in Nat
      /\ NumBytes \in Nat
      /\ Rows <= W * NumBytes
      /\ \A d \in Chunks : /\ column.start[d] \in Nat
                           /\ column.start[d + 1] \in Nat
                           /\ column.start[d + 1] <= Rows
  BY LayoutFacts
<1>5. TypeOK'
  <2>1. chunk_num' \in 0 .. column.chunks
    BY <1>2, <1>4 DEF Chunks
  <2>. QED  BY <1>1, <1>2, <1>3, <2>1 DEF TypeOK, Execute
<1>6. MainPassDone' = MainPassDone \cup {c}
  BY <1>2, <1>4 DEF MainPassDone, Chunks
<1>7. ~ShortChunk(c)
  BY <1>2, FaultIsShort
<1>8. NoShortChunkPassed'
  BY <1>1, <1>6, <1>7 DEF NoShortChunkPassed
<1>9. ASSUME LayoutCovers
      PROVE  BytesEvaluated'
  <2>1. \A r \in Inside(c) : Evaluated(r)'
    <3>. DEFINE lo == column.start[c] + ((W - (column.start[c] % W)) % W)
                hi == column.start[c + 1] - (column.start[c + 1] % W)
    <3>1. lo = PendingCall.bit /\ hi = PendingCall.bit + PendingCall.count
      BY <1>2, <1>7, ExecuteCallFacts
    <3>2. PendingCall.bit \in Nat /\ PendingCall.count \in Nat
      BY <1>2, <1>4, ExecuteCallFacts
    <3>3. Inside(c) = lo .. hi - 1
      BY DEF Inside
    <3>. HIDE DEF lo, hi
    <3>4. Inside(c) = PendingCall.bit .. PendingCall.bit + PendingCall.count - 1
      BY <3>1, <3>2, <3>3
    <3>. QED  BY <1>3, <3>4
  <2>2. ASSUME NEW d \in MainPassDone, NEW r \in Inside(d)
        PROVE  Evaluated(r)'
    <3>1. d \in Chunks
      BY <1>2, <1>4 DEF MainPassDone, Chunks
    <3>2. r \in Bits
      BY <3>1, InsideRows
    <3>. QED  BY <1>3, <1>9, <3>2 DEF BytesEvaluated
  <2>. QED  BY <1>1, <1>6, <2>1, <2>2 DEF BytesEvaluated
<1>10. Frontier' /\ OffsetTracks'
  BY <1>2 DEF Frontier, OffsetTracks
<1>. QED  BY <1>1, <1>2, <1>3, <1>5, <1>8, <1>9, <1>10

\* First half of an iteration of the remaining pass.
LEMMA ExecuteHeadKeepsIInv ==
  ASSUME IInv, ExecuteHead
  PROVE  IInv'
<1>. DEFINE c == chunk_num
            s == column.start[c]
            e == column.start[c + 1]
<1>. USE DEF IInv
<1>1. /\ Rows' = Rows /\ Chunks' = Chunks /\ LayoutCovers' = LayoutCovers
      /\ Bits' = Bits
      /\ \A d : ShortChunk(d)' = ShortChunk(d) /\ Inside(d)' = Inside(d)
  BY DEF ExecuteHead, Rows, Chunks, LayoutCovers, ShortChunk, Length, Inside, Bits, NumBytes
<1>2. /\ c \in Chunks
      /\ pc = "head" /\ pc' = "tail" /\ chunk_num' = c
      /\ offset = s
      /\ CallPending <=> s % W # 0
  BY DEF ExecuteHead, CallPending, OffsetTracks
<1>3. /\ column.chunks \in Nat
      /\ Rows \in Nat
      /\ NumBytes \in Nat
      /\ Rows <= W * NumBytes
      /\ s \in Nat /\ Length(c) \in Nat /\ e = s + Length(c) /\ e <= Rows
  BY <1>2, LayoutFacts
<1>4. /\ bitmap' \in [Bits -> {0, 1}]
      /\ NeverDropsMatch'
      /\ \A r \in Bits : Evaluated(r) => Evaluated(r)'
      /\ CallPending
           => \A r \in PendingCall.bit .. PendingCall.bit + PendingCall.count - 1 : Evaluated(r)'
  BY KernelKeeps DEF ExecuteHead
<1>5. offset' = e
  BY <1>2, <1>3 DEF ExecuteHead
<1>6. TypeOK'
  BY <1>1, <1>2, <1>3, <1>4, <1>5 DEF TypeOK, ExecuteHead
<1>7. OffsetTracks'
  BY <1>2, <1>5 DEF OffsetTracks, ExecuteHead
<1>8. MainPassDone' = Chunks /\ MainPassDone = Chunks
  BY <1>1, <1>2 DEF MainPassDone
<1>9. NoShortChunkPassed'
  BY <1>1, <1>8 DEF NoShortChunkPassed
<1>10. \A r \in 0 .. Rows - 1 : r \in Bits
  BY RowBits
<1>11. ASSUME LayoutCovers
       PROVE  BytesEvaluated'
  <2>1. ASSUME NEW d \in Chunks, NEW r \in Inside(d)
        PROVE  r \in Bits
    BY <2>1, InsideRows
  <2>. QED  BY <1>1, <1>4, <1>8, <1>11, <2>1 DEF BytesEvaluated
<1>12. ASSUME LayoutCovers
       PROVE  Frontier'
  <2>1. ASSUME NEW r \in 0 .. e - (e % W) - 1
        PROVE  Evaluated(r)'
    <3>1. e % W \in Nat
      BY <1>3, ModNat
    <3>2. r \in Nat /\ r < e - (e % W) /\ r \in Bits
      BY <1>3, <1>10, <3>1
    <3>3. CASE r < s
      BY <1>2, <1>3, <1>4, <1>12, <3>2, <3>3 DEF Frontier
    <3>4. CASE r >= s /\ r < s + ((W - (s % W)) % W)
      <4>1. s % W # 0 /\ (W - (s % W)) % W = W - (s % W)
        <5>1. (W - (s % W)) % W = IF s % W = 0 THEN 0 ELSE W - (s % W)
          BY <1>3, RoundUp
        <5>2. (W - (s % W)) % W # 0
          BY <1>3, <3>2, <3>4
        <5>. QED  BY <5>1, <5>2
      <4>2. PendingCall = RemainingCall(c, s \div W, 0, s % W)
        BY <1>2 DEF PendingCall
      <4>3. PendingCall.bit = s /\ PendingCall.count = W - (s % W)
        BY <1>2, <1>12, <4>1, <4>2, HeadCallFacts
      <4>4. r \in s .. s + (W - (s % W)) - 1
        <5>1. W - (s % W) \in Nat
          BY <1>3, <4>1, ModNat
        <5>. QED  BY <1>3, <3>2, <3>4, <4>1, <5>1
      <4>. QED  BY <1>2, <1>4, <4>1, <4>3, <4>4
    <3>5. CASE r >= s + ((W - (s % W)) % W)
      <4>1. (W - (s % W)) % W \in Nat
        BY <1>3, ModNat
      <4>2. r \in Inside(c)
        BY <1>3, <3>1, <3>2, <3>5, <4>1 DEF Inside
      <4>3. Evaluated(r)
        BY <1>2, <1>8, <1>12, <4>2 DEF BytesEvaluated
      <4>. QED  BY <1>4, <3>2, <4>3
    <3>6. (W - (s % W)) % W \in Nat
      BY <1>3, ModNat
    <3>. QED  BY <1>3, <3>2, <3>3, <3>4, <3>5, <3>6
  <2>. QED  BY <1>2, <1>5, <2>1 DEF Frontier
<1>. QED  BY <1>1, <1>2, <1>4, <1>6, <1>7, <1>9, <1>11, <1>12

\* Second half of an iteration of the remaining pass.
LEMMA ExecuteTailKeepsIInv ==
  ASSUME IInv, ExecuteTail
  PROVE  IInv'
<1>. DEFINE c == chunk_num
            e == column.start[c + 1]
<1>. USE DEF IInv
<1>1. /\ Rows' = Rows /\ Chunks' = Chunks /\ LayoutCovers' = LayoutCovers
      /\ Bits' = Bits
      /\ \A d : ShortChunk(d)' = ShortChunk(d) /\ Inside(d)' = Inside(d)
  BY DEF ExecuteTail, Rows, Chunks, LayoutCovers, ShortChunk, Length, Inside, Bits, NumBytes
<1>2. /\ c \in Chunks
      /\ pc = "tail" /\ pc' = "head" /\ chunk_num' = c + 1
      /\ offset = e /\ offset' = e
      /\ CallPending <=> e % W # 0
  BY DEF ExecuteTail, CallPending, OffsetTracks, TypeOK
<1>3. /\ column.chunks \in Nat
      /\ Rows \in Nat
      /\ NumBytes \in Nat
      /\ Rows <= W * NumBytes
      /\ column.start[c] \in Nat /\ Length(c) \in Nat
      /\ e = column.start[c] + Length(c) /\ e <= Rows
  BY <1>2, LayoutFacts
<1>4. /\ bitmap' \in [Bits -> {0, 1}]
      /\ NeverDropsMatch'
      /\ \A r \in Bits : Evaluated(r) => Evaluated(r)'
      /\ CallPending
           => \A r \in PendingCall.bit .. PendingCall.bit + PendingCall.count - 1 : Evaluated(r)'
  BY KernelKeeps DEF ExecuteTail
<1>5. TypeOK'
  <2>1. c + 1 \in 0 .. column.chunks
    BY <1>2, <1>3 DEF Chunks
  <2>. QED  BY <1>1, <1>2, <1>4, <2>1 DEF TypeOK, ExecuteTail
<1>6. OffsetTracks'
  BY <1>2 DEF OffsetTracks, ExecuteTail
<1>7. MainPassDone' = Chunks /\ MainPassDone = Chunks
  BY <1>1, <1>2 DEF MainPassDone
<1>8. NoShortChunkPassed'
  BY <1>1, <1>7 DEF NoShortChunkPassed
<1>9. ASSUME LayoutCovers
      PROVE  BytesEvaluated'
  <2>1. ASSUME NEW d \in Chunks, NEW r \in Inside(d)
        PROVE  r \in Bits
    BY <2>1, InsideRows
  <2>. QED  BY <1>1, <1>4, <1>7, <1>9, <2>1 DEF BytesEvaluated
<1>10. ASSUME LayoutCovers
       PROVE  Frontier'
  <2>1. ASSUME NEW r \in 0 .. e - 1
        PROVE  Evaluated(r)'
    <3>1. e % W \in Nat
      <4>1. e \in Nat
        BY <1>3
      <4>. QED  BY <4>1, ModNat
    <3>2. r \in Nat /\ r < e /\ r \in Bits
      BY <1>3, RowBits
    <3>3. CASE r < e - (e % W)
      BY <1>2, <1>3, <1>4, <1>10, <3>1, <3>2, <3>3 DEF Frontier
    <3>4. CASE r >= e - (e % W)
      <4>1. e % W # 0
        BY <1>3, <3>2, <3>4
      <4>2. CallPending /\ CallFits
        BY <1>2, <4>1 DEF ExecuteTail, KernelCall
      <4>3. PendingCall = RemainingCall(c, e \div W, (Length(c) - (e % W)) % SizeT, 0)
        BY <1>2 DEF PendingCall
      <4>4. PendingCall.bit = e - (e % W) /\ PendingCall.count = e % W
        BY <1>2, <4>1, <4>2, <4>3, TailCallFacts DEF CallFits
      <4>5. r \in PendingCall.bit .. PendingCall.bit + PendingCall.count - 1
        BY <1>3, <3>1, <3>2, <3>4, <4>4
      <4>. QED  BY <1>4, <4>2, <4>5
    <3>. QED  BY <1>3, <3>1, <3>2, <3>3, <3>4
  <2>. QED  BY <1>2, <2>1 DEF Frontier
<1>. QED  BY <1>1, <1>2, <1>4, <1>5, <1>6, <1>8, <1>9, <1>10

\* The steps that leave the bitmap alone.
LEMMA QuietStepKeepsIInv ==
  ASSUME IInv, EndMainPass \/ Finish \/ Fault \/ UNCHANGED vars
  PROVE  IInv'
<1>. USE DEF IInv
<1>1. /\ Rows' = Rows /\ Chunks' = Chunks /\ LayoutCovers' = LayoutCovers
      /\ Bits' = Bits
      /\ \A d : ShortChunk(d)' = ShortChunk(d) /\ Inside(d)' = Inside(d)
      /\ \A r : Evaluated(r)' = Evaluated(r)
      /\ bitmap' = bitmap /\ column' = column /\ match' = match
  BY DEF EndMainPass, Finish, Fault, vars, Rows, Chunks, LayoutCovers, ShortChunk, Length,
         Inside, Bits, NumBytes, Evaluated
<1>2. NeverDropsMatch'
  BY <1>1 DEF NeverDropsMatch
<1>3. column.chunks \in Nat /\ Rows \in Nat /\ column.start[0] = 0
  <2>1. IsLayout(column)
    BY LayoutAssumption DEF TypeOK
  <2>. QED  BY <2>1, LayoutFacts DEF IsLayout
<1>4. CASE EndMainPass
  <2>1. /\ pc = "execute" /\ pc' = "head"
        /\ chunk_num = column.chunks /\ chunk_num' = 0 /\ offset' = 0
    BY <1>4 DEF EndMainPass
  <2>2. TypeOK' /\ OffsetTracks' /\ Frontier'
    BY <1>1, <1>3, <2>1 DEF TypeOK, OffsetTracks, Frontier
  <2>3. MainPassDone' = Chunks /\ MainPassDone = Chunks
    BY <1>1, <2>1 DEF MainPassDone, Chunks
  <2>4. NoShortChunkPassed' /\ (LayoutCovers => BytesEvaluated')
    BY <1>1, <2>3 DEF NoShortChunkPassed, BytesEvaluated
  <2>. QED  BY <1>1, <1>2, <2>1, <2>2, <2>4
<1>5. CASE Finish
  <2>1. /\ pc = "head" /\ pc' = "done"
        /\ chunk_num = column.chunks /\ chunk_num' = chunk_num /\ offset' = offset
    BY <1>5 DEF Finish
  <2>2. TypeOK' /\ OffsetTracks'
    BY <1>1, <2>1 DEF TypeOK, OffsetTracks
  <2>3. MainPassDone' = Chunks /\ MainPassDone = Chunks
    BY <1>1, <2>1 DEF MainPassDone
  <2>4. NoShortChunkPassed' /\ (LayoutCovers => BytesEvaluated')
    BY <1>1, <2>3 DEF NoShortChunkPassed, BytesEvaluated
  <2>5. offset = Rows
    BY <2>1 DEF OffsetTracks, Rows
  <2>6. LayoutCovers => Frontier'
    BY <1>1, <2>1, <2>5 DEF Frontier
  <2>. QED  BY <1>1, <1>2, <2>1, <2>2, <2>4, <2>6
<1>6. CASE Fault
  <2>1. /\ pc' = "fault" /\ chunk_num' = chunk_num /\ offset' = offset
        /\ CallPending /\ ~CallFits
        /\ chunk_num \in Chunks
    BY <1>6 DEF Fault, CallPending
  <2>2. \E c \in Chunks : ShortChunk(c)
    BY <2>1, FaultIsShort
  <2>3. TypeOK' /\ OffsetTracks' /\ Frontier'
    BY <1>1, <2>1 DEF TypeOK, OffsetTracks, Frontier
  <2>4. MainPassDone' = {}
    BY <2>1 DEF MainPassDone
  <2>. QED  BY <1>1, <1>2, <2>2, <2>3, <2>4 DEF NoShortChunkPassed, BytesEvaluated
<1>7. CASE UNCHANGED vars
  <2>1. pc' = pc /\ chunk_num' = chunk_num /\ offset' = offset
    BY <1>7 DEF vars
  <2>2. MainPassDone' = MainPassDone
    BY <1>1, <2>1 DEF MainPassDone
  <2>3. TypeOK' /\ OffsetTracks'
    BY <1>1, <2>1 DEF TypeOK, OffsetTracks
  <2>4. NoShortChunkPassed' /\ (LayoutCovers => BytesEvaluated' /\ Frontier')
    BY <1>1, <2>1, <2>2 DEF NoShortChunkPassed, BytesEvaluated, Frontier
  <2>. QED  BY <1>1, <1>2, <2>1, <2>3, <2>4
<1>. QED  BY <1>4, <1>5, <1>6, <1>7

\* Every behaviour keeps the inductive invariant.
THEOREM Invariance == Spec => []IInv
<1>1. ASSUME IInv, [Next]_vars
      PROVE  IInv'
  BY <1>1, ExecuteKeepsIInv, ExecuteHeadKeepsIInv, ExecuteTailKeepsIInv, QuietStepKeepsIInv
     DEF Next
<1>. QED  BY InitIInv, <1>1, PTL DEF Spec

-----------------------------------------------------------------------------
(***************************************************************************)
(* Type correctness: the loop counter and the running offset of the two    *)
(* passes stay within the column, the bitmap keeps its size.               *)
(***************************************************************************)
THEOREM TypeCorrect == Spec => []TypeOK
<1>1. IInv => TypeOK
  BY DEF IInv
<1>. QED  BY Invariance, <1>1, PTL

(***************************************************************************)
(* On every layout, short chunks and truncated counts included, execute    *)
(* and execute_remaining clear only bits of rows that fail the comparison. *)
(***************************************************************************)
THEOREM NoMatchDropped == Spec => []NeverDropsMatch
<1>1. IInv => NeverDropsMatch
  BY DEF IInv
<1>. QED  BY Invariance, <1>1, PTL

(***************************************************************************)
(* On the layouts the two passes are written for, the bitmap visit leaves  *)
(* in m_buffer is the comparison on every row of the table.                *)
(***************************************************************************)
THEOREM BitmapCorrectness == Spec => []BitmapCorrect
<1>1. IInv => BitmapCorrect
  <2>. SUFFICES ASSUME IInv, LayoutCovers, pc = "done", NEW r \in 0 .. Rows - 1
                PROVE  bitmap[r] = 1 <=> r \in match
    BY DEF BitmapCorrect
  <2>1. TypeOK /\ NeverDropsMatch /\ Frontier
    BY DEF IInv
  <2>2. r \in Bits
    BY <2>1, RowBits
  <2>3. bitmap[r] = 1 => r \in match
    BY <2>1 DEF Frontier, Evaluated
  <2>4. r \in match => bitmap[r] = 1
    BY <2>1, <2>2 DEF NeverDropsMatch, TypeOK
  <2>. QED  BY <2>3, <2>4
<1>. QED  BY Invariance, <1>1, PTL

(***************************************************************************)
(* The subtraction length - offset wraps on a chunk that lies inside one   *)
(* byte it does not start, and on no other.                                *)
(***************************************************************************)
THEOREM FaultExactlyOnShortChunk == Spec => []FaultOnlyOnShortChunk
<1>1. IInv => FaultOnlyOnShortChunk
  <2>. SUFFICES ASSUME IInv PROVE FaultOnlyOnShortChunk
    OBVIOUS
  <2>1. pc = "done" => MainPassDone = Chunks
    BY DEF MainPassDone
  <2>. QED  BY <2>1 DEF IInv, FaultOnlyOnShortChunk, NoShortChunkPassed
<1>. QED  BY Invariance, <1>1, PTL

(***************************************************************************)
(* The calls of the main pass for different chunks change different bytes, *)
(* the independence the split of the passes is for.                        *)
(***************************************************************************)
THEOREM MainPassIndependent == Spec => MainPassStaysInChunk
<1>. DEFINE Inner == pc = "execute" =>
       \A k \in Bits : bitmap'[k] # bitmap[k] =>
         /\ column.start[chunk_num] <= W * (k \div W)
         /\ W * (k \div W) + W <= column.start[chunk_num + 1]
<1>1. ASSUME IInv, [Next]_vars
      PROVE  [Inner]_vars
  <2>. SUFFICES ASSUME pc = "execute", NEW k \in Bits, bitmap'[k] # bitmap[k]
                PROVE  /\ column.start[chunk_num] <= W * (k \div W)
                       /\ W * (k \div W) + W <= column.start[chunk_num + 1]
    OBVIOUS
  <2>1. Execute /\ TypeOK /\ OffsetTracks
    BY <1>1 DEF IInv, Next, EndMainPass, ExecuteHead, ExecuteTail, Finish, Fault, vars
  <2>2. /\ CallPending /\ CallFits
        /\ chunk_num \in Chunks
        /\ PendingCall = ExecuteCall(chunk_num)
        /\ k \in PendingCall.bit .. PendingCall.bit + PendingCall.count - 1
    BY <2>1, KernelEffect DEF Execute, KernelCall, PendingCall
  <2>. DEFINE e == column.start[chunk_num + 1]
  <2>3. /\ PendingCall.first \in Nat
        /\ PendingCall.count \in Nat
        /\ PendingCall.bit = column.start[chunk_num] + PendingCall.first
        /\ \E m \in Nat : PendingCall.bit = W * m
        /\ PendingCall.bit + PendingCall.count = e - (e % W)
    BY <2>1, <2>2, ExecuteCallFacts DEF CallFits
  <2>4. column.start[chunk_num] \in Nat /\ e \in Nat
    BY <2>1, <2>2, LayoutFacts
  <2>5. /\ k \in Nat
        /\ PendingCall.bit <= k
        /\ k < e - (e % W)
    <3>. HIDE DEF e
    <3>. QED  BY <2>2, <2>3, <2>4
  <2>. HIDE DEF e
  <2>6. column.start[chunk_num] <= W * (k \div W)
    <3>1. PICK m \in Nat : PendingCall.bit = W * m
      BY <2>3
    <3>2. m <= k \div W /\ k \div W \in Nat
      BY <3>1, <2>5, DivMonotone, DivMod
    <3>3. W * m <= W * (k \div W)
      BY <3>2, WidthAssumption
    <3>. QED  BY <2>3, <2>4, <3>1, <3>2, <3>3, WidthAssumption
  <2>7. W * (k \div W) + W <= e
    <3>1. PICK q \in Nat : q = k \div W /\ k = W * q + (k % W) /\ k % W \in 0 .. W - 1
      BY <2>5, DivMod
    <3>2. PICK d \in Nat : d = e \div W /\ e = W * d + (e % W) /\ e % W \in 0 .. W - 1
      BY <2>4, DivMod
    <3>3. W * q \in Nat /\ W * d \in Nat /\ e % W \in Nat /\ k % W \in Nat
      <4>1. \A a \in Nat : W * a \in Nat
        BY WidthAssumption, Z3
      <4>. QED  BY <2>4, <2>5, <4>1, ModNat
    <3>4. q < d
      <4>1. d <= q => W * d <= W * q
        BY TimesMonotone
      <4>. QED  BY <2>4, <2>5, <3>1, <3>2, <3>3, <4>1
    <3>5. W * (q + 1) <= W * d
      BY <3>4, TimesMonotone
    <3>6. W * (q + 1) = W * q + W
      BY WidthAssumption
    <3>7. W * q + W <= e
      BY <2>4, <3>2, <3>3, <3>5, <3>6, WidthAssumption
    <3>. QED  BY <3>1, <3>7
  <2>. QED  BY <2>6, <2>7 DEF e
<1>2. Spec => [][Inner]_vars
  BY Invariance, <1>1, PTL DEF Spec
<1>. QED  BY <1>2 DEF MainPassStaysInChunk

(***************************************************************************)
(* On a layout the two passes are written for, the visit implements the    *)
(* abstract filter: its steps strike out rows that fail the comparison or  *)
(* leave the selection alone, and it is done when the matching rows are    *)
(* left.                                                                   *)
(***************************************************************************)
THEOREM Refinement == Spec => ImplementsRowFilter
<1>1. Init => Filter!Init
  <2>. SUFFICES ASSUME Init PROVE Filter!Init
    OBVIOUS
  <2>1. TypeOK
    BY InitIInv DEF IInv
  <2>2. Rows \in Nat /\ match \subseteq 0 .. Rows - 1
    BY <2>1, LayoutFacts DEF TypeOK
  <2>3. Selected = 0 .. Rows - 1
    BY <2>1, RowBits DEF Init, Selected
  <2>4. (LayoutCovers /\ pc = "done") = FALSE
    BY DEF Init
  <2>. QED  BY <2>2, <2>3, <2>4 DEF Filter!Init
<1>2. ASSUME IInv, [Next]_vars
      PROVE  (LayoutCovers' <=> LayoutCovers) /\ Rows' = Rows /\ match' = match
  BY <1>2 DEF Next, Execute, EndMainPass, ExecuteHead, ExecuteTail, Finish, Fault, vars,
              LayoutCovers, Chunks, Length, Rows
<1>3. ASSUME IInv, LayoutCovers, [Next]_vars
      PROVE  [Filter!Next]_Filter!vars
  <2>1. TypeOK /\ OffsetTracks /\ NeverDropsMatch /\ Frontier
    BY <1>3 DEF IInv
  <2>2. LayoutCovers' /\ Rows' = Rows /\ match' = match
    BY <1>2, <1>3
  <2> DEFINE Set == {r \in 0 .. Rows - 1 : bitmap[r] = 1}
             finished == LayoutCovers /\ pc = "done"
  <2>3. Selected = Set /\ Selected' = Set'
    BY <1>3, <2>2 DEF Selected
  <2>4. finished = (pc = "done") /\ finished' = (pc' = "done")
    BY <1>3, <2>2
  <2>5. CASE Execute \/ ExecuteHead \/ ExecuteTail
    <3>1. KernelCall /\ pc # "done" /\ pc' # "done"
      BY <2>5 DEF Execute, ExecuteHead, ExecuteTail
    <3>2. finished = FALSE /\ finished' = FALSE
      BY <2>4, <3>1
    <3>3. ASSUME NEW r \in Set \ Set'
          PROVE  r \notin match
      <4>1. r \in Bits /\ bitmap[r] = 1 /\ bitmap'[r] # 1
        BY <2>1, <2>2, RowBits
      <4>. QED  BY <2>1, <3>1, <4>1, KernelEffect
    <3>4. Set' \subseteq Set
      BY <2>1, <2>2, <3>1, RowBits, KernelEffect
    <3> HIDE DEF Set
    <3>5. CASE Selected' = Selected
      BY <2>2, <3>2, <3>5 DEF Filter!vars, finished
    <3>6. CASE Selected' # Selected
      <4>1. Filter!StrikeOut
        BY <2>2, <2>3, <3>2, <3>3, <3>4, <3>6 DEF Filter!StrikeOut, finished
      <4>. QED  BY <4>1 DEF Filter!Next
    <3>. QED  BY <3>5, <3>6
  <2>6. CASE EndMainPass \/ Fault \/ UNCHANGED vars
    <3>1. Set' = Set /\ (pc' = "done") = (pc = "done")
      BY <2>2, <2>6 DEF EndMainPass, Fault, CallPending, vars
    <3>. QED  BY <2>2, <2>3, <2>4, <3>1 DEF Filter!vars
  <2>7. CASE Finish
    <3>1. offset = Rows /\ pc = "head" /\ pc' = "done" /\ bitmap' = bitmap
      BY <2>1, <2>7 DEF Finish, OffsetTracks, Rows
    <3>2. finished = FALSE /\ finished' = TRUE
      BY <2>4, <3>1
    <3>3. Set' = Set
      BY <2>2, <3>1
    <3>4. ASSUME NEW r \in 0 .. Rows - 1
          PROVE  bitmap[r] = 1 <=> r \in match
      <4>1. r \in Bits
        BY <2>1, RowBits
      <4>2. bitmap[r] = 1 => r \in match
        BY <2>1, <3>1 DEF Frontier, Evaluated
      <4>3. r \in match => bitmap[r] = 1
        BY <2>1, <4>1 DEF NeverDropsMatch, TypeOK
      <4>. QED  BY <4>2, <4>3
    <3>5. Selected = match
      BY <2>1, <2>3, <3>4 DEF TypeOK
    <3> HIDE DEF Set
    <3>6. Filter!HandOver
      BY <2>2, <2>3, <3>2, <3>3, <3>5 DEF Filter!HandOver, finished
    <3>. QED  BY <3>6 DEF Filter!Next
  <2>. QED  BY <1>3, <2>5, <2>6, <2>7 DEF Next
<1>4. ASSUME IInv, ~LayoutCovers, [Next]_vars
      PROVE  UNCHANGED Filter!vars
  <2>1. ~LayoutCovers' /\ Rows' = Rows /\ match' = match
    BY <1>2, <1>4
  <2>2. Selected' = Selected
    BY <1>4, <2>1 DEF Selected
  <2>3. (LayoutCovers /\ pc = "done") = FALSE /\ (LayoutCovers /\ pc = "done")' = FALSE
    BY <1>4, <2>1
  <2>. QED  BY <2>1, <2>2, <2>3 DEF Filter!vars
<1>5. IInv /\ [Next]_vars => [Filter!Next]_Filter!vars
  BY <1>3, <1>4
<1>. QED  BY <1>1, <1>5, Invariance, PTL DEF Spec, Filter!Spec, ImplementsRowFilter
-----------------------------------------------------------------------------
(***************************************************************************)
(* What visit still has to do: the passes, then the calls of the one in    *)
(* progress, two for a chunk of the remaining pass.                        *)
(***************************************************************************)
PassesLeft == CASE pc = "execute" -> 2 [] pc \in {"head", "tail"} -> 1 [] OTHER -> 0

CallsLeft == 2 * (column.chunks - chunk_num) + (IF pc = "head" THEN 1 ELSE 0)

\* The pair <<PassesLeft, CallsLeft>> goes down.
UsesUp ==
  \/ PassesLeft' < PassesLeft
  \/ PassesLeft' = PassesLeft /\ CallsLeft' < CallsLeft

(***************************************************************************)
(* Why visit ends, whatever the chunks: every step of either pass leaves   *)
(* less to do than there was, chunks without a call included.              *)
(***************************************************************************)
THEOREM EveryStepUsesUp ==
  Spec => [](PassesLeft \in Nat /\ CallsLeft \in Nat) /\ [][UsesUp]_vars
<1>1. ASSUME IInv
      PROVE  /\ column.chunks \in Nat /\ chunk_num \in 0 .. column.chunks
             /\ PassesLeft \in Nat /\ CallsLeft \in Nat
  <2>1. column.chunks \in Nat /\ chunk_num \in 0 .. column.chunks
    BY <1>1, LayoutFacts DEF IInv, TypeOK
  <2>. QED  BY <2>1 DEF PassesLeft, CallsLeft
<1>2. ASSUME IInv, [Next]_vars
      PROVE  [UsesUp]_vars
  <2>. SUFFICES ASSUME Next PROVE UsesUp
    BY <1>2
  <2>1. column.chunks \in Nat /\ chunk_num \in 0 .. column.chunks
    BY <1>1, <1>2
  <2>2. CASE Execute \/ ExecuteHead \/ ExecuteTail
    BY <2>1, <2>2 DEF Execute, ExecuteHead, ExecuteTail, UsesUp, PassesLeft, CallsLeft
  <2>3. CASE EndMainPass \/ Finish
    BY <2>3 DEF EndMainPass, Finish, UsesUp, PassesLeft
  <2>4. CASE Fault
    BY <2>4 DEF Fault, CallPending, UsesUp, PassesLeft
  <2>. QED  BY <2>2, <2>3, <2>4 DEF Next
<1>. QED  BY Invariance, <1>1, <1>2, PTL DEF Spec
=============================================================================
