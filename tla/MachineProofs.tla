--------------------------- MODULE MachineProofs ---------------------------
(***************************************************************************)
(* What a warp does with any program the assembler accepted, loaded from   *)
(* its file: it keeps to its code, to the sizes of its registers and to    *)
(* its memory, and it meets no instruction that faults for its operands.   *)
(***************************************************************************)
EXTENDS Machine, AssemblerProofs

----------------------------------------------------------------------------
(* Arithmetic on words gives words.                                        *)

\* The sizes of words, registers and memory.
LEMMA Sizes ==
  /\ WordMod \in Nat /\ WordMod >= 256 /\ Literal = 0..WordMod - 1 /\ Literal \subseteq Nat
  /\ LANES \in Nat /\ LANES > 0 /\ LANES <= 32 /\ WordBits \in 1..32
<1>1. WordMod \in Nat /\ Literal \subseteq Nat BY WordModFacts
<1>2. WordMod >= 256
  <2>1. CASE WordBits = 8 BY <2>1, 2^8 = 256 DEF WordMod
  <2>2. CASE WordBits = 16 BY <2>2, 2^16 = 65536 DEF WordMod
  <2>3. CASE WordBits = 32 BY <2>3, 2^32 = 4294967296 DEF WordMod
  <2> QED BY <2>1, <2>2, <2>3, WordBitsAssumption
<1> QED BY <1>1, <1>2, WordBitsAssumption, SizesAssumption DEF Literal

\* A power of two is twice the one before it.
LEMMA Doubling ==
  ASSUME NEW i \in 1..32
  PROVE  2^i = 2 * 2^(i - 1)
<1>1. CASE i = 1 BY ONLY <1>1
<1>2. CASE i = 2 BY ONLY <1>2
<1>3. CASE i = 3 BY ONLY <1>3
<1>4. CASE i = 4 BY ONLY <1>4
<1>5. CASE i = 5 BY ONLY <1>5
<1>6. CASE i = 6 BY ONLY <1>6
<1>7. CASE i = 7 BY ONLY <1>7
<1>8. CASE i = 8 BY ONLY <1>8
<1>9. CASE i = 9 BY ONLY <1>9
<1>10. CASE i = 10 BY ONLY <1>10
<1>11. CASE i = 11 BY ONLY <1>11
<1>12. CASE i = 12 BY ONLY <1>12
<1>13. CASE i = 13 BY ONLY <1>13
<1>14. CASE i = 14 BY ONLY <1>14
<1>15. CASE i = 15 BY ONLY <1>15
<1>16. CASE i = 16 BY ONLY <1>16
<1>17. CASE i = 17 BY ONLY <1>17
<1>18. CASE i = 18 BY ONLY <1>18
<1>19. CASE i = 19 BY ONLY <1>19
<1>20. CASE i = 20 BY ONLY <1>20
<1>21. CASE i = 21 BY ONLY <1>21
<1>22. CASE i = 22 BY ONLY <1>22
<1>23. CASE i = 23 BY ONLY <1>23
<1>24. CASE i = 24 BY ONLY <1>24
<1>25. CASE i = 25 BY ONLY <1>25
<1>26. CASE i = 26 BY ONLY <1>26
<1>27. CASE i = 27 BY ONLY <1>27
<1>28. CASE i = 28 BY ONLY <1>28
<1>29. CASE i = 29 BY ONLY <1>29
<1>30. CASE i = 30 BY ONLY <1>30
<1>31. CASE i = 31 BY ONLY <1>31
<1>32. CASE i = 32 BY ONLY <1>32
<1> QED
  BY <1>1, <1>2, <1>3, <1>4, <1>5, <1>6, <1>7, <1>8, <1>9, <1>10, <1>11,
   <1>12, <1>13, <1>14, <1>15, <1>16, <1>17, <1>18, <1>19, <1>20, <1>21,
   <1>22, <1>23, <1>24, <1>25, <1>26, <1>27, <1>28, <1>29, <1>30, <1>31,
   <1>32

\* The powers of two that fit a word.
LEMMA Powers == \A i \in 0..32 : 2^i \in Nat /\ 2^i > 0
<1> DEFINE T == {i \in Nat : 2^i \in Nat /\ 2^i > 0}
<1>1. 0 \in T BY 2^0 = 1
<1>2. ASSUME NEW n \in 1..32, n - 1 \in T PROVE n \in T
  <2>1. 2^n = 2 * 2^(n - 1) BY Doubling
  <2>2. PICK p : p = 2^(n - 1) OBVIOUS
  <2>3. p \in Nat /\ p > 0 BY <1>2, <2>2
  <2>4. 2 * p \in Nat /\ 2 * p > 0 BY ONLY <2>3
  <2> QED BY <2>1, <2>2, <2>4
<1> HIDE DEF T
<1>3. \A n \in 0..32 : n \in T
  <2>1. \A n \in 1..32 : n - 1 \in T => n \in T BY <1>2
  <2> QED BY ONLY <1>1, <2>1, 32 \in Nat, Induction
<1> QED BY <1>3 DEF T

\* A function can be defined by its first value and a step.
Steps(N, Vals, a, F) == N \in Nat /\ a \in Vals /\ F \in [Vals \X (1..N) -> Vals]
Repeated(g, N, Vals, a, F) == g \in [0..N -> Vals] /\ g[0] = a /\ \A n \in 1..N : g[n] = F[<<g[n - 1], n>>]
LEMMA Recursion ==
  ASSUME NEW N, NEW Vals, NEW a, NEW F, Steps(N, Vals, a, F)
  PROVE  \E g : Repeated(g, N, Vals, a, F)
<1>0. N \in Nat /\ a \in Vals /\ F \in [Vals \X (1..N) -> Vals] BY DEF Steps
<1> DEFINE Upto(g, n) == g \in [0..n -> Vals] /\ g[0] = a /\ \A k \in 1..n : g[k] = F[<<g[k - 1], k>>]
           T == {n \in Nat : \E g : Upto(g, n)}
<1>1. 0 \in T
  <2>1. Upto([k \in 0..0 |-> a], 0) BY <1>0
  <2> QED BY <2>1
<1>2. ASSUME NEW n \in 1..N, n - 1 \in T PROVE n \in T
  <2>1. PICK g : Upto(g, n - 1) BY <1>2
  <2>2. n \in Nat /\ n >= 1 /\ n - 1 \in 0..n - 1 /\ n \in 1..N BY <1>0
  <2>3. PICK next : next = F[<<g[n - 1], n>>] OBVIOUS
  <2>4. next \in Vals BY <1>0, <2>1, <2>2, <2>3
  <2>5. PICK h : h = [k \in 0..n |-> IF k = n THEN next ELSE g[k]] OBVIOUS
  <2>6. \A k \in 0..n - 1 : h[k] = g[k] /\ g[k] \in Vals BY ONLY <2>1, <2>2, <2>5
  <2>7. h[n] = next BY ONLY <2>2, <2>5
  <2>8. h \in [0..n -> Vals]
    <3>1. \A k \in 0..n : k = n \/ k \in 0..n - 1 BY ONLY <2>2
    <3>2. \A k \in 0..n : h[k] \in Vals BY ONLY <2>4, <2>6, <2>7, <3>1
    <3> QED BY ONLY <2>5, <3>2
  <2>9. h[0] = a BY ONLY <2>1, <2>2, <2>6
  <2>10. ASSUME NEW k \in 1..n PROVE h[k] = F[<<h[k - 1], k>>]
    <3>1. k - 1 \in 0..n - 1 /\ h[k - 1] = g[k - 1] BY ONLY <2>2, <2>6, k \in 1..n
    <3>2. CASE k = n BY ONLY <2>3, <2>7, <3>1, <3>2
    <3>3. CASE k # n
      <4>1. k \in 1..n - 1 /\ k \in 0..n - 1 BY ONLY <2>2, <3>3, k \in 1..n
      <4> QED BY ONLY <2>1, <2>6, <3>1, <4>1
    <3> QED BY ONLY <3>2, <3>3
  <2>11. Upto(h, n) BY ONLY <2>8, <2>9, <2>10
  <2> QED BY <2>2, <2>11
<1> HIDE DEF T
<1>3. \A n \in 0..N : n \in T
  <2>1. \A n \in 1..N : n - 1 \in T => n \in T BY <1>2
  <2> QED BY ONLY <1>0, <1>1, <2>1, Induction
<1>4. N \in T BY <1>0, <1>3
<1> QED BY <1>4 DEF T, Repeated

\* A sum of bits is a word, whatever the bits.
LEMMA BitSumWord ==
  ASSUME NEW f, \A i \in 0..WordBits - 1 : f[i] \in {0, 1}
  PROVE  BitSum(f) \in Literal
<1> DEFINE B == WordBits
           Sums(g) == g = [i \in 0..B |-> IF i = 0 THEN 0 ELSE g[i - 1] + 2^(i - 1) * f[i - 1]]
           sum == CHOOSE g : Sums(g)
<1>1. BitSum(f) = sum[B] BY DEF BitSum
<1>2. B \in 1..32 /\ B \in Nat BY Sizes
<1>3. 2^B = WordMod BY DEF WordMod
<1> HIDE DEF B
<1>4. \A i \in 1..B : i - 1 \in 0..B - 1 /\ f[i - 1] \in {0, 1} /\ 2^(i - 1) \in Nat /\ 2^i = 2 * 2^(i - 1)
  <2> SUFFICES ASSUME NEW i \in 1..B
               PROVE  i - 1 \in 0..B - 1 /\ f[i - 1] \in {0, 1} /\ 2^(i - 1) \in Nat /\ 2^i = 2 * 2^(i - 1)
    OBVIOUS
  <2>1. i - 1 \in 0..B - 1 /\ i \in 1..32 /\ i - 1 \in 0..32 BY <1>2
  <2> QED BY <2>1, Powers, Doubling DEF B
<1>5. \E g : Sums(g)
  <2> DEFINE F == [x \in Nat \X (1..B) |-> x[1] + 2^(x[2] - 1) * f[x[2] - 1]]
  <2>1. ASSUME NEW x \in Nat, NEW i \in 1..B PROVE x + 2^(i - 1) * f[i - 1] \in Nat
    <3>1. f[i - 1] \in {0, 1} /\ 2^(i - 1) \in Nat BY <1>4
    <3>2. PICK p : p = 2^(i - 1) OBVIOUS
    <3>3. PICK b : b = f[i - 1] OBVIOUS
    <3>4. x + p * b \in Nat BY ONLY <3>1, <3>2, <3>3, x \in Nat
    <3> QED BY <3>2, <3>3, <3>4
  <2>2. F \in [Nat \X (1..B) -> Nat] BY <2>1
  <2>3. \A x \in Nat, i \in 1..B : F[<<x, i>>] = x + 2^(i - 1) * f[i - 1] OBVIOUS
  <2> HIDE DEF F
  <2>10. Steps(B, Nat, 0, F) BY ONLY <1>2, <2>2 DEF Steps
  <2>11. PICK g : Repeated(g, B, Nat, 0, F) BY ONLY <2>10, Recursion
  <2>4. g \in [0..B -> Nat] /\ g[0] = 0 /\ \A i \in 1..B : g[i] = F[<<g[i - 1], i>>] BY <2>11 DEF Repeated
  <2>5. ASSUME NEW i \in 0..B PROVE g[i] = IF i = 0 THEN 0 ELSE g[i - 1] + 2^(i - 1) * f[i - 1]
    <3>1. CASE i = 0 BY <2>4, <3>1
    <3>2. CASE i # 0
      <4>1. i \in 1..B /\ i - 1 \in 0..B BY <1>2, <3>2
      <4>2. g[i - 1] \in Nat BY <2>4, <4>1
      <4> QED BY <2>3, <2>4, <3>2, <4>1, <4>2
    <3> QED BY <3>1, <3>2
  <2>6. g = [i \in 0..B |-> g[i]] BY <2>4
  <2>7. Sums(g) BY ONLY <2>5, <2>6
  <2> QED BY <2>7
<1>6. Sums(sum) BY <1>5
<1> HIDE DEF sum
<1>7. \A i \in 0..B : sum[i] = IF i = 0 THEN 0 ELSE sum[i - 1] + 2^(i - 1) * f[i - 1] BY ONLY <1>6
<1> DEFINE T == {i \in Nat : sum[i] \in 0..2^i - 1}
<1>8. 0 \in T
  <2>1. sum[0] = 0 BY <1>2, <1>7
  <2> QED BY <2>1, 2^0 = 1
<1>9. ASSUME NEW i \in 1..B, i - 1 \in T PROVE i \in T
  <2>1. PICK p : p = 2^(i - 1) OBVIOUS
  <2>2. PICK b : b = f[i - 1] OBVIOUS
  <2>3. PICK x : x = sum[i - 1] OBVIOUS
  <2>4. p \in Nat /\ b \in {0, 1} /\ x \in 0..p - 1 /\ 2^i = 2 * p BY <1>4, <1>9, <2>1, <2>2, <2>3
  <2>5. sum[i] = x + p * b
    <3>1. i \in 0..B /\ i # 0 BY <1>2
    <3> QED BY ONLY <1>7, <2>1, <2>2, <2>3, <3>1
  <2>6. x + p * b \in 0..2 * p - 1 BY ONLY <2>4
  <2>7. sum[i] \in 0..2^i - 1 BY ONLY <2>4, <2>5, <2>6
  <2> QED BY <1>2, <2>7
<1> HIDE DEF T
<1>10. \A i \in 0..B : i \in T
  <2>1. \A i \in 1..B : i - 1 \in T => i \in T BY <1>9
  <2> QED BY ONLY <1>2, <1>8, <2>1, Induction
<1>11. sum[B] \in 0..2^B - 1 BY <1>2, <1>10 DEF T
<1> QED BY <1>1, <1>3, <1>11, Sizes

\* A quotient is no larger than the dividend, a remainder less than the divisor.
LEMMA Quotient ==
  ASSUME NEW a \in Nat, NEW b \in Nat, b # 0
  PROVE  a \div b \in 0..a /\ a % b \in 0..b - 1
<1> DEFINE q == a \div b
           r == a % b
<1>1. q \in Int /\ r \in 0..b - 1 /\ a = b * q + r OBVIOUS
<1> HIDE DEF q, r
<1>2. CASE q < 0
  <2>1. b * (q + 1) <= 0 BY <1>1, <1>2
  <2>2. b * q + b <= 0 BY <1>1, <2>1
  <2> QED BY <1>1, <2>2
<1>3. CASE q >= 0
  <2>1. (b - 1) * q >= 0 BY <1>1, <1>3
  <2>2. b * q >= q BY <1>1, <2>1
  <2>3. q \in 0..a BY <1>1, <1>3, <2>2
  <2> QED BY <1>1, <2>3 DEF q, r
<1> QED BY <1>1, <1>2, <1>3

\* The product of two words, built from halves, is a word.
LEMMA TimesWord == \A a, b \in Nat : Times(a, b) \in Literal
<1> SUFFICES ASSUME NEW a \in Nat, NEW b \in Nat PROVE Times(a, b) \in Literal
  OBVIOUS
<1>1. PICK h : h = 2^(WordBits \div 2) OBVIOUS
<1>2. h \in Nat /\ h > 0
  <2>1. WordBits \div 2 \in 0..32 BY WordBitsAssumption
  <2> QED BY <1>1, <2>1, Powers
<1>3. PICK x : x = b % h OBVIOUS
<1>4. PICK y : y = (a * (b \div h)) % h OBVIOUS
<1>5. x \in Int /\ y \in Int
  <2>1. b \div h \in Int BY ONLY <1>2, b \in Nat
  <2>2. a * (b \div h) \in Int BY ONLY <2>1, a \in Nat
  <2> QED BY ONLY <1>2, <1>3, <1>4, <2>2, b \in Nat
<1>6. a * x \in Int /\ h * y \in Int BY ONLY <1>2, <1>5, a \in Nat
<1>7. a * x + h * y \in Int BY ONLY <1>6
<1>8. Times(a, b) = Wrap(a * x + h * y) BY ONLY <1>1, <1>3, <1>4 DEF Times
<1> QED BY ONLY <1>7, <1>8, WordModFacts

\* A shift distance, and two to it.
LEMMA Shift == \A n \in Nat : 2^(n % WordBits) \in Nat /\ 2^(n % WordBits) # 0
<1> SUFFICES ASSUME NEW n \in Nat PROVE 2^(n % WordBits) \in Nat /\ 2^(n % WordBits) # 0
  OBVIOUS
<1>1. PICK p : p = 2^(n % WordBits) OBVIOUS
<1>2. n % WordBits \in 0..32 BY Sizes
<1>3. p \in Nat /\ p > 0 BY ONLY <1>1, <1>2, Powers
<1>4. p # 0 BY ONLY <1>3
<1> QED BY ONLY <1>1, <1>3, <1>4

\* The bitwise operators take bits of one word each.
LEMMA BitwiseWord == \A a, b, sums : Bitwise2(a, b, sums) \in Literal
<1> SUFFICES ASSUME NEW a, NEW b, NEW sums PROVE Bitwise2(a, b, sums) \in Literal
  OBVIOUS
<1>1. PICK f : f = [i \in 0..WordBits - 1 |-> Flag(Bit(a, i) + Bit(b, i) \in sums)] OBVIOUS
<1>2. \A i \in 0..WordBits - 1 : f[i] \in {0, 1} BY ONLY <1>1 DEF Flag
<1>3. Bitwise2(a, b, sums) = BitSum(f) BY ONLY <1>1 DEF Bitwise2
<1> QED BY ONLY <1>2, <1>3, BitSumWord

\* What each operator of C makes of two words.
Arithmetic == {"+", "-", "*", "/", "%", "&", "|", "^", "<<", ">>"}
LEMMA OperatorWord ==
  ASSUME NEW op \in Arithmetic, NEW a \in Literal, NEW b \in Literal, op \in {"/", "%"} => b # 0
  PROVE  COp(op, FALSE, a, b) \in Literal
<1>1. a \in Nat /\ b \in Nat /\ a <= WordMod - 1 /\ b <= WordMod - 1 /\ WordMod \in Nat /\ Literal = 0..WordMod - 1
  BY Sizes
<1>2. CASE op = "+" BY ONLY <1>1, <1>2, WordModFacts, a + b \in Int DEF COp
<1>3. CASE op = "-" BY ONLY <1>1, <1>3, WordModFacts, a - b \in Int DEF COp
<1>4. CASE op = "*" BY ONLY <1>1, <1>4, TimesWord DEF COp
<1>5. CASE op = "/"
  <2>1. COp(op, FALSE, a, b) = a \div b BY ONLY <1>5 DEF COp
  <2>2. a \div b \in 0..a BY ONLY <1>1, <1>5, op \in {"/", "%"} => b # 0, Quotient
  <2>3. PICK q : q = a \div b OBVIOUS
  <2>4. q \in 0..WordMod - 1 BY ONLY <1>1, <2>2, <2>3
  <2> QED BY ONLY <1>1, <2>1, <2>3, <2>4
<1>6. CASE op = "%"
  <2>1. COp(op, FALSE, a, b) = a % b BY ONLY <1>6 DEF COp
  <2>2. a % b \in 0..b - 1 BY ONLY <1>1, <1>6, op \in {"/", "%"} => b # 0, Quotient
  <2>3. PICK q : q = a % b OBVIOUS
  <2>4. q \in 0..WordMod - 1 BY ONLY <1>1, <2>2, <2>3
  <2> QED BY ONLY <1>1, <2>1, <2>3, <2>4
<1>7. CASE op = "&" BY ONLY <1>7, BitwiseWord DEF COp, And
<1>8. CASE op = "|" BY ONLY <1>8, BitwiseWord DEF COp, Or
<1>9. CASE op = "^" BY ONLY <1>9, BitwiseWord DEF COp, Xor
<1>10. CASE op = "<<"
  <2>1. COp(op, FALSE, a, b) = Times(a, 2^(b % WordBits)) BY ONLY <1>10 DEF COp, Shl
  <2> QED BY ONLY <1>1, <2>1, Shift, TimesWord
<1>11. CASE op = ">>"
  <2>1. PICK p : p = 2^(b % WordBits) OBVIOUS
  <2>2. COp(op, FALSE, a, b) = a \div p BY ONLY <1>11, <2>1 DEF COp, Shr
  <2>3. p \in Nat /\ p # 0 BY ONLY <1>1, <2>1, Shift
  <2>4. a \div p \in 0..a BY ONLY <1>1, <2>3, Quotient
  <2>5. PICK q : q = a \div p OBVIOUS
  <2>6. q \in 0..WordMod - 1 BY ONLY <1>1, <2>4, <2>5
  <2> QED BY ONLY <1>1, <2>2, <2>5, <2>6
<1> QED BY <1>2, <1>3, <1>4, <1>5, <1>6, <1>7, <1>8, <1>9, <1>10, <1>11 DEF Arithmetic

\* Arithmetic of a lane.
LEMMA AluWord ==
  ASSUME NEW op \in AluNames \cup RegisterOnly, NEW a \in Literal, NEW b \in Literal
  PROVE  AluResult(op, a, b) \in Literal
<1>1. CASE op \in {"MIN", "MAX"} BY <1>1 DEF AluResult
<1>2. CASE op \in {"DIV", "MOD"} /\ b = 0 BY <1>2, Sizes DEF AluResult
<1>3. CASE op \notin {"MIN", "MAX"} /\ ~(op \in {"DIV", "MOD"} /\ b = 0)
  <2>1. AluResult(op, a, b) = COp(Alu[op], FALSE, a, b) BY <1>3 DEF AluResult
  <2>2. Alu[op] \in Arithmetic /\ (Alu[op] \in {"/", "%"} => b # 0)
    BY <1>3 DEF Alu, Arithmetic, AluNames, RegisterOnly
  <2> QED BY ONLY <2>1, <2>2, a \in Literal, b \in Literal, OperatorWord
<1> QED BY <1>1, <1>2, <1>3

\* Two words join in a reduction to a word, and so do those of all lanes.
LEMMA JoinedWord ==
  ASSUME NEW op \in Reductions, NEW a \in Literal, NEW b \in Literal
  PROVE  Joined(op, a, b) \in Literal
<1>1. a + b \in Int BY Sizes
<1>2. Wrap(a + b) \in Literal BY ONLY <1>1, WordModFacts
<1>3. And(a, b) \in Literal /\ Or(a, b) \in Literal /\ Xor(a, b) \in Literal BY ONLY BitwiseWord DEF And, Or, Xor
<1> QED BY ONLY <1>2, <1>3, op \in Reductions, a \in Literal, b \in Literal DEF Joined, Reductions

LEMMA ReducedWord ==
  ASSUME NEW op \in Reductions, NEW f \in [Lanes -> Literal]
  PROVE  Reduced(op, f) \in Literal
<1> DEFINE Upto(g) == g = [l \in Lanes |-> IF l = 0 THEN f[0] ELSE Joined(op, g[l - 1], f[l])]
           upto == CHOOSE g : Upto(g)
           N == LANES - 1
<1>1. Reduced(op, f) = upto[N] BY DEF Reduced
<1>2. N \in Nat /\ Lanes = 0..N BY Sizes DEF Lanes
<1> HIDE DEF N
<1>3. \A l \in 1..N : l \in Lanes /\ l - 1 \in Lanes /\ l # 0 BY ONLY <1>2
<1>4. \E g : Upto(g)
  <2> DEFINE F == [x \in Literal \X (1..N) |-> Joined(op, x[1], f[x[2]])]
  <2>1. F \in [Literal \X (1..N) -> Literal] BY <1>3, JoinedWord
  <2>2. \A x \in Literal, l \in 1..N : F[<<x, l>>] = Joined(op, x, f[l]) OBVIOUS
  <2> HIDE DEF F
  <2>3. f[0] \in Literal BY <1>2
  <2>4. Steps(N, Literal, f[0], F) BY ONLY <1>2, <2>1, <2>3 DEF Steps
  <2>5. PICK g : Repeated(g, N, Literal, f[0], F) BY ONLY <2>4, Recursion
  <2>6. g \in [Lanes -> Literal] /\ g[0] = f[0] /\ \A l \in 1..N : g[l] = F[<<g[l - 1], l>>]
    BY ONLY <1>2, <2>5 DEF Repeated
  <2>7. ASSUME NEW l \in Lanes PROVE g[l] = IF l = 0 THEN f[0] ELSE Joined(op, g[l - 1], f[l])
    <3>1. CASE l = 0 BY ONLY <2>6, <3>1
    <3>2. CASE l # 0
      <4>1. l \in 1..N BY ONLY <1>2, <3>2, l \in Lanes
      <4>2. g[l - 1] \in Literal BY ONLY <1>3, <2>6, <4>1
      <4> QED BY ONLY <2>2, <2>6, <3>2, <4>1, <4>2
    <3> QED BY ONLY <3>1, <3>2
  <2>8. g = [l \in Lanes |-> g[l]] BY ONLY <2>6
  <2>9. Upto(g) BY ONLY <2>7, <2>8
  <2> QED BY ONLY <2>9
<1>5. Upto(upto) BY ONLY <1>4
<1> HIDE DEF upto
<1>6. \A l \in Lanes : upto[l] = IF l = 0 THEN f[0] ELSE Joined(op, upto[l - 1], f[l]) BY ONLY <1>5
<1> DEFINE T == {l \in Nat : upto[l] \in Literal}
<1>7. 0 \in T BY <1>2, <1>6
<1>8. ASSUME NEW l \in 1..N, l - 1 \in T PROVE l \in T
  <2>1. upto[l - 1] \in Literal /\ f[l] \in Literal BY <1>3, <1>8
  <2>2. upto[l] = Joined(op, upto[l - 1], f[l]) BY ONLY <1>3, <1>6, l \in 1..N
  <2>3. upto[l] \in Literal BY ONLY <2>1, <2>2, op \in Reductions, JoinedWord
  <2> QED BY <2>3
<1> HIDE DEF T
<1>9. \A l \in 0..N : l \in T
  <2>1. \A l \in 1..N : l - 1 \in T => l \in T BY <1>8
  <2> QED BY ONLY <1>2, <1>7, <2>1, Induction
<1>10. upto[N] \in Literal BY <1>2, <1>9 DEF T
<1> QED BY ONLY <1>1, <1>10

----------------------------------------------------------------------------
(* The instructions the assembler makes.                                   *)

\* The fields of an instruction that has one operand for each.
LEMMA FieldsOf ==
  ASSUME NEW d, Canonical(d), d.op \in Fixed
  PROVE  /\ d.op \in MaskOps => d.rd < 4 /\ d.rs1 < 4
         /\ d.op \in {"ANDMASK", "ORMASK"} => d.lo < 4
         /\ d.op \in {"BALLOT", "TRY_RECV", "S_CMP_LT"} => d.rd < 4
         /\ d.op \in {"S_MOV", "S_ADD", "S_GET"} => d.rd < 8
         /\ d.op \in {"S_MOV", "S_ADD", "S_CMP_LT", "S_BCAST"} => d.rs1 < 8
         /\ d.op \in {"S_ADD", "S_CMP_LT"} => d.lo < 8
<1> DEFINE c == Operands(d.op)
           fields == <<d.rd, d.rs1, d.lo>>
<1>1. \A n \in 1..3 : n <= Len(c) => InClass(c[n], fields[n]) BY DEF Canonical, FixedFields
<1>2. fields[1] = d.rd /\ fields[2] = d.rs1 /\ fields[3] = d.lo OBVIOUS
<1> HIDE DEF fields
<1>3. 1 \in 1..3 /\ 2 \in 1..3 /\ 3 \in 1..3 OBVIOUS
<1>4. /\ 1 <= Len(c) => InClass(c[1], d.rd)
      /\ 2 <= Len(c) => InClass(c[2], d.rs1)
      /\ 3 <= Len(c) => InClass(c[3], d.lo)
  BY ONLY <1>1, <1>2, <1>3
<1>5. PICK m : m = d.op OBVIOUS
<1>6. /\ m \in {"NOTMASK", "ANY", "ALL"} => c = <<"p", "p">>
      /\ m \in {"ANDMASK", "ORMASK"} => c = <<"p", "p", "p">>
      /\ m = "BALLOT" => c = <<"p", "r">>
      /\ m = "TRY_RECV" => c = <<"p", "r", "r">>
      /\ m = "S_MOV" => c = <<"s", "s">>
      /\ m = "S_ADD" => c = <<"s", "s", "s">>
      /\ m = "S_CMP_LT" => c = <<"p", "s", "s">>
      /\ m = "S_BCAST" => c = <<"r", "s">>
      /\ m = "S_GET" => c = <<"s", "r">>
  BY ONLY <1>5 DEF Operands, OneRegister, TwoRegisters
<1> HIDE DEF c
<1>7. CASE m \in {"NOTMASK", "ANY", "ALL"}
  <2>1. c = <<"p", "p">> BY ONLY <1>6, <1>7
  <2>2. d.rd < 4 /\ d.rs1 < 4 BY ONLY <1>4, <2>1 DEF InClass
  <2> QED BY ONLY <1>5, <1>7, <2>2 DEF MaskOps
<1>8. CASE m \in {"ANDMASK", "ORMASK"}
  <2>1. c = <<"p", "p", "p">> BY ONLY <1>6, <1>8
  <2>2. d.rd < 4 /\ d.rs1 < 4 /\ d.lo < 4 BY ONLY <1>4, <2>1 DEF InClass
  <2> QED BY ONLY <1>5, <1>8, <2>2 DEF MaskOps
<1>9. CASE m \in {"BALLOT", "TRY_RECV"}
  <2>1. c = <<"p", "r">> \/ c = <<"p", "r", "r">> BY ONLY <1>6, <1>9
  <2>2. d.rd < 4 BY ONLY <1>4, <2>1 DEF InClass
  <2> QED BY ONLY <1>5, <1>9, <2>2 DEF MaskOps
<1>10. CASE m \in {"S_MOV", "S_GET"}
  <2>1. CASE m = "S_MOV"
    <3>1. c = <<"s", "s">> BY ONLY <1>6, <2>1
    <3>2. d.rd < 8 /\ d.rs1 < 8 BY ONLY <1>4, <3>1 DEF InClass
    <3> QED BY ONLY <1>5, <2>1, <3>2 DEF MaskOps
  <2>2. CASE m = "S_GET"
    <3>1. c = <<"s", "r">> BY ONLY <1>6, <2>2
    <3>2. d.rd < 8 BY ONLY <1>4, <3>1 DEF InClass
    <3> QED BY ONLY <1>5, <2>2, <3>2 DEF MaskOps
  <2> QED BY ONLY <1>10, <2>1, <2>2
<1>11. CASE m = "S_ADD"
  <2>1. c = <<"s", "s", "s">> BY ONLY <1>6, <1>11
  <2>2. d.rd < 8 /\ d.rs1 < 8 /\ d.lo < 8 BY ONLY <1>4, <2>1 DEF InClass
  <2> QED BY ONLY <1>5, <1>11, <2>2 DEF MaskOps
<1>12. CASE m = "S_CMP_LT"
  <2>1. c = <<"p", "s", "s">> BY ONLY <1>6, <1>12
  <2>2. d.rd < 4 /\ d.rs1 < 8 /\ d.lo < 8 BY ONLY <1>4, <2>1 DEF InClass
  <2> QED BY ONLY <1>5, <1>12, <2>2 DEF MaskOps
<1>13. CASE m = "S_BCAST"
  <2>1. c = <<"r", "s">> BY ONLY <1>6, <1>13
  <2>2. d.rs1 < 8 BY ONLY <1>4, <2>1 DEF InClass
  <2> QED BY ONLY <1>5, <1>13, <2>2 DEF MaskOps
<1> QED BY ONLY <1>5, <1>7, <1>8, <1>9, <1>10, <1>11, <1>12, <1>13 DEF MaskOps

\* No canonical instruction faults for its operands, if a literal it loads is
\* there.
LEMMA CanonicalIsLegal ==
  ASSUME NEW d, Canonical(d), NEW lits, Len(lits) \in Nat, d.op \in LiteralLoads => d.lo < Len(lits)
  PROVE  ~OperandFault(d, lits)
<1>1. /\ d.guard \in 0..8 /\ d.rd \in 0..15 /\ d.rs1 \in 0..15 /\ d.lo \in Nat
      /\ d.op \in Fixed => FixedFields(d)
      /\ d.op = "FLIP" => d.guard = 0
      /\ d.op \in CompareNames \cup CompareImmNames \cup {"S_CMP_LT_I"} => d.rd < 4
      /\ d.op \in {"S_LDW", "S_MOV_I", "S_ADD_I"} => d.rd < 8
      /\ d.op \in {"S_ADD_I", "S_CMP_LT_I"} => d.rs1 < 8
  BY LoModFacts DEF Canonical, CodeWord, Regs, Scalars, Predicates, LoField
<1>2. d.lo < 8 => d.lo % 16 = d.lo BY ONLY <1>1
<1>3. d.op \in MaskOps \cup {"BALLOT", "TRY_RECV", "S_MOV", "S_ADD", "S_CMP_LT", "S_BCAST", "S_GET"} => d.op \in Fixed
  BY DEF MaskOps, Fixed
<1>4. /\ d.op \in MaskOps => d.rd < 4 /\ d.rs1 < 4
      /\ d.op \in {"ANDMASK", "ORMASK"} => d.lo < 4
      /\ d.op \in {"BALLOT", "TRY_RECV", "S_CMP_LT"} => d.rd < 4
      /\ d.op \in {"S_MOV", "S_ADD", "S_GET"} => d.rd < 8
      /\ d.op \in {"S_MOV", "S_ADD", "S_CMP_LT", "S_BCAST"} => d.rs1 < 8
      /\ d.op \in {"S_ADD", "S_CMP_LT"} => d.lo < 8
  <2>1. {"ANDMASK", "ORMASK"} \subseteq MaskOps BY DEF MaskOps
  <2> QED BY <1>3, <2>1, FieldsOf
<1>5. ~(d.guard > 8) /\ ~(d.op = "FLIP" /\ d.guard # 0) BY ONLY <1>1
<1>6. ~(BadPredField(d.rd) /\ d.op \in DOMAIN Compares \cup Range(Compares) \cup MaskOps
                                          \cup {"BALLOT", "TRY_RECV", "S_CMP_LT", "S_CMP_LT_I"})
  BY ONLY <1>1, <1>4, TableNames DEF BadPredField
<1>7. ~(BadPredField(d.rs1) /\ d.op \in MaskOps) BY ONLY <1>1, <1>4 DEF BadPredField
<1>8. ~(BadPredField(d.lo % 16) /\ d.op \in {"ANDMASK", "ORMASK"})
  <2>1. d.lo < 4 => d.lo % 16 = d.lo /\ ~(d.lo >= 4) BY ONLY <1>1
  <2> QED BY ONLY <1>4, <2>1 DEF BadPredField
<1>9. ~(BadScalarField(d.rd) /\ d.op \in {"S_MOV", "S_MOV_I", "S_ADD", "S_ADD_I", "S_LDW", "S_GET"})
  BY ONLY <1>1, <1>4 DEF BadScalarField
<1>10. ~(BadScalarField(d.rs1) /\ d.op \in {"S_MOV", "S_ADD", "S_ADD_I", "S_CMP_LT", "S_CMP_LT_I", "S_BCAST"})
  BY ONLY <1>1, <1>4 DEF BadScalarField
<1>11. ~(BadScalarField(d.lo % 16) /\ d.op \in {"S_ADD", "S_CMP_LT"})
  BY ONLY <1>1, <1>2, <1>4 DEF BadScalarField
<1>12. ~(d.op \in {"LDW", "S_LDW"} /\ d.lo >= Len(lits))
  <2>1. d.op \in {"LDW", "S_LDW"} => d.lo < Len(lits) BY DEF LiteralLoads
  <2> QED BY ONLY <1>1, <2>1, Len(lits) \in Nat
<1> QED BY ONLY <1>5, <1>6, <1>7, <1>8, <1>9, <1>10, <1>11, <1>12 DEF OperandFault

----------------------------------------------------------------------------
(* The machine that loads what the assembler wrote, and whose messages are *)
(* of words.  The listing's data are not executed: no jump leads there.    *)
Written(bytes) == \E stmts : /\ Len(stmts) \in Nat /\ \A n \in 1..Len(stmts) : StatementRead(stmts[n])
                             /\ Assemble(stmts).err = ""
                             /\ bytes = EncodeFile(Assemble(stmts).code, Assemble(stmts).lits)
Mail == [payload : Literal, meta : Literal]
MachineNext == \/ \E bytes : Written(bytes) /\ LoadImage(bytes)
               \/ w \notin DataWords /\ MachineStep
               \/ \E m \in Mail : Deliver(m)
MachineSpec == MachineInit /\ [][MachineNext]_machine

(* What holds of it.                                                       *)
ImageOK == \/ status = "idle" /\ image.code = <<>> /\ pc = 0 /\ calls = <<>>
           \/ status \in {"running", "halted", "faulted"} /\ Assembled(image.code, image.lits)
ControlOK == pc \in 0..Len(image.code) /\ calls \in Seq(1..Len(image.code)) /\ Len(calls) <= CALL_STACK
RegistersOK == /\ vregs \in [Regs -> [Lanes -> Literal]] /\ sregs \in [Scalars -> [Lanes -> Literal]]
               /\ masks \in [Predicates -> [Lanes -> SUBSET Lanes]]
MemoryOK == \A a \in DOMAIN ram : Addressable(a) /\ ram[a] \in Literal
Sent == [dest : Literal, type : 0..2^(WordBits \div 2) - 1, payload : Literal]
MessagesOK == /\ inbox \in Seq(Mail) /\ received \in Seq({<<>>} \cup {<<m>> : m \in Mail})
              /\ sent \in Seq(Sent) /\ flips \in Nat
MachineOK == ImageOK /\ ControlOK /\ RegistersOK /\ MemoryOK /\ MessagesOK

\* The instruction a running warp is at, if it is not the listing's data.
LEMMA Fetched ==
  ASSUME MachineOK, status = "running", pc < Len(image.code), w \notin DataWords
  PROVE  /\ Assembled(image.code, image.lits)
         /\ Canonical(w) /\ w \in CodeWord /\ w.rd \in Regs /\ w.rs1 \in Regs /\ w.lo \in Nat /\ rs2 \in Regs
         /\ Len(image.lits) \in Nat
         /\ w.op \in LiteralLoads => w.lo < Len(image.lits) /\ image.lits[w.lo + 1] \in Literal
<1>1. Assembled(image.code, image.lits) BY DEF MachineOK, ImageOK
<1>2. image.code \in Seq(CodeWord) /\ image.lits \in Seq(Literal) BY ONLY <1>1 DEF Assembled
<1>3. PICK n : n = pc + 1 OBVIOUS
<1>4. n \in 1..Len(image.code)
  <2>1. pc \in Nat BY DEF MachineOK, ControlOK
  <2>2. Len(image.code) \in Nat BY ONLY <1>2
  <2> QED BY ONLY <1>3, <2>1, <2>2, pc < Len(image.code)
<1>5. w = image.code[n] BY ONLY <1>3 DEF w
<1>6. Readable(w) /\ (w.op \in LiteralLoads => w.lo < Len(image.lits)) BY ONLY <1>1, <1>4, <1>5 DEF Assembled
<1>7. Canonical(w) BY ONLY <1>6, w \notin DataWords DEF Readable
<1>8. w \in CodeWord BY ONLY <1>7 DEF Canonical
<1>9. w.rd \in Regs /\ w.rs1 \in Regs /\ w.lo \in Nat BY ONLY <1>8, LoModFacts DEF CodeWord, LoField
<1>10. rs2 \in Regs BY ONLY <1>9 DEF rs2, Regs
<1>11. Len(image.lits) \in Nat BY ONLY <1>2
<1>12. w.lo < Len(image.lits) => image.lits[w.lo + 1] \in Literal
  <2>1. w.lo < Len(image.lits) => w.lo + 1 \in 1..Len(image.lits) BY ONLY <1>9, <1>11
  <2> QED BY ONLY <1>2, <2>1
<1> QED BY ONLY <1>1, <1>6, <1>7, <1>8, <1>9, <1>10, <1>11, <1>12

\* A write to one register of a bank keeps what the bank holds.
LEMMA WriteKept ==
  /\ \A r : \A bank \in [Regs -> [Lanes -> Literal]], value \in [Lanes -> Literal] :
        Write(bank, r, value) \in [Regs -> [Lanes -> Literal]]
  /\ \A r : \A bank \in [Scalars -> [Lanes -> Literal]], value \in [Lanes -> Literal] :
        Write(bank, r, value) \in [Scalars -> [Lanes -> Literal]]
  /\ \A r : \A bank \in [Predicates -> [Lanes -> SUBSET Lanes]], value \in [Lanes -> SUBSET Lanes] :
        Write(bank, r, value) \in [Predicates -> [Lanes -> SUBSET Lanes]]
<1>1. PICK A : A = Active OBVIOUS
<1>2. ASSUME NEW D, NEW T, NEW bank \in [D -> [Lanes -> T]], NEW r, NEW value \in [Lanes -> T]
      PROVE  Write(bank, r, value) \in [D -> [Lanes -> T]]
  <2>1. Write(bank, r, value) = [bank EXCEPT ![r] = [l \in Lanes |-> IF l \in A THEN value[l] ELSE bank[r][l]]]
    BY ONLY <1>1 DEF Write
  <2>2. CASE r \in D
    <3>1. [l \in Lanes |-> IF l \in A THEN value[l] ELSE bank[r][l]] \in [Lanes -> T] BY ONLY <2>2
    <3> QED BY ONLY <2>1, <2>2, <3>1
  <2>3. CASE r \notin D BY ONLY <2>1, <2>3
  <2> QED BY ONLY <2>2, <2>3
<1> QED BY ONLY <1>2

\* An immediate, and the second operand of arithmetic and comparisons.
LEMMA OperandWord ==
  ASSUME RegistersOK, w.lo \in Nat, rs2 \in Regs, w \in CodeWord
  PROVE  ImmOf \in Literal /\ \A l \in Lanes : SecondOperand(l) \in Literal
<1>1. w.lo \in LoField BY DEF CodeWord
<1>2. SignExt(w.lo) \in IMM_MIN..IMM_MAX BY ONLY <1>1, SignExtension
<1>3. SignExt(w.lo) \in Int BY ONLY <1>2, LoModFacts
<1>4. ImmOf \in Literal BY ONLY <1>3, WordModFacts DEF ImmOf
<1>5. \A l \in Lanes : vregs[rs2][l] \in Literal BY DEF RegistersOK
<1> QED BY ONLY <1>4, <1>5 DEF SecondOperand

\* The name of the arithmetic that an instruction with an immediate does.
LEMMA RegisterForms ==
  \A op \in AluNames \cup AluImmNames \cup RegisterOnly : RegisterForm(op) \in AluNames \cup RegisterOnly
<1>1. \A op \in AluNames \cup RegisterOnly : op \notin AluImmNames /\ op \notin CompareImmNames
  BY DEF AluNames, AluImmNames, CompareImmNames, RegisterOnly
<1>2. \A op \in AluImmNames : op \notin CompareImmNames
  BY DEF AluImmNames, CompareImmNames
<1>3. ASSUME NEW op \in AluImmNames PROVE RegisterForm(op) \in AluNames
  <2>1. PICK n \in AluNames : WithImmediate[n] = op BY AluForms
  <2>2. Bin3(op) = n BY <2>1, AluForms
  <2>3. RegisterForm(op) = Bin3(op) BY ONLY <1>2, TableNames, op \in AluImmNames DEF RegisterForm
  <2> QED BY ONLY <2>2, <2>3, n \in AluNames
<1>4. ASSUME NEW op \in AluNames \cup RegisterOnly PROVE RegisterForm(op) = op
  BY ONLY <1>1, TableNames, op \in AluNames \cup RegisterOnly DEF RegisterForm
<1> QED BY <1>3, <1>4

\* The unary operations and lane numbers.
LEMMA UnaryWord ==
  ASSUME NEW a \in Literal
  PROVE  Negated(a) \in Literal /\ Not(a) \in Literal /\ Magnitude(a) \in Literal
<1>1. a \in Nat /\ a <= WordMod - 1 /\ WordMod \in Nat /\ Literal = 0..WordMod - 1 BY Sizes
<1>2. -a \in Int BY ONLY <1>1
<1>3. Negated(a) \in Literal BY ONLY <1>2, WordModFacts DEF Negated
<1>4. Not(a) \in Literal BY ONLY <1>1 DEF Not
<1>5. SIGN_BIT \in Nat /\ SIGN_BIT > 0
  <2>1. WordBits - 1 \in 0..32 BY Sizes
  <2> QED BY ONLY <2>1, Powers DEF SIGN_BIT
<1>6. Magnitude(a) \in Literal BY ONLY <1>1, <1>5 DEF Magnitude
<1> QED BY ONLY <1>3, <1>4, <1>6

\* What an instruction gives a lane is a word.
LEMMA VectorWord ==
  ASSUME MachineOK, status = "running", pc < Len(image.code), w \notin DataWords, w.op \in VectorOps, NEW l \in Lanes
  PROVE  VectorResult(l) \in Literal
<1>1. /\ w \in CodeWord /\ w.rd \in Regs /\ w.rs1 \in Regs /\ w.lo \in Nat /\ rs2 \in Regs /\ Canonical(w)
      /\ w.op \in LiteralLoads => image.lits[w.lo + 1] \in Literal
  BY Fetched
<1>2. RegistersOK BY DEF MachineOK
<1>3. \A r \in Regs, m \in Lanes : vregs[r][m] \in Literal BY ONLY <1>2 DEF RegistersOK
<1>4. ImmOf \in Literal /\ SecondOperand(l) \in Literal BY ONLY <1>1, <1>2, OperandWord, l \in Lanes
<1>5. PICK a : a = vregs[w.rs1][l] OBVIOUS
<1>6. a \in Literal BY ONLY <1>1, <1>3, <1>5, l \in Lanes
<1>7. \A x \in Nat : x % LANES \in Lanes BY Sizes DEF Lanes
<1>8. Negated(a) \in Literal /\ Not(a) \in Literal /\ Magnitude(a) \in Literal BY ONLY <1>6, UnaryWord
<1>9. 5 \in Literal /\ l \in Literal BY Sizes DEF Lanes
<1>10. vregs[w.rs1][w.lo % LANES] \in Literal BY ONLY <1>1, <1>3, <1>7
<1>11. vregs[w.rs1][vregs[rs2][l] % LANES] \in Literal
  <2>1. vregs[rs2][l] \in Nat BY ONLY <1>1, <1>3, Sizes, l \in Lanes
  <2>2. vregs[rs2][l] % LANES \in Lanes BY ONLY <1>7, <2>1
  <2> QED BY ONLY <1>1, <1>3, <2>2
<1>12. vregs[w.rs1][Xor(l, w.lo) % LANES] \in Literal
  <2>1. Xor(l, w.lo) \in Nat BY ONLY BitwiseWord, Sizes DEF Xor
  <2>2. Xor(l, w.lo) % LANES \in Lanes BY ONLY <1>7, <2>1
  <2> QED BY ONLY <1>1, <1>3, <2>2
<1>13. w.op \in Reductions => Reduced(w.op, vregs[w.rs1]) \in Literal
  <2>1. vregs[w.rs1] \in [Lanes -> Literal] BY ONLY <1>1, <1>2 DEF RegistersOK
  <2> QED BY ONLY <2>1, ReducedWord
<1>14. w.op = "S_BCAST" => sregs[w.rs1][l] \in Literal
  <2>1. ASSUME w.op = "S_BCAST" PROVE w.rs1 \in Scalars
    <3>1. w.op \in Fixed BY ONLY <2>1 DEF Fixed
    <3>2. w.rs1 < 8 BY ONLY <1>1, <2>1, <3>1, FieldsOf
    <3> QED BY ONLY <1>1, <3>2 DEF Regs, Scalars
  <2> QED BY ONLY <1>2, <2>1, l \in Lanes DEF RegistersOK
<1>15. w.op \in AluNames \cup AluImmNames \cup RegisterOnly => AluResult(RegisterForm(w.op), a, SecondOperand(l)) \in Literal
  BY ONLY <1>4, <1>6, AluWord, RegisterForms
<1>16. CASE w.op \in AluNames \cup AluImmNames \cup RegisterOnly
  <2>1. w.op \notin {"MOV", "MOV_I", "NEG", "NOT", "ABS", "LANEID", "VMID", "BROADCAST", "SHUFFLE", "SHUFFLE_XOR",
                     "S_BCAST", "LDW"} \cup Reductions
    BY ONLY <1>16 DEF AluNames, AluImmNames, RegisterOnly, Reductions
  <2>2. VectorResult(l) = AluResult(RegisterForm(w.op), a, SecondOperand(l))
    BY ONLY <1>5, <2>1 DEF VectorResult, Reductions
  <2> QED BY ONLY <1>15, <1>16, <2>2
<1>17. CASE w.op \in Reductions
  <2>1. VectorResult(l) = Reduced(w.op, vregs[w.rs1]) BY ONLY <1>17 DEF VectorResult, Reductions
  <2> QED BY ONLY <1>13, <1>17, <2>1
<1>18. CASE w.op \in {"MOV", "MOV_I", "NEG", "NOT", "ABS", "LANEID", "VMID"}
  BY ONLY <1>4, <1>5, <1>6, <1>8, <1>9, <1>18 DEF VectorResult, Reductions, VM_ID
<1>19. CASE w.op \in {"BROADCAST", "SHUFFLE", "SHUFFLE_XOR"}
  BY ONLY <1>10, <1>11, <1>12, <1>19 DEF VectorResult, Reductions
<1>20. CASE w.op \in {"S_BCAST", "LDW"}
  BY ONLY <1>1, <1>14, <1>20 DEF VectorResult, Reductions, LiteralLoads
<1>21. DOMAIN Alu \subseteq AluNames \cup RegisterOnly BY DEF Alu, AluNames, RegisterOnly
<1>22. {"MIN", "MAX"} \subseteq RegisterOnly BY DEF RegisterOnly
<1>23. w.op \in {"MOV", "MOV_I", "NEG", "NOT", "ABS", "LANEID", "VMID"} \cup {"BROADCAST", "SHUFFLE", "SHUFFLE_XOR"}
               \cup {"S_BCAST", "LDW"} \cup Reductions \cup AluNames \cup AluImmNames \cup RegisterOnly
  BY ONLY <1>21, <1>22, TableNames, w.op \in VectorOps DEF VectorOps
<1> QED BY ONLY <1>16, <1>17, <1>18, <1>19, <1>20, <1>23

----------------------------------------------------------------------------
(* Each instruction keeps MachineOK.                                       *)

\* The next instruction, or a stop at this one.
LEMMA Continues ==
  ASSUME MachineOK, status = "running", pc < Len(image.code),
         image' = image, calls' = calls, status' \in {"running", "halted", "faulted"}, pc' \in {pc, pc + 1}
  PROVE  ImageOK' /\ ControlOK'
<1>1. ImageOK' BY DEF MachineOK, ImageOK
<1>2. pc \in 0..Len(image.code) /\ calls \in Seq(1..Len(image.code)) /\ Len(calls) <= CALL_STACK
  BY DEF MachineOK, ControlOK
<1>3. image.code \in Seq(CodeWord) BY DEF MachineOK, ImageOK, Assembled
<1>4. Len(image.code) \in Nat BY ONLY <1>3
<1>5. pc + 1 \in 0..Len(image.code) BY ONLY <1>2, <1>4, pc < Len(image.code)
<1> QED BY <1>1, <1>2, <1>5 DEF ControlOK

\* Vector instructions.
LEMMA VectorOpKeeps == ASSUME MachineOK, w \notin DataWords, VectorOp PROVE MachineOK'
<1>1. status = "running" /\ pc < Len(image.code) /\ w.op \in VectorOps BY DEF VectorOp, Fetch
<1>2. /\ pc' = pc + 1 /\ image' = image /\ status' = status /\ calls' = calls /\ sregs' = sregs /\ masks' = masks
      /\ ram' = ram /\ inbox' = inbox /\ received' = received /\ sent' = sent /\ flips' = flips
  BY DEF VectorOp, Advances
<1>3. ImageOK' /\ ControlOK' BY <1>1, <1>2, Continues
<1>4. PICK v : v = [l \in Lanes |-> VectorResult(l)] OBVIOUS
<1>5. \A l \in Lanes : v[l] = VectorResult(l) BY ONLY <1>4
<1>6. \A l \in Lanes : v[l] \in Literal BY <1>1, <1>5, VectorWord
<1>7. v \in [Lanes -> Literal] /\ vregs' = Write(vregs, w.rd, v)
  BY ONLY <1>4, <1>6, VectorOp DEF VectorOp
<1>8. vregs \in [Regs -> [Lanes -> Literal]] BY DEF MachineOK, RegistersOK
<1>9. vregs' \in [Regs -> [Lanes -> Literal]] BY ONLY <1>7, <1>8, WriteKept
<1>10. RegistersOK' BY <1>2, <1>9 DEF MachineOK, RegistersOK
<1>11. MemoryOK' /\ MessagesOK' BY <1>2 DEF MachineOK, MemoryOK, MessagesOK, Addressable
<1> QED BY <1>3, <1>10, <1>11 DEF MachineOK

\* Comparisons and operations on masks.
LEMMA PredicateOpKeeps == ASSUME MachineOK, w \notin DataWords, PredicateOp PROVE MachineOK'
<1>1. status = "running" /\ pc < Len(image.code) /\ w \in CodeWord /\ Canonical(w)
  BY Fetched DEF PredicateOp, Fetch
<1>2. /\ pc' = pc + 1 /\ image' = image /\ status' = status /\ calls' = calls /\ sregs' = sregs /\ vregs' = vregs
      /\ ram' = ram /\ inbox' = inbox /\ received' = received /\ sent' = sent /\ flips' = flips
  BY DEF PredicateOp, Advances
<1>3. ImageOK' /\ ControlOK' BY <1>1, <1>2, Continues
<1>4. PICK v : v = [l \in Lanes |-> MaskResult(l)] OBVIOUS
<1>5. \A l \in Lanes : v[l] = MaskResult(l) BY ONLY <1>4
<1>6. masks \in [Predicates -> [Lanes -> SUBSET Lanes]] BY DEF MachineOK, RegistersOK
<1>7. ASSUME NEW l \in Lanes PROVE MaskResult(l) \in SUBSET Lanes
  <2>1. w.op = "ANDMASK" => masks[w.rs1][l] \in SUBSET Lanes
    <3>1. ASSUME w.op = "ANDMASK" PROVE w.rs1 \in Predicates
      <4>1. w.op \in Fixed /\ w.op \in MaskOps BY ONLY <3>1 DEF Fixed, MaskOps
      <4>2. w.rs1 < 4 BY ONLY <1>1, <4>1, FieldsOf
      <4> QED BY ONLY <1>1, <4>2 DEF CodeWord, Regs, Predicates
    <3> QED BY ONLY <1>6, <3>1, l \in Lanes
  <2>2. CASE w.op = "ANDMASK" BY ONLY <2>1, <2>2 DEF MaskResult
  <2>3. CASE w.op # "ANDMASK" BY ONLY <2>3 DEF MaskResult
  <2> QED BY <2>2, <2>3
<1>8. \A l \in Lanes : v[l] \in SUBSET Lanes BY ONLY <1>5, <1>7
<1>9. v \in [Lanes -> SUBSET Lanes] /\ masks' = Write(masks, w.rd, v)
  BY ONLY <1>4, <1>8, PredicateOp DEF PredicateOp
<1>10. masks' \in [Predicates -> [Lanes -> SUBSET Lanes]] BY ONLY <1>6, <1>9, WriteKept
<1>11. RegistersOK' BY <1>2, <1>10 DEF MachineOK, RegistersOK
<1>12. MemoryOK' /\ MessagesOK' BY <1>2 DEF MachineOK, MemoryOK, MessagesOK, Addressable
<1> QED BY <1>3, <1>11, <1>12 DEF MachineOK

\* Scalar instructions.
LEMMA ScalarOpKeeps == ASSUME MachineOK, w \notin DataWords, ScalarOp PROVE MachineOK'
<1>1. /\ status = "running" /\ pc < Len(image.code) /\ w.op \in {"S_MOV_I", "S_LDW", "S_ADD", "S_ADD_I", "S_GET"}
      /\ w \in CodeWord /\ Canonical(w) /\ w.rs1 \in Regs /\ rs2 \in Regs /\ w.lo \in Nat
      /\ w.op \in LiteralLoads => image.lits[w.lo + 1] \in Literal
  BY Fetched DEF ScalarOp, Fetch
<1>2. /\ pc' = pc + 1 /\ image' = image /\ status' = status /\ calls' = calls /\ masks' = masks /\ vregs' = vregs
      /\ ram' = ram /\ inbox' = inbox /\ received' = received /\ sent' = sent /\ flips' = flips
  BY DEF ScalarOp, Advances
<1>3. ImageOK' /\ ControlOK' BY <1>1, <1>2, Continues
<1>4. PICK v : v = [l \in Lanes |-> ScalarResult(l)] OBVIOUS
<1>5. \A l \in Lanes : v[l] = ScalarResult(l) BY ONLY <1>4
<1>6. RegistersOK BY DEF MachineOK
<1>7. /\ sregs \in [Scalars -> [Lanes -> Literal]]
      /\ \A r \in Regs, m \in Lanes : vregs[r][m] \in Literal
      /\ \A k \in Scalars, m \in Lanes : sregs[k][m] \in Literal
  BY ONLY <1>6 DEF RegistersOK
<1>8. ImmOf \in Literal BY ONLY <1>1, <1>6, OperandWord
<1>9. ASSUME NEW l \in Lanes PROVE ScalarResult(l) \in Literal
  <2>1. CASE w.op = "S_MOV_I" BY ONLY <1>8, <2>1 DEF ScalarResult
  <2>2. CASE w.op = "S_LDW" BY ONLY <1>1, <2>2 DEF ScalarResult, LiteralLoads
  <2>3. CASE w.op = "S_ADD"
    <3>1. w.op \in Fixed BY ONLY <2>3 DEF Fixed
    <3>2. w.rs1 < 8 /\ w.lo < 8 BY ONLY <1>1, <2>3, <3>1, FieldsOf
    <3>3. w.rs1 \in Scalars /\ rs2 \in Scalars
      <4>1. PICK a : a = w.lo OBVIOUS
      <4>2. a \in 0..7 BY ONLY <1>1, <3>2, <4>1
      <4>3. a % 16 = a BY ONLY <4>2
      <4>4. rs2 \in 0..7 BY ONLY <4>1, <4>2, <4>3 DEF rs2
      <4> QED BY ONLY <1>1, <3>2, <4>4 DEF Regs, Scalars
    <3>4. sregs[w.rs1][l] \in Literal /\ sregs[rs2][l] \in Literal BY ONLY <1>7, <3>3, l \in Lanes
    <3>5. sregs[w.rs1][l] + sregs[rs2][l] \in Int BY ONLY <3>4, Sizes
    <3> QED BY ONLY <2>3, <3>5, WordModFacts DEF ScalarResult
  <2>4. CASE w.op = "S_ADD_I"
    <3>1. w.rs1 \in Scalars BY ONLY <1>1, <2>4 DEF Canonical
    <3>2. sregs[w.rs1][l] \in Literal BY ONLY <1>7, <3>1, l \in Lanes
    <3>3. sregs[w.rs1][l] + ImmOf \in Int BY ONLY <1>8, <3>2, Sizes
    <3> QED BY ONLY <2>4, <3>3, WordModFacts DEF ScalarResult
  <2>5. CASE w.op = "S_GET"
    <3>1. 0 \in Lanes BY Sizes DEF Lanes
    <3> QED BY ONLY <1>1, <1>7, <2>5, <3>1 DEF ScalarResult
  <2> QED BY ONLY <1>1, <2>1, <2>2, <2>3, <2>4, <2>5
<1>10. \A l \in Lanes : v[l] \in Literal BY ONLY <1>5, <1>9
<1>11. v \in [Lanes -> Literal] /\ sregs' = Write(sregs, w.rd, v)
  BY ONLY <1>4, <1>10, ScalarOp DEF ScalarOp
<1>12. sregs' \in [Scalars -> [Lanes -> Literal]] BY ONLY <1>7, <1>11, WriteKept
<1>13. RegistersOK' BY <1>2, <1>12 DEF MachineOK, RegistersOK
<1>14. MemoryOK' /\ MessagesOK' BY <1>2 DEF MachineOK, MemoryOK, MessagesOK, Addressable
<1> QED BY <1>3, <1>13, <1>14 DEF MachineOK

\* LOAD: what is read is a word, or the register is left as it was.
LEMMA LoadKeeps == ASSUME MachineOK, w \notin DataWords, Load PROVE MachineOK'
<1>1. status = "running" /\ pc < Len(image.code) /\ w.rd \in Regs /\ w.rs1 \in Regs
  BY Fetched DEF Load, Fetch
<1>2. /\ image' = image /\ calls' = calls /\ sregs' = sregs /\ masks' = masks
      /\ ram' = ram /\ inbox' = inbox /\ received' = received /\ sent' = sent /\ flips' = flips
  BY DEF Load
<1>3. \/ pc' = pc + 1 /\ status' = status
      \/ pc' = pc /\ status' = "faulted"
  BY DEF Load, Advances, Stops
<1>4. ImageOK' /\ ControlOK' BY <1>1, <1>2, <1>3, Continues
<1>5. PICK v : v = [l \in Lanes |-> IF Addressable(vregs[w.rs1][l]) THEN Peeked(ram, vregs[w.rs1][l]) ELSE vregs[w.rd][l]]
  OBVIOUS
<1>6. vregs' = Write(vregs, w.rd, v) BY ONLY <1>5, Load DEF Load
<1>7. vregs \in [Regs -> [Lanes -> Literal]] BY DEF MachineOK, RegistersOK
<1>8. ASSUME NEW a PROVE Peeked(ram, a) \in Literal
  BY Sizes DEF MachineOK, MemoryOK, Peeked
<1>9. ASSUME NEW l \in Lanes PROVE v[l] \in Literal
  <2>1. vregs[w.rd][l] \in Literal BY ONLY <1>1, <1>7, l \in Lanes
  <2> QED BY ONLY <1>5, <1>8, <2>1, l \in Lanes
<1>10. v \in [Lanes -> Literal] BY ONLY <1>5, <1>9
<1>11. vregs' \in [Regs -> [Lanes -> Literal]] BY ONLY <1>6, <1>7, <1>10, WriteKept
<1>12. RegistersOK' BY <1>2, <1>11 DEF MachineOK, RegistersOK
<1>13. MemoryOK' /\ MessagesOK' BY <1>2 DEF MachineOK, MemoryOK, MessagesOK, Addressable
<1> QED BY <1>4, <1>12, <1>13 DEF MachineOK

\* The least of some lanes is one of them.
LEMMA LeastLane == ASSUME NEW T, T \subseteq Lanes, T # {} PROVE Min(T) \in T
<1>1. T \subseteq Nat BY DEF Lanes
<1>2. PICK x \in T : \A y \in T : ~(<<y, x>> \in OpToRel(<, Nat))
  BY ONLY <1>1, T # {}, WFMin, NatLessThanWellFounded
<1>3. \A y \in T : ~(y < x) BY ONLY <1>1, <1>2 DEF OpToRel
<1>4. \A y \in T : x <= y BY ONLY <1>1, <1>3
<1> QED BY ONLY <1>4 DEF Min

\* The lane that writes an address is one of those that store there.
LEMMA WritersWrite ==
  ASSUME NEW lanes, lanes \subseteq Lanes, NEW last \in LastWriters(lanes)
  PROVE  \A a \in DOMAIN last : last[a] \in lanes /\ a = vregs[w.rd][last[a]]
<1> DEFINE addresses == {vregs[w.rd][l] : l \in lanes}
<1>1. \A a \in addresses : Writers(lanes, a) \subseteq Lanes /\ Writers(lanes, a) # {} BY DEF Writers
<1>2. \A a \in addresses : Min(Writers(lanes, a)) \in Writers(lanes, a) BY ONLY <1>1, LeastLane
<1>3. \/ last = [a \in addresses |-> Min(Writers(lanes, a))]
      \/ last \in {f \in [addresses -> lanes] : \A a \in addresses : f[a] \in Writers(lanes, a)}
  BY DEF LastWriters
<1> HIDE DEF addresses
<1>4. DOMAIN last = addresses /\ \A a \in addresses : last[a] \in Writers(lanes, a)
  BY ONLY <1>2, <1>3
<1> QED BY ONLY <1>4 DEF Writers

\* STORE: only mapped addresses, only words.
LEMMA StoreKeeps == ASSUME MachineOK, w \notin DataWords, Store PROVE MachineOK'
<1>1. status = "running" /\ pc < Len(image.code) /\ w.rd \in Regs /\ w.rs1 \in Regs
  BY Fetched DEF Store, Fetch
<1>2. /\ image' = image /\ calls' = calls /\ sregs' = sregs /\ masks' = masks
      /\ vregs' = vregs /\ inbox' = inbox /\ received' = received /\ sent' = sent /\ flips' = flips
  BY DEF Store
<1>3. \/ pc' = pc + 1 /\ status' = status
      \/ pc' = pc /\ status' = "faulted"
  BY DEF Store, Advances, Stops
<1>4. ImageOK' /\ ControlOK' BY <1>1, <1>2, <1>3, Continues
<1>5. PICK lanes : lanes = {l \in Active : Addressable(vregs[w.rd][l])} OBVIOUS
<1>6. lanes \subseteq Lanes BY ONLY <1>5 DEF Active
<1>7. PICK last \in LastWriters(lanes) :
        ram' = [a \in DOMAIN ram \cup DOMAIN last |-> IF a \in DOMAIN last THEN vregs[w.rs1][last[a]] ELSE ram[a]]
  BY ONLY <1>5, Store DEF Store
<1>8. \A a \in DOMAIN last : last[a] \in lanes /\ a = vregs[w.rd][last[a]] BY ONLY <1>6, <1>7, WritersWrite
<1>9. vregs \in [Regs -> [Lanes -> Literal]] BY DEF MachineOK, RegistersOK
<1>10. \A a \in DOMAIN last : Addressable(a) /\ vregs[w.rs1][last[a]] \in Literal
  <2>1. \A l \in lanes : Addressable(vregs[w.rd][l]) BY ONLY <1>5
  <2>2. \A l \in lanes : vregs[w.rs1][l] \in Literal BY ONLY <1>1, <1>6, <1>9
  <2> QED BY ONLY <1>8, <2>1, <2>2
<1>11. \A a \in DOMAIN ram : Addressable(a) /\ ram[a] \in Literal BY DEF MachineOK, MemoryOK
<1>12. \A a \in DOMAIN ram' : Addressable(a) /\ ram'[a] \in Literal BY ONLY <1>7, <1>10, <1>11
<1>13. MemoryOK' BY <1>12 DEF MemoryOK, Addressable
<1>14. RegistersOK' /\ MessagesOK' BY <1>2 DEF MachineOK, RegistersOK, MessagesOK
<1> QED BY <1>4, <1>13, <1>14 DEF MachineOK

\* SEND, of words and a type of half a word.
LEMMA SendKeeps == ASSUME MachineOK, w \notin DataWords, Send PROVE MachineOK'
<1>1. status = "running" /\ pc < Len(image.code) /\ w.rd \in Regs /\ w.rs1 \in Regs /\ rs2 \in Regs
  BY Fetched DEF Send, Fetch
<1>2. /\ image' = image /\ calls' = calls /\ sregs' = sregs /\ masks' = masks
      /\ vregs' = vregs /\ ram' = ram /\ inbox' = inbox /\ received' = received /\ flips' = flips
  BY DEF Send
<1>3. \/ pc' = pc + 1 /\ status' = status
      \/ pc' = pc /\ status' = "faulted"
  BY DEF Send, Advances, Stops
<1>4. ImageOK' /\ ControlOK' BY <1>1, <1>2, <1>3, Continues
<1>5. vregs \in [Regs -> [Lanes -> Literal]] BY DEF MachineOK, RegistersOK
<1>6. 0 \in Lanes BY Sizes DEF Lanes
<1>7. vregs[w.rd][0] \in Literal /\ vregs[w.rs1][0] \in Literal /\ vregs[rs2][0] \in Literal
  BY ONLY <1>1, <1>5, <1>6
<1>8. PICK half : half = 2^(WordBits \div 2) OBVIOUS
<1>9. half \in Nat /\ half > 0
  <2>1. WordBits \div 2 \in 0..32 BY Sizes
  <2> QED BY ONLY <1>8, <2>1, Powers
<1>10. vregs[w.rs1][0] % half \in 0..half - 1 BY ONLY <1>7, <1>9, Sizes
<1>11. Message \in Sent BY ONLY <1>7, <1>8, <1>10 DEF Message, Sent
<1>12. sent \in Seq(Sent) BY DEF MachineOK, MessagesOK
<1>13. sent' \in {sent, Append(sent, Message)} BY DEF Send
<1>14. sent' \in Seq(Sent) BY ONLY <1>11, <1>12, <1>13, AppendProperties
<1>15. MessagesOK' BY <1>2, <1>14 DEF MachineOK, MessagesOK
<1>16. RegistersOK' /\ MemoryOK' BY <1>2 DEF MachineOK, RegistersOK, MemoryOK, Addressable
<1> QED BY <1>4, <1>15, <1>16 DEF MachineOK

\* TRY_RECV: lane 0's message, or that there was none.
LEMMA TryRecvKeeps == ASSUME MachineOK, w \notin DataWords, TryRecv PROVE MachineOK'
<1>1. status = "running" /\ pc < Len(image.code) BY DEF TryRecv, Fetch
<1>2. /\ pc' = pc + 1 /\ image' = image /\ status' = status /\ calls' = calls /\ sregs' = sregs
      /\ ram' = ram /\ sent' = sent /\ flips' = flips
  BY DEF TryRecv, Advances
<1>3. ImageOK' /\ ControlOK' BY <1>1, <1>2, Continues
<1>4. PICK got : got = (0 \in Active /\ inbox # <<>>) /\ got \in BOOLEAN OBVIOUS
<1>5. PICK mail : mail = Head(inbox) OBVIOUS
<1>6. PICK payload : payload = [l \in Lanes |-> mail.payload] OBVIOUS
<1>7. PICK meta : meta = [l \in Lanes |-> mail.meta] OBVIOUS
<1>8. PICK flag : flag = [l \in Lanes |-> IF got THEN Lanes ELSE {}] OBVIOUS
<1>9. /\ masks' = Write(masks, w.rd, flag)
      /\ vregs' = IF got THEN Write(Write(vregs, w.rs1, payload), rs2, meta) ELSE vregs
      /\ inbox' = IF got THEN Tail(inbox) ELSE inbox
      /\ received' = Append(received, IF got THEN <<mail>> ELSE <<>>)
  BY ONLY <1>4, <1>5, <1>6, <1>7, <1>8, TryRecv DEF TryRecv
<1>10. /\ inbox \in Seq(Mail) /\ received \in Seq({<<>>} \cup {<<m>> : m \in Mail})
       /\ vregs \in [Regs -> [Lanes -> Literal]] /\ masks \in [Predicates -> [Lanes -> SUBSET Lanes]]
  BY DEF MachineOK, RegistersOK, MessagesOK
<1>11. got => inbox # <<>> BY ONLY <1>4
<1>12. got => mail \in Mail /\ inbox' \in Seq(Mail)
  BY ONLY <1>5, <1>9, <1>10, <1>11, HeadTailProperties
<1>13. inbox' \in Seq(Mail) BY ONLY <1>9, <1>10, <1>12
<1>14. (IF got THEN <<mail>> ELSE <<>>) \in {<<>>} \cup {<<m>> : m \in Mail} BY ONLY <1>12
<1>15. received' \in Seq({<<>>} \cup {<<m>> : m \in Mail}) BY ONLY <1>9, <1>10, <1>14, AppendProperties
<1>16. flag \in [Lanes -> SUBSET Lanes] BY ONLY <1>4, <1>8
<1>17. masks' \in [Predicates -> [Lanes -> SUBSET Lanes]] BY ONLY <1>9, <1>10, <1>16, WriteKept
<1>18. got => payload \in [Lanes -> Literal] /\ meta \in [Lanes -> Literal] BY ONLY <1>6, <1>7, <1>12 DEF Mail
<1>19. vregs' \in [Regs -> [Lanes -> Literal]]
  <2>1. CASE got
    <3>1. Write(vregs, w.rs1, payload) \in [Regs -> [Lanes -> Literal]] BY ONLY <1>10, <1>18, <2>1, WriteKept
    <3>2. Write(Write(vregs, w.rs1, payload), rs2, meta) \in [Regs -> [Lanes -> Literal]]
      BY ONLY <1>18, <2>1, <3>1, WriteKept
    <3> QED BY ONLY <1>9, <2>1, <3>2
  <2>2. CASE ~got BY ONLY <1>9, <1>10, <2>2
  <2> QED BY ONLY <2>1, <2>2
<1>20. RegistersOK' BY <1>2, <1>17, <1>19 DEF MachineOK, RegistersOK
<1>21. MessagesOK' BY <1>2, <1>13, <1>15 DEF MachineOK, MessagesOK
<1>22. MemoryOK' BY <1>2 DEF MachineOK, MemoryOK, Addressable
<1> QED BY <1>3, <1>20, <1>21, <1>22 DEF MachineOK

\* FLIP.
LEMMA FlipKeeps == ASSUME MachineOK, Flip PROVE MachineOK'
<1>1. status = "running" /\ pc < Len(image.code) BY DEF Flip, Fetch
<1>2. /\ pc' = pc + 1 /\ flips' = flips + 1 /\ image' = image /\ status' = status /\ calls' = calls /\ sregs' = sregs
      /\ masks' = masks /\ vregs' = vregs /\ ram' = ram /\ sent' = sent /\ inbox' = inbox /\ received' = received
  BY DEF Flip, Advances
<1>3. ImageOK' /\ ControlOK' BY <1>1, <1>2, Continues
<1>4. RegistersOK' BY <1>2 DEF MachineOK, RegistersOK
<1>5. MessagesOK' BY <1>2 DEF MachineOK, MessagesOK
<1>6. MemoryOK' BY <1>2 DEF MachineOK, MemoryOK, Addressable
<1> QED BY <1>3, <1>4, <1>5, <1>6 DEF MachineOK

\* A step that moves only control: to a word of the code, or to a stop.
LEMMA ControlKeeps ==
  ASSUME MachineOK, status = "running", status' \in {"running", "halted", "faulted"},
         pc' \in 0..Len(image.code), calls' \in Seq(1..Len(image.code)), Len(calls') <= CALL_STACK,
         UNCHANGED <<image, vregs, sregs, masks, ram, inbox, received, sent, flips>>
  PROVE  MachineOK'
<1>1. ImageOK' BY DEF MachineOK, ImageOK
<1>2. ControlOK' BY DEF ControlOK
<1>3. RegistersOK' BY DEF MachineOK, RegistersOK
<1>4. MemoryOK' BY DEF MachineOK, MemoryOK, Addressable
<1>5. MessagesOK' BY DEF MachineOK, MessagesOK
<1> QED BY <1>1, <1>2, <1>3, <1>4, <1>5 DEF MachineOK

\* Where a running warp is.
LEMMA Placed ==
  ASSUME MachineOK, status = "running", pc < Len(image.code)
  PROVE  /\ Len(image.code) \in Nat /\ pc \in 0..Len(image.code) /\ pc + 1 \in 1..Len(image.code)
         /\ calls \in Seq(1..Len(image.code)) /\ Len(calls) <= CALL_STACK
<1>1. image.code \in Seq(CodeWord) BY DEF MachineOK, ImageOK, Assembled
<1>2. Len(image.code) \in Nat BY ONLY <1>1
<1>3. pc \in 0..Len(image.code) /\ calls \in Seq(1..Len(image.code)) /\ Len(calls) <= CALL_STACK
  BY DEF MachineOK, ControlOK
<1>4. pc + 1 \in 1..Len(image.code) BY ONLY <1>2, <1>3, pc < Len(image.code)
<1> QED BY ONLY <1>2, <1>3, <1>4

\* A jump, taken or not.
LEMMA JumpKeeps == ASSUME MachineOK, w \notin DataWords, Jump \/ JumpIfAny PROVE MachineOK'
<1>1. status = "running" /\ pc < Len(image.code) /\ w.lo \in Nat BY Fetched DEF Jump, JumpIfAny, Fetch
<1>2. UNCHANGED <<image, calls, vregs, sregs, masks, ram, inbox, received, sent, flips>> BY DEF Jump, JumpIfAny
<1>3. \/ pc' = w.lo /\ w.lo < Len(image.code) /\ status' = status
      \/ pc' = pc /\ status' = "faulted"
      \/ pc' = pc + 1 /\ status' = status
  BY DEF Jump, JumpIfAny, JumpsTo, Advances, Stops
<1>4. /\ Len(image.code) \in Nat /\ pc \in 0..Len(image.code) /\ pc + 1 \in 1..Len(image.code)
      /\ calls \in Seq(1..Len(image.code)) /\ Len(calls) <= CALL_STACK
  BY ONLY MachineOK, <1>1, Placed
<1>5. pc' \in 0..Len(image.code) BY ONLY <1>1, <1>3, <1>4
<1>6. status' \in {"running", "halted", "faulted"} BY ONLY <1>1, <1>3
<1> QED BY <1>1, <1>2, <1>4, <1>5, <1>6, ControlKeeps

\* A call that fits the stack, or faults.
LEMMA CallKeeps == ASSUME MachineOK, w \notin DataWords, Call PROVE MachineOK'
<1>1. status = "running" /\ pc < Len(image.code) /\ w.lo \in Nat BY Fetched DEF Call, Fetch
<1>2. UNCHANGED <<image, vregs, sregs, masks, ram, inbox, received, sent, flips>> BY DEF Call
<1>3. /\ \/ pc' = w.lo /\ w.lo < Len(image.code) /\ status' = status
         \/ pc' = pc /\ status' = "faulted"
      /\ \/ Len(calls) < CALL_STACK /\ calls' = Append(calls, pc + 1)
         \/ calls' = calls
  BY DEF Call, JumpsTo, Stops
<1>4. /\ Len(image.code) \in Nat /\ pc \in 0..Len(image.code) /\ pc + 1 \in 1..Len(image.code)
      /\ calls \in Seq(1..Len(image.code)) /\ Len(calls) <= CALL_STACK
  BY ONLY MachineOK, <1>1, Placed
<1>5. pc' \in 0..Len(image.code) BY ONLY <1>1, <1>3, <1>4
<1>6. status' \in {"running", "halted", "faulted"} BY ONLY <1>1, <1>3
<1>7. calls' \in Seq(1..Len(image.code)) /\ Len(calls') <= CALL_STACK
  <2>1. Append(calls, pc + 1) \in Seq(1..Len(image.code)) /\ Len(Append(calls, pc + 1)) = Len(calls) + 1
    BY ONLY <1>4, AppendProperties
  <2>2. Len(calls) \in Nat /\ CALL_STACK \in Nat BY ONLY <1>4, SizesAssumption
  <2> QED BY ONLY <1>3, <1>4, <2>1, <2>2
<1> QED BY <1>1, <1>2, <1>5, <1>6, <1>7, ControlKeeps

\* A return to the word after a call, or a fault.
LEMMA RetKeeps == ASSUME MachineOK, Ret PROVE MachineOK'
<1>1. status = "running" /\ pc < Len(image.code) BY DEF Ret, Fetch
<1>2. UNCHANGED <<image, vregs, sregs, masks, ram, inbox, received, sent, flips>> BY DEF Ret
<1>3. \/ calls # <<>> /\ pc' = Last(calls) /\ calls' = Front(calls) /\ status' = status
      \/ pc' = pc /\ status' = "faulted" /\ calls' = calls
  BY DEF Ret, Stops
<1>4. /\ Len(image.code) \in Nat /\ pc \in 0..Len(image.code) /\ pc + 1 \in 1..Len(image.code)
      /\ calls \in Seq(1..Len(image.code)) /\ Len(calls) <= CALL_STACK
  BY ONLY MachineOK, <1>1, Placed
<1>5. status' \in {"running", "halted", "faulted"} BY ONLY <1>1, <1>3
<1>6. CASE calls # <<>> /\ pc' = Last(calls) /\ calls' = Front(calls)
  <2>1. PICK n : n = Len(calls) OBVIOUS
  <2>2. n \in Nat /\ n # 0 /\ n <= CALL_STACK /\ CALL_STACK \in Nat
    BY ONLY <1>4, <1>6, <2>1, SizesAssumption, EmptySeq
  <2>3. Last(calls) \in 1..Len(image.code) BY ONLY <1>4, <2>1, <2>2 DEF Last
  <2>4. \A i \in 1..n - 1 : calls[i] \in 1..Len(image.code) BY ONLY <1>4, <2>1, <2>2
  <2>5. SubSeq(calls, 1, n - 1) \in Seq(1..Len(image.code)) /\ Len(SubSeq(calls, 1, n - 1)) <= n
    BY ONLY <2>2, <2>4, SubSeqProperties
  <2>6. Front(calls) \in Seq(1..Len(image.code)) /\ Len(Front(calls)) <= CALL_STACK
    BY ONLY <2>1, <2>2, <2>5 DEF Front
  <2>7. pc' \in 0..Len(image.code) BY ONLY <1>4, <1>6, <2>3
  <2> QED BY <1>1, <1>2, <1>5, <1>6, <2>6, <2>7, ControlKeeps
<1>7. CASE pc' = pc /\ calls' = calls BY <1>1, <1>2, <1>4, <1>5, <1>7, ControlKeeps
<1> QED BY ONLY <1>3, <1>6, <1>7

\* HALT.
LEMMA HaltKeeps == ASSUME MachineOK, Halt PROVE MachineOK'
<1>1. status = "running" /\ pc < Len(image.code) BY DEF Halt, Fetch
<1>2. UNCHANGED <<image, calls, vregs, sregs, masks, ram, inbox, received, sent, flips>> BY DEF Halt
<1>3. pc' = pc /\ status' = "halted" BY DEF Halt, Stops
<1>4. /\ pc \in 0..Len(image.code) /\ calls \in Seq(1..Len(image.code)) /\ Len(calls) <= CALL_STACK
  BY ONLY MachineOK, <1>1, Placed
<1> QED BY <1>1, <1>2, <1>3, <1>4, ControlKeeps

\* The loader starts the program that the assembler wrote.
LEMMA LoadImageKeeps ==
  ASSUME MachineOK, NEW bytes, Written(bytes), LoadImage(bytes)
  PROVE  MachineOK'
<1>1. PICK stmts : /\ Len(stmts) \in Nat /\ \A n \in 1..Len(stmts) : StatementRead(stmts[n])
                   /\ Assemble(stmts).err = ""
                   /\ bytes = EncodeFile(Assemble(stmts).code, Assemble(stmts).lits)
  BY DEF Written
<1>2. PICK r : r = Assemble(stmts) OBVIOUS
<1>3. r.err = "" /\ bytes = EncodeFile(r.code, r.lits) BY ONLY <1>1, <1>2
<1>4. Assembled(r.code, r.lits) BY ONLY <1>1, <1>2, <1>3, ProgramsAssembled
<1>5. ParseFile(bytes) = r BY ONLY <1>1, <1>2, <1>3, ProgramsRoundTrip
<1>6. /\ status = "idle" /\ image' = [code |-> r.code, lits |-> r.lits] /\ status' = "running"
      /\ UNCHANGED <<pc, calls, vregs, sregs, masks, ram, inbox, received, sent, flips>>
  BY ONLY <1>5, LoadImage(bytes) DEF LoadImage
<1>7. image.code = <<>> /\ pc = 0 /\ calls = <<>> BY <1>6 DEF MachineOK, ImageOK
<1>8. image'.code = r.code /\ image'.lits = r.lits BY ONLY <1>6
<1>9. ImageOK' BY ONLY <1>4, <1>6, <1>8 DEF ImageOK
<1>10. ControlOK'
  <2>1. Len(r.code) \in Nat BY ONLY <1>4 DEF Assembled
  <2>2. Len(calls) = 0 /\ calls \in Seq(1..Len(r.code)) BY ONLY <1>7
  <2> QED BY ONLY <1>6, <1>7, <1>8, <2>1, <2>2, SizesAssumption DEF ControlOK
<1>11. RegistersOK' BY <1>6 DEF MachineOK, RegistersOK
<1>12. MemoryOK' BY <1>6 DEF MachineOK, MemoryOK, Addressable
<1>13. MessagesOK' BY <1>6 DEF MachineOK, MessagesOK
<1> QED BY <1>9, <1>10, <1>11, <1>12, <1>13 DEF MachineOK

\* A message arrives.
LEMMA DeliverKeeps == ASSUME MachineOK, NEW m \in Mail, Deliver(m) PROVE MachineOK'
<1>1. /\ inbox' = Append(inbox, m)
      /\ UNCHANGED <<image, status, pc, calls, vregs, sregs, masks, ram, received, sent, flips>>
  BY DEF Deliver
<1>2. inbox \in Seq(Mail) BY DEF MachineOK, MessagesOK
<1>3. inbox' \in Seq(Mail) BY ONLY <1>1, <1>2, m \in Mail, AppendProperties
<1>4. MessagesOK' BY <1>1, <1>3 DEF MachineOK, MessagesOK
<1>5. ImageOK' /\ ControlOK' /\ RegistersOK' /\ MemoryOK'
  BY <1>1 DEF MachineOK, ImageOK, ControlOK, RegistersOK, MemoryOK, Addressable
<1> QED BY <1>4, <1>5 DEF MachineOK

\* Every step keeps MachineOK.
LEMMA StepKeeps == ASSUME MachineOK, w \notin DataWords, MachineStep PROVE MachineOK'
<1>1. CASE VectorOp BY <1>1, VectorOpKeeps
<1>2. CASE PredicateOp BY <1>2, PredicateOpKeeps
<1>3. CASE ScalarOp BY <1>3, ScalarOpKeeps
<1>4. CASE Load BY <1>4, LoadKeeps
<1>5. CASE Store BY <1>5, StoreKeeps
<1>6. CASE Send BY <1>6, SendKeeps
<1>7. CASE TryRecv BY <1>7, TryRecvKeeps
<1>8. CASE Flip BY <1>8, FlipKeeps
<1>9. CASE Jump \/ JumpIfAny BY <1>9, JumpKeeps
<1>10. CASE Call BY <1>10, CallKeeps
<1>11. CASE Ret BY <1>11, RetKeeps
<1>12. CASE Halt BY <1>12, HaltKeeps
<1> QED BY <1>1, <1>2, <1>3, <1>4, <1>5, <1>6, <1>7, <1>8, <1>9, <1>10, <1>11, <1>12 DEF MachineStep

\* A warp that runs what the assembler wrote, with the opcodes that warpc
\* emits and not into the listing's data: its program stays the one that was
\* assembled, the program counter and every return address stay within it,
\* the calls within their stack; registers hold words and masks lanes, for
\* all lanes; it has written words, and only at addresses of RAM and
\* framebuffer; what it sent fits a mailbox entry (interpreter.cuh VmRun;
\* assemble.rs and wvm.rs for the program).
THEOREM WarpSafe == MachineSpec => []MachineOK
<1>1. MachineInit => MachineOK
  <2> SUFFICES ASSUME MachineInit PROVE MachineOK OBVIOUS
  <2>1. /\ image = [code |-> <<>>, lits |-> <<>>] /\ status = "idle" /\ pc = 0 /\ calls = <<>> /\ ram = <<>>
        /\ inbox = <<>> /\ received = <<>> /\ sent = <<>> /\ flips = 0
        /\ vregs = [r \in 0..15 |-> [l \in Lanes |-> 0]]
        /\ sregs = [k \in 0..7 |-> [l \in Lanes |-> 0]]
        /\ masks = [k \in 0..3 |-> [l \in Lanes |-> {}]]
    BY DEF MachineInit, ResetRegisters
  <2>2. image.code = <<>> BY ONLY <2>1
  <2>3. ImageOK BY ONLY <2>1, <2>2 DEF ImageOK
  <2>4. ControlOK BY ONLY <2>1, <2>2, SizesAssumption DEF ControlOK
  <2>5. RegistersOK
    <3>1. 0 \in Literal BY Sizes
    <3>2. vregs \in [Regs -> [Lanes -> Literal]] BY ONLY <2>1, <3>1 DEF Regs
    <3>3. sregs \in [Scalars -> [Lanes -> Literal]] BY ONLY <2>1, <3>1 DEF Scalars
    <3>4. masks \in [Predicates -> [Lanes -> SUBSET Lanes]] BY ONLY <2>1 DEF Predicates
    <3> QED BY ONLY <3>2, <3>3, <3>4 DEF RegistersOK
  <2>6. MemoryOK
    <3>1. DOMAIN ram = {} BY ONLY <2>1
    <3> QED BY ONLY <3>1 DEF MemoryOK
  <2>7. MessagesOK BY ONLY <2>1 DEF MessagesOK
  <2> QED BY ONLY <2>3, <2>4, <2>5, <2>6, <2>7 DEF MachineOK
<1>2. MachineOK /\ [MachineNext]_machine => MachineOK'
  <2> SUFFICES ASSUME MachineOK, [MachineNext]_machine PROVE MachineOK' OBVIOUS
  <2>1. ASSUME NEW bytes, Written(bytes), LoadImage(bytes) PROVE MachineOK' BY <2>1, LoadImageKeeps
  <2>2. CASE w \notin DataWords /\ MachineStep BY <2>2, StepKeeps
  <2>3. ASSUME NEW m \in Mail, Deliver(m) PROVE MachineOK' BY <2>3, DeliverKeeps
  <2>4. CASE UNCHANGED machine
    BY <2>4 DEF machine, MachineOK, ImageOK, ControlOK, RegistersOK, MemoryOK, MessagesOK, Addressable
  <2> QED BY <2>1, <2>2, <2>3, <2>4 DEF MachineNext
<1> QED BY <1>1, <1>2, PTL DEF MachineSpec

\* What kFaultOperand is for is in no loaded program: no instruction of it,
\* whatever its opcode and wherever the warp is, has a guard, a mask, a scalar
\* register or a literal that does not exist (interpreter.cuh BadPredField,
\* BadScalarField, the test of the guard and those of LDW and S_LDW).
OperandsExist == \A n \in 1..Len(image.code) :
                    image.code[n] \notin DataWords => ~OperandFault(image.code[n], image.lits)

\* An assembled program, loaded from its file, never has such an operand, so
\* the steps of Machine leave kFaultOperand out (interpreter.cuh VmRun).
THEOREM NoOperandFaults == MachineSpec => []OperandsExist
<1>1. MachineOK => OperandsExist
  <2>1. ASSUME NEW code, NEW lits, Assembled(code, lits), NEW n \in 1..Len(code), code[n] \notin DataWords
        PROVE  ~OperandFault(code[n], lits)
    <3>1. PICK d : d = code[n] OBVIOUS
    <3>2. Canonical(d) /\ (d.op \in LiteralLoads => d.lo < Len(lits)) BY ONLY <2>1, <3>1 DEF Assembled, Readable
    <3>3. Len(lits) \in Nat BY ONLY <2>1 DEF Assembled
    <3> QED BY ONLY <3>1, <3>2, <3>3, CanonicalIsLegal
  <2>2. ASSUME image.code = <<>> PROVE OperandsExist BY ONLY <2>2 DEF OperandsExist
  <2> QED BY ONLY <2>1, <2>2 DEF MachineOK, ImageOK, OperandsExist
<1> QED BY <1>1, WarpSafe, PTL

=============================================================================
