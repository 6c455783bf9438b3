------------------------------- MODULE Words -------------------------------
(***************************************************************************)
(* The machine word of WarpVM: WordBits bits (32 in the code), unsigned    *)
(* unless an operator says otherwise, arithmetic modulo 2^WordBits.        *)
(***************************************************************************)
EXTENDS Integers, Sequences

CONSTANT WordBits      \* 32 in the code; a power of two, so that shifts mask

ASSUME WordBitsAssumption == WordBits \in {8, 16, 32}

WordMod == 2^WordBits
SIGN_BIT == 2^(WordBits - 1)

Wrap(n)     == n % WordMod
Signed(a)   == IF a >= SIGN_BIT THEN a - WordMod ELSE a
Magnitude(a) == IF a >= SIGN_BIT THEN WordMod - a ELSE a
Flag(b)     == IF b THEN 1 ELSE 0

(* TLC's integers have 32 bits, so a product is built from two halves.     *)
Times(a, b) == LET h == 2^(WordBits \div 2)
               IN  Wrap(a * (b % h) + h * ((a * (b \div h)) % h))

Shl(a, n) == LET k == n % WordBits IN Times(a, 2^k)
Shr(a, n) == a \div 2^(n % WordBits)
Sar(a, n) == Wrap(Signed(a) \div 2^(n % WordBits))

Bit(a, i) == (a \div 2^i) % 2
BitSum(f) == LET sum[i \in 0..WordBits] == IF i = 0 THEN 0 ELSE sum[i - 1] + 2^(i - 1) * f[i - 1]
             IN  sum[WordBits]
Bitwise2(a, b, sums) == BitSum([i \in 0..WordBits - 1 |-> Flag(Bit(a, i) + Bit(b, i) \in sums)])
And(a, b) == Bitwise2(a, b, {2})
Or(a, b)  == Bitwise2(a, b, {1, 2})
Xor(a, b) == Bitwise2(a, b, {1})
Not(a)    == WordMod - 1 - a

(* Division truncates toward zero; b is not 0.                             *)
SignedDiv(a, b) == LET q == Magnitude(a) \div Magnitude(b)
                   IN  Wrap(IF (a >= SIGN_BIT) # (b >= SIGN_BIT) THEN -q ELSE q)
SignedMod(a, b) == LET r == Magnitude(a) % Magnitude(b)
                   IN  Wrap(IF a >= SIGN_BIT THEN -r ELSE r)

(* A C binary operator on two words, as signed or as unsigned integers;    *)
(* the divisor of / and % is not 0.                                        *)
COp(op, signed, a, b) ==
    LET l == IF signed THEN Signed(a) ELSE a
        r == IF signed THEN Signed(b) ELSE b
    IN  CASE op = "+" -> Wrap(a + b)
          [] op = "-" -> Wrap(a - b)
          [] op = "*" -> Times(a, b)
          [] op = "/" -> IF signed THEN SignedDiv(a, b) ELSE a \div b
          [] op = "%" -> IF signed THEN SignedMod(a, b) ELSE a % b
          [] op = "<<" -> Shl(a, b)
          [] op = ">>" -> IF signed THEN Sar(a, b) ELSE Shr(a, b)
          [] op = "<" -> Flag(l < r)
          [] op = "<=" -> Flag(l <= r)
          [] op = ">" -> Flag(l > r)
          [] op = ">=" -> Flag(l >= r)
          [] op = "==" -> Flag(a = b)
          [] op = "!=" -> Flag(a # b)
          [] op = "&" -> And(a, b)
          [] op = "^" -> Xor(a, b)
          [] op = "|" -> Or(a, b)
          [] op = "&&" -> Flag(a # 0 /\ b # 0)
          [] op = "||" -> Flag(a # 0 \/ b # 0)
          [] op = "," -> b
=============================================================================
